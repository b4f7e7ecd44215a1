-------------------------- MODULE OrderBookProofs ---------------------------
(***************************************************************************)
(* Proofs about the order book and its slot allocator, for every number of *)
(* slots, ids, prices and quantities:                                      *)
(*   1. the allocator keeps its slots apart;                               *)
(*   2. the structures of the book stay whole and typed, the sides never   *)
(*      cross, and the listener is told of the book it sees;               *)
(*   3. the lists and the totals of the levels are right and the book      *)
(*      implements the matching engine, where it takes LIMIT, IOC and FOK  *)
(*      orders only.                                                       *)
(***************************************************************************)
EXTENDS OrderBook, FiniteSetTheorems, WellFoundedInduction, TLAPS

-----------------------------------------------------------------------------
(* The slot allocator *)

\* The stack with one more entry.
LEMMA IntervalGrows ==
  ASSUME NEW n \in Nat
  PROVE  0 .. n = (0 .. n - 1) \cup {n}
OBVIOUS

\* Every slot can be on the stack once, so a slot in use leaves room for its return.
LEMMA RoomToReturn ==
  ASSUME PoolTypeOK, NEW held \in SUBSET Slots, PoolSound(held), NEW s \in held
  PROVE  free_top < CAPACITY
<1> SUFFICES ASSUME free_top = CAPACITY
             PROVE  FALSE
  BY CapacityAssumption DEF PoolTypeOK
<1>1. IsFiniteSet(Slots)
  BY FS_Interval, CapacityAssumption DEF Slots
<1>2. IsFiniteSet(Slots \ {s}) /\ Cardinality(Slots \ {s}) = Cardinality(Slots) - 1
  BY <1>1, FS_RemoveElement
<1>3. Cardinality(Slots) \in Nat
  BY <1>1, FS_CardinalityType
<1>4. free_list \in [Slots -> Slots \ {s}]
  BY DEF PoolTypeOK, PoolSound, FreeSlots, Slots
<1>5. Cardinality(Slots \ {s}) < Cardinality(Slots)
  BY <1>2, <1>3
<1>6. \E i, j \in Slots : i # j /\ free_list[i] = free_list[j]
  BY <1>1, <1>2, <1>4, <1>5, FS_PigeonHole
<1> QED BY <1>6 DEF PoolSound, Slots

\* The constructor and reset() leave every slot free.
LEMMA FreshPool ==
  /\ PoolInit => PoolTypeOK /\ PoolSound({})
  /\ PoolReset => (PoolTypeOK /\ PoolSound({}))'
BY CapacityAssumption DEF PoolInit, PoolReset, PoolTypeOK, PoolSound, FreeSlots, Slots

\* allocate() hands out a slot nobody holds, and the pool stays sound with it held.
THEOREM AllocateSound ==
  ASSUME PoolTypeOK, NEW held \in SUBSET Slots, PoolSound(held),
         NEW slot, slot = NextSlot, Allocate
  PROVE  /\ slot \in Slots \ held
         /\ PoolTypeOK'
         /\ PoolSound(held \cup {slot})'
<1> USE CapacityAssumption DEF PoolTypeOK, Allocate, PoolExhausted, NextSlot, Slots
<1>1. free_top \in 1 .. CAPACITY /\ free_top - 1 \in Slots
  OBVIOUS
<1>2. slot \in FreeSlots /\ slot \in Slots
  BY <1>1 DEF FreeSlots
<1>3. FreeSlots' = FreeSlots \ {slot}
  <2>1. \A i \in 0 .. free_top - 2 : free_list[i] # slot
    BY <1>1 DEF PoolSound
  <2>2. free_top' - 1 = free_top - 2
    BY <1>1
  <2>3. FreeSlots' = {free_list[i] : i \in 0 .. free_top - 2}
    BY <2>2 DEF FreeSlots
  <2>4. 0 .. free_top - 1 = (0 .. free_top - 2) \cup {free_top - 1}
    <3>1. free_top - 1 \in Nat /\ (free_top - 1) - 1 = free_top - 2
      BY <1>1
    <3> QED BY <3>1, IntervalGrows
  <2>5. FreeSlots = {free_list[i] : i \in 0 .. free_top - 2} \cup {slot}
    BY <2>4 DEF FreeSlots
  <2>6. slot \notin {free_list[i] : i \in 0 .. free_top - 2}
    BY <2>1, Zenon
  <2> HIDE DEF PoolTypeOK, Allocate, PoolExhausted, NextSlot, Slots
  <2>7. FreeSlots \ {slot} = {free_list[i] : i \in 0 .. free_top - 2}
    BY <2>5, <2>6, Zenon
  <2> QED BY <2>3, <2>7, Zenon
<1>4. \A i, j \in 0 .. free_top' - 1 : free_list'[i] = free_list'[j] => i = j
  <2>1. free_list' = free_list /\ 0 .. free_top' - 1 \subseteq 0 .. free_top - 1
    BY <1>1
  <2> QED BY <2>1, Zenon DEF PoolSound
<1>5. slot \in Slots \ held /\ PoolTypeOK'
  BY <1>1, <1>2 DEF PoolSound
<1>6. FreeSlots' \cap (held \cup {slot}) = {} /\ FreeSlots' \cup (held \cup {slot}) = Slots
  BY <1>2, <1>3, Zenon DEF PoolSound
<1> QED BY <1>4, <1>5, <1>6 DEF PoolSound

\* deallocate() of a held slot makes exactly that slot free again.
THEOREM DeallocateSound ==
  ASSUME PoolTypeOK, NEW held \in SUBSET Slots, PoolSound(held),
         NEW slot \in held, Deallocate(slot)
  PROVE  /\ PoolTypeOK'
         /\ PoolSound(held \ {slot})'
<1> USE CapacityAssumption DEF PoolTypeOK, Deallocate, Slots
<1>1. free_top < CAPACITY /\ free_top \in Slots /\ slot \in Slots
  BY RoomToReturn
<1>2. free_list'[free_top] = slot /\ \A i \in 0 .. free_top - 1 : free_list'[i] = free_list[i]
  BY <1>1
<1>2a. 0 .. free_top' - 1 = (0 .. free_top - 1) \cup {free_top}
  <2>1. free_top' - 1 = free_top /\ free_top \in Nat
    BY <1>1
  <2> QED BY <2>1, IntervalGrows
<1>3. FreeSlots' = FreeSlots \cup {slot}
  <2>1. FreeSlots' = {free_list'[i] : i \in (0 .. free_top - 1) \cup {free_top}}
    BY <1>2a DEF FreeSlots
  <2>2. FreeSlots' = {free_list'[i] : i \in 0 .. free_top - 1} \cup {free_list'[free_top]}
    BY <2>1
  <2>3. {free_list'[i] : i \in 0 .. free_top - 1} = FreeSlots
    <3> HIDE DEF PoolTypeOK, Deallocate, Slots
    <3> DEFINE I == 0 .. free_top - 1
    <3>1. FreeSlots = {free_list[i] : i \in I} /\ \A i \in I : free_list'[i] = free_list[i]
      BY <1>2 DEF FreeSlots
    <3> HIDE DEF I
    <3>2. {free_list'[i] : i \in I} = FreeSlots
      BY <3>1
    <3> QED BY <3>2 DEF I
  <2> QED BY <1>2, <2>2, <2>3
<1>4. slot \notin FreeSlots
  BY DEF PoolSound
<1>5. \A i, j \in 0 .. free_top' - 1 : free_list'[i] = free_list'[j] => i = j
  <2> SUFFICES ASSUME NEW i \in (0 .. free_top - 1) \cup {free_top},
                      NEW j \in (0 .. free_top - 1) \cup {free_top},
                      free_list'[i] = free_list'[j]
               PROVE  i = j
    BY <1>2a
  <2>1. \A k \in 0 .. free_top - 1 : free_list[k] # slot
    BY <1>4 DEF FreeSlots
  <2>2. CASE i = free_top \/ j = free_top
    BY <1>2, <2>1, <2>2
  <2>3. CASE i # free_top /\ j # free_top
    <3>1. i \in 0 .. free_top - 1 /\ j \in 0 .. free_top - 1
      BY <2>3
    <3>2. free_list[i] = free_list[j]
      BY <1>2, <3>1, Zenon
    <3> QED BY <3>1, <3>2, Zenon DEF PoolSound
  <2> QED BY <2>2, <2>3
<1>6. PoolTypeOK'
  <2>1. free_list' \in [Slots -> Slots]
    BY <1>1
  <2>2. free_top' \in 0 .. CAPACITY
    BY <1>1
  <2> QED BY <2>1, <2>2
<1> HIDE DEF PoolTypeOK, Deallocate, Slots
<1>7. FreeSlots' \cap (held \ {slot}) = {} /\ FreeSlots' \cup (held \ {slot}) = Slots
  BY <1>3, <1>4, Zenon DEF PoolSound
<1> QED BY <1>5, <1>6, <1>7 DEF PoolSound

-----------------------------------------------------------------------------
(* Facts about the operators on orders and levels *)

\* Unlinking changes nothing but links, and only to links of the order removed.
LEMMA UnlinkedOrdersFacts ==
  ASSUME NEW ords, NEW o \in Order,
         \A i \in DOMAIN ords : ords[i] \in Order
  PROVE  /\ DOMAIN UnlinkedOrders(ords, o) = DOMAIN ords
         /\ \A i \in DOMAIN ords :
              LET u == UnlinkedOrders(ords, o)[i]
              IN  /\ u \in Order
                  /\ u.side = ords[i].side /\ u.type = ords[i].type
                  /\ u.price = ords[i].price /\ u.remaining = ords[i].remaining
                  /\ u.status = ords[i].status /\ u.slot = ords[i].slot
                  /\ u.next \in {ords[i].next, o.next}
                  /\ u.prev \in {ords[i].prev, o.prev}
BY DEF UnlinkedOrders, Order

\* Erasing an order keeps the others.
LEMMA ErasedFacts ==
  ASSUME NEW ords, NEW id
  PROVE  /\ DOMAIN Erased(ords, id) = DOMAIN ords \ {id}
         /\ \A i \in DOMAIN ords \ {id} : Erased(ords, id)[i] = ords[i]
BY DEF Erased, Restrict

\* Unlinking an order from a level leaves a level.
LEMMA UnlinkedLevelFacts ==
  ASSUME NEW lvl \in PriceLevel, NEW o \in Order
  PROVE  /\ UnlinkedLevel(lvl, o) \in PriceLevel
         /\ UnlinkedLevel(lvl, o).head \in {lvl.head, o.next}
         /\ UnlinkedLevel(lvl, o).tail \in {lvl.tail, o.prev}
BY DEF UnlinkedLevel, PriceLevel, Order

\* Storing a level back into its ladder adds no price and keeps the other levels.
LEMMA StoreLevelFacts ==
  ASSUME NEW lad, NEW p \in DOMAIN lad, NEW lvl
  PROVE  /\ DOMAIN StoreLevel(lad, p, lvl) \subseteq DOMAIN lad
         /\ \A q \in DOMAIN StoreLevel(lad, p, lvl) :
              StoreLevel(lad, p, lvl)[q] = IF q = p THEN lvl ELSE lad[q]
BY DEF StoreLevel, Restrict

-----------------------------------------------------------------------------
(* The inductive invariant *)

\* The newest order that a link may name: not the one being added.
LastLinked == IF pc \in {"sweep", "walk", "finish"} THEN order_id_seq - 1 ELSE order_id_seq

OrdersTyped(ords, last) ==
  \A i \in DOMAIN ords : ords[i] \in Order /\ ords[i].prev <= last /\ ords[i].next <= last

LevelTyped(lvl, last) == lvl \in PriceLevel /\ lvl.head <= last /\ lvl.tail <= last

LaddersTyped(lads, last) ==
  /\ DOMAIN lads = Sides
  /\ \A side \in Sides :
       /\ DOMAIN lads[side] \subseteq Prices
       /\ \A p \in DOMAIN lads[side] : LevelTyped(lads[side][p], last)

IndexInv ==
  /\ PoolTypeOK
  /\ DOMAIN orders \subseteq 1 .. order_id_seq
  /\ OrdersTyped(orders, LastLinked)
  /\ LaddersTyped(ladder, LastLinked)
  /\ order_id_seq \in 0 .. MaxOrderId

\* The order being added is the one the call asked for.
TakerMatchesCall ==
  /\ taker \in DOMAIN orders
  /\ orders[taker].side = call.side
  /\ orders[taker].type = call.type
  /\ orders[taker].price = LimitPrice

CallInv ==
  /\ pc \in {"idle", "add", "sweep", "walk", "finish"}
  /\ pc \in {"idle", "add"} \/ TakerMatchesCall
  /\ pc = "add" => order_id_seq < MaxOrderId
  /\ IF pc = "idle" THEN call = Idle ELSE call \in Call
  /\ at \in Prices \cup {0}
  /\ cur \in OrderIds \cup {NoOrder} /\ cur <= LastLinked
  /\ pc \in {"idle", "add"} => cur = NoOrder
  /\ fills \in Nat

StructureInv == IndexInv /\ CallInv /\ PoolPartition

\* The strengthening is stronger than the type invariant.
LEMMA StructureImpliesType == StructureInv => TypeOK
BY DEF StructureInv, IndexInv, CallInv, TakerMatchesCall, TypeOK, OrdersTyped, LaddersTyped, LevelTyped

-----------------------------------------------------------------------------
(* One lemma for each way the indexes change *)

\* Dropping an order from the map and its slot into the pool keeps the partition.
LEMMA OrderDropped ==
  ASSUME PoolTypeOK, PoolPartition, OrdersTyped(orders, LastLinked),
         NEW id \in DOMAIN orders, Deallocate(orders[id].slot),
         DOMAIN orders' = DOMAIN orders \ {id},
         \A i \in DOMAIN orders' : orders'[i].slot = orders[i].slot
  PROVE  PoolTypeOK' /\ PoolPartition'
<1> DEFINE held == {orders[i].slot : i \in DOMAIN orders}
<1>1. held \in SUBSET Slots
  BY DEF OrdersTyped, Order
<1>2. {orders'[i].slot : i \in DOMAIN orders'} = held \ {orders[id].slot}
  BY DEF PoolPartition
<1>3. PICK h : h = held
  OBVIOUS
<1>4. PICK s : s = orders[id].slot
  OBVIOUS
<1>5. PoolTypeOK' /\ PoolSound(h \ {s})'
  <2>1. PoolSound(h) /\ h \in SUBSET Slots /\ s \in h /\ Deallocate(s)
    BY <1>1, <1>3, <1>4 DEF PoolPartition
  <2> QED BY <2>1, DeallocateSound
<1>6. PoolSound({orders[i].slot : i \in DOMAIN orders})'
  BY <1>2, <1>3, <1>4, <1>5
<1> QED BY <1>5, <1>6 DEF PoolPartition

\* Entering an order with the slot just allocated keeps the partition.
LEMMA OrderEntered ==
  ASSUME PoolTypeOK, PoolPartition, OrdersTyped(orders, LastLinked),
         NEW id, id \notin DOMAIN orders, Allocate,
         DOMAIN orders' = DOMAIN orders \cup {id},
         orders'[id].slot = NextSlot,
         \A i \in DOMAIN orders : orders'[i].slot = orders[i].slot
  PROVE  PoolTypeOK' /\ PoolPartition' /\ NextSlot \in Slots
<1> DEFINE held == {orders[i].slot : i \in DOMAIN orders}
<1>1. held \in SUBSET Slots
  BY DEF OrdersTyped, Order
<1>2. {orders'[i].slot : i \in DOMAIN orders'} = held \cup {NextSlot}
  OBVIOUS
<1>3. PICK h : h = held
  OBVIOUS
<1>4. PICK s : s = NextSlot
  OBVIOUS
<1>5. s \in Slots \ h /\ PoolTypeOK' /\ PoolSound(h \cup {s})'
  <2>1. PoolSound(h) /\ h \in SUBSET Slots
    BY <1>1, <1>3 DEF PoolPartition
  <2> QED BY <2>1, <1>4, AllocateSound
<1>6. PoolSound({orders[i].slot : i \in DOMAIN orders})'
  BY <1>2, <1>3, <1>4, <1>5
<1>7. \A i, j \in DOMAIN orders' : orders'[i].slot = orders'[j].slot => i = j
  BY <1>3, <1>4, <1>5 DEF PoolPartition
<1> QED BY <1>4, <1>5, <1>6, <1>7 DEF PoolPartition

\* Storing a typed level back keeps the ladders typed.
LEMMA LevelStored ==
  ASSUME NEW lads, NEW last, LaddersTyped(lads, last),
         NEW side \in Sides, NEW p \in DOMAIN lads[side],
         NEW lvl, LevelTyped(lvl, last)
  PROVE  LaddersTyped([lads EXCEPT ![side] = StoreLevel(lads[side], p, lvl)], last)
<1> DEFINE lad == StoreLevel(lads[side], p, lvl)
<1>1. /\ DOMAIN lad \subseteq DOMAIN lads[side]
      /\ \A q \in DOMAIN lad : lad[q] = IF q = p THEN lvl ELSE lads[side][q]
  BY StoreLevelFacts
<1> HIDE DEF lad
<1>2. \A q \in DOMAIN lad : LevelTyped(lad[q], last)
  BY <1>1 DEF LaddersTyped
<1>3. LaddersTyped([lads EXCEPT ![side] = lad], last)
  BY <1>1, <1>2 DEF LaddersTyped
<1> QED BY <1>3 DEF lad

\* Replacing a level by a typed one keeps the ladders typed.
LEMMA LevelReplaced ==
  ASSUME NEW lads, NEW last, LaddersTyped(lads, last),
         NEW side \in Sides, NEW p \in DOMAIN lads[side],
         NEW lvl, LevelTyped(lvl, last)
  PROVE  LaddersTyped([lads EXCEPT ![side] = [lads[side] EXCEPT ![p] = lvl]], last)
BY DEF LaddersTyped

\* A level from which an order was unlinked is typed.
LEMMA LevelUnlinked ==
  ASSUME NEW last, NEW lvl, LevelTyped(lvl, last),
         NEW o \in Order, o.prev <= last, o.next <= last, NEW qty \in Int
  PROVE  /\ LevelTyped([lvl EXCEPT !.total_qty = @ - qty], last)
         /\ LevelTyped(UnlinkedLevel([lvl EXCEPT !.total_qty = @ - qty], o), last)
<1> DEFINE less == [lvl EXCEPT !.total_qty = @ - qty]
<1>1. less \in PriceLevel /\ less.head = lvl.head /\ less.tail = lvl.tail
  BY DEF LevelTyped, PriceLevel
<1>2. /\ UnlinkedLevel(less, o) \in PriceLevel
      /\ UnlinkedLevel(less, o).head \in {less.head, o.next}
      /\ UnlinkedLevel(less, o).tail \in {less.tail, o.prev}
  BY <1>1, UnlinkedLevelFacts
<1> HIDE DEF less
<1>3. LevelTyped(less, last) /\ LevelTyped(UnlinkedLevel(less, o), last)
  BY <1>1, <1>2 DEF LevelTyped
<1> QED BY <1>3 DEF less

\* What an update of the order map leaves alone.
SameButLinks(a, b) ==
  /\ a.side = b.side /\ a.type = b.type /\ a.price = b.price
  /\ a.remaining = b.remaining /\ a.status = b.status /\ a.slot = b.slot

\* new is old without order id, up to links, and still typed.
OrdersRemain(new, old, id, last) ==
  /\ OrdersTyped(new, last)
  /\ DOMAIN new = DOMAIN old \ {id}
  /\ \A i \in DOMAIN new : SameButLinks(new[i], old[i])

\* Orders stay typed when one is erased.
LEMMA OrdersErased ==
  ASSUME NEW ords, NEW last, OrdersTyped(ords, last), NEW id
  PROVE  OrdersRemain(Erased(ords, id), ords, id, last)
<1> DEFINE new == Erased(ords, id)
<1>1. DOMAIN new = DOMAIN ords \ {id} /\ \A i \in DOMAIN new : new[i] = ords[i]
  BY ErasedFacts
<1> HIDE DEF new
<1>2. OrdersTyped(new, last)
  BY <1>1 DEF OrdersTyped
<1>3. \A i \in DOMAIN new : SameButLinks(new[i], ords[i])
  BY <1>1 DEF SameButLinks
<1>4. OrdersRemain(new, ords, id, last)
  BY <1>1, <1>2, <1>3 DEF OrdersRemain
<1> QED BY <1>4 DEF new

\* Orders stay typed when one is unlinked and erased.
LEMMA OrdersUnlinkedErased ==
  ASSUME NEW ords, NEW last, OrdersTyped(ords, last),
         NEW o \in Order, o.prev <= last, o.next <= last, NEW id
  PROVE  OrdersRemain(Erased(UnlinkedOrders(ords, o), id), ords, id, last)
<1> DEFINE unl == UnlinkedOrders(ords, o)
<1>1. /\ DOMAIN unl = DOMAIN ords
      /\ \A i \in DOMAIN ords :
           /\ unl[i] \in Order
           /\ SameButLinks(unl[i], ords[i])
           /\ unl[i].next \in {ords[i].next, o.next}
           /\ unl[i].prev \in {ords[i].prev, o.prev}
  BY UnlinkedOrdersFacts DEF OrdersTyped, SameButLinks
<1>2. OrdersTyped(unl, last)
  BY <1>1 DEF OrdersTyped
<1> HIDE DEF unl
<1>3. OrdersRemain(Erased(unl, id), unl, id, last)
  BY <1>2, OrdersErased
<1>4. OrdersRemain(Erased(unl, id), ords, id, last)
  BY <1>1, <1>3 DEF OrdersRemain, SameButLinks
<1> QED BY <1>4 DEF unl

-----------------------------------------------------------------------------
(* Initial state and calls that start *)

\* An empty book satisfies the invariant.
LEMMA InitStructure == Init => StructureInv
<1> SUFFICES ASSUME Init PROVE StructureInv
  OBVIOUS
<1>1. orders = << >> /\ DOMAIN orders = {} /\ ladder = [side \in Sides |-> << >>]
  BY DEF Init
<1>2. PoolTypeOK /\ PoolSound({})
  BY FreshPool DEF Init
<1>3. PoolPartition
  BY <1>1, <1>2 DEF PoolPartition
<1>4. LaddersTyped(ladder, LastLinked) /\ OrdersTyped(orders, LastLinked)
  BY <1>1 DEF LaddersTyped, OrdersTyped
<1>5. IndexInv
  BY <1>1, <1>2, <1>4, BookAssumption DEF Init, IndexInv
<1>6. CallInv
  BY BookAssumption DEF Init, CallInv, LastLinked, NoOrder
<1> QED BY <1>3, <1>5, <1>6 DEF StructureInv

\* add_order only records its arguments.
LEMMA AddStructure ==
  ASSUME StructureInv, NEW side \in Sides, NEW type \in OrderTypes,
         NEW price \in Prices, NEW qty \in Quantities, add_order(side, type, price, qty)
  PROVE  StructureInv'
<1> USE DEF add_order, bookVars, poolVars
<1>1. LastLinked' = LastLinked
  BY DEF LastLinked
<1>2. IndexInv'
  BY <1>1 DEF StructureInv, IndexInv, PoolTypeOK, OrdersTyped, LaddersTyped
<1>3. CallInv'
  BY <1>1 DEF StructureInv, CallInv, Call, IdsLeft
<1>4. PoolPartition'
  BY DEF StructureInv, PoolPartition, PoolSound, FreeSlots
<1> QED BY <1>2, <1>3, <1>4 DEF StructureInv

\* Withdrawing an order, in cancel_order and modify_order, keeps the indexes.
LEMMA WithdrawStructure ==
  ASSUME StructureInv, pc = "idle", pc' \in {"idle", "add"}, order_id_seq' = order_id_seq,
         NEW id \in DOMAIN orders, Withdraw(id)
  PROVE  IndexInv' /\ PoolPartition'
<1> DEFINE o    == orders[id]
           lad  == ladder[o.side]
           lvl  == [lad[o.price] EXCEPT !.total_qty = @ - o.remaining]
           held == o.price \in DOMAIN lad
<1>1. LastLinked = order_id_seq /\ LastLinked' = LastLinked
  BY DEF LastLinked
<1>2. /\ o \in Order /\ o.prev <= LastLinked /\ o.next <= LastLinked
      /\ OrdersTyped(orders, LastLinked) /\ LaddersTyped(ladder, LastLinked)
      /\ PoolTypeOK /\ PoolPartition
  BY DEF StructureInv, IndexInv, OrdersTyped
<1>3. /\ OrdersTyped(orders', LastLinked)
      /\ DOMAIN orders' = DOMAIN orders \ {id}
      /\ \A i \in DOMAIN orders' : orders'[i].slot = orders[i].slot
  <2>1. orders' \in {Erased(UnlinkedOrders(orders, o), id), Erased(orders, id)}
    BY DEF Withdraw
  <2> HIDE DEF o
  <2>2. OrdersRemain(orders', orders, id, LastLinked)
    BY <1>2, <2>1, OrdersUnlinkedErased, OrdersErased
  <2> QED BY <2>2 DEF OrdersRemain, SameButLinks
<1>4. LaddersTyped(ladder', LastLinked)
  <2>1. CASE ~held
    BY <1>2, <2>1 DEF Withdraw
  <2>2. CASE held
    <3>1. o.side \in Sides /\ o.remaining \in Int
      BY <1>2 DEF Order
    <3>2. LevelTyped(lad[o.price], LastLinked)
      BY <1>2, <2>2, <3>1 DEF LaddersTyped
    <3>3. LevelTyped(UnlinkedLevel(lvl, o), LastLinked)
      BY <1>2, <3>1, <3>2, LevelUnlinked
    <3>4. ladder' = [ladder EXCEPT ![o.side] = StoreLevel(lad, o.price, UnlinkedLevel(lvl, o))]
      BY <2>2 DEF Withdraw
    <3> HIDE DEF o, lvl
    <3> QED BY <1>2, <2>2, <3>1, <3>3, <3>4, LevelStored
  <2> QED BY <2>1, <2>2
<1>5. PoolTypeOK' /\ PoolPartition'
  BY <1>2, <1>3, OrderDropped DEF Withdraw
<1> QED BY <1>1, <1>3, <1>4, <1>5 DEF StructureInv, IndexInv

\* cancel_order keeps the invariant.
LEMMA CancelStructure ==
  ASSUME StructureInv, NEW id \in DOMAIN orders, cancel_order(id)
  PROVE  StructureInv'
<1>1. IndexInv' /\ PoolPartition'
  BY WithdrawStructure DEF cancel_order
<1>2. CallInv'
  BY DEF StructureInv, CallInv, cancel_order, callVars, LastLinked
<1> QED BY <1>1, <1>2 DEF StructureInv

\* modify_order keeps the invariant, whether it cancels or not.
LEMMA ModifyStructure ==
  ASSUME StructureInv, NEW id \in DOMAIN orders, NEW price \in Prices, NEW qty \in Quantities,
         modify_order(id, price, qty)
  PROVE  StructureInv'
<1>1. IndexInv' /\ PoolPartition'
  <2>1. CASE Withdraw(id)
    BY <2>1, WithdrawStructure DEF modify_order
  <2>2. CASE UNCHANGED <<orders, ladder, poolVars, bbo>>
    <3>1. LastLinked' = LastLinked
      BY DEF LastLinked, modify_order
    <3>2. IndexInv'
      BY <2>2, <3>1 DEF StructureInv, IndexInv, PoolTypeOK, OrdersTyped, LaddersTyped,
                        poolVars, modify_order
    <3>3. PoolPartition'
      BY <2>2 DEF StructureInv, PoolPartition, PoolSound, FreeSlots, poolVars
    <3> QED BY <3>2, <3>3
  <2> QED BY <2>1, <2>2 DEF modify_order
<1>2. CallInv'
  BY DEF StructureInv, CallInv, IndexInv, OrdersTyped, Order, modify_order, LastLinked, Call, IdsLeft
<1> QED BY <1>1, <1>2 DEF StructureInv

\* clear empties the indexes and the pool together.
LEMMA ClearStructure ==
  ASSUME StructureInv, clear
  PROVE  StructureInv'
<1>1. orders' = << >> /\ DOMAIN orders' = {} /\ ladder' = [side \in Sides |-> << >>]
  BY DEF clear
<1>2. PoolTypeOK' /\ PoolSound({})'
  BY FreshPool DEF clear
<1>3. PoolPartition'
  BY <1>1, <1>2 DEF PoolPartition
<1>4. LaddersTyped(ladder', LastLinked') /\ OrdersTyped(orders', LastLinked')
  BY <1>1 DEF LaddersTyped, OrdersTyped
<1>5. IndexInv'
  BY <1>1, <1>2, <1>4, BookAssumption DEF clear, IndexInv
<1>6. CallInv'
  BY BookAssumption DEF clear, CallInv, StructureInv, LastLinked, NoOrder, callVars
<1> QED BY <1>3, <1>5, <1>6 DEF StructureInv

-----------------------------------------------------------------------------
(* Steps of add_order *)

\* Steps that touch neither index leave the index part of the invariant alone,
\* as long as no link can come to name an order that is too new.
LEMMA IndexUnchanged ==
  ASSUME IndexInv, PoolPartition, UNCHANGED <<orders, ladder, poolVars>>,
         order_id_seq' \in 0 .. MaxOrderId, order_id_seq <= order_id_seq',
         LastLinked' \in Int, LastLinked \in Int, LastLinked <= LastLinked'
  PROVE  IndexInv' /\ PoolPartition'
<1>1. PoolTypeOK'
  BY DEF IndexInv, PoolTypeOK, poolVars
<1>5. PoolPartition'
  BY DEF PoolPartition, PoolSound, FreeSlots, poolVars
<1>2. DOMAIN orders' \subseteq 1 .. order_id_seq'
  BY DEF IndexInv
<1>3. OrdersTyped(orders', LastLinked')
  BY DEF IndexInv, OrdersTyped, Order, OrderIds, NoOrder
<1>4. LaddersTyped(ladder', LastLinked')
  BY DEF IndexInv, LaddersTyped, LevelTyped, PriceLevel, OrderIds, NoOrder
<1> QED BY <1>1, <1>2, <1>3, <1>4, <1>5 DEF IndexInv

\* A rejected, killed or abandoned order touches no index.
LEMMA QuietReturnStructure ==
  ASSUME StructureInv, Return, UNCHANGED <<orders, ladder, poolVars>>,
         order_id_seq' \in {order_id_seq, order_id_seq + 1},
         order_id_seq' <= MaxOrderId
  PROVE  StructureInv'
<1>1. order_id_seq \in Nat /\ LastLinked' = order_id_seq' /\ LastLinked <= order_id_seq
      /\ LastLinked \in Int
  BY BookAssumption DEF StructureInv, IndexInv, LastLinked, Return
<1>2. order_id_seq' \in 0 .. MaxOrderId
  BY <1>1, BookAssumption DEF StructureInv, IndexInv
<1>3. IndexInv' /\ PoolPartition'
  BY <1>1, <1>2, IndexUnchanged DEF StructureInv
<1>4. CallInv'
  BY <1>1, <1>2 DEF Return, CallInv, NoOrder
<1> QED BY <1>3, <1>4 DEF StructureInv

\* Admission enters the taker under a new id, which no link names yet.
LEMMA AdmitStructure ==
  ASSUME StructureInv, AdmitOrder
  PROVE  StructureInv'
<1> DEFINE id == order_id_seq + 1
<1>1. /\ order_id_seq \in Nat /\ order_id_seq < MaxOrderId /\ MaxOrderId \in Nat
      /\ LastLinked = order_id_seq /\ LastLinked' = order_id_seq
      /\ order_id_seq' = id
  BY BookAssumption DEF StructureInv, IndexInv, CallInv, LastLinked, AdmitOrder
<1>2. /\ PoolTypeOK /\ PoolPartition /\ OrdersTyped(orders, LastLinked)
      /\ LaddersTyped(ladder, LastLinked) /\ DOMAIN orders \subseteq 1 .. order_id_seq
  BY DEF StructureInv, IndexInv
<1>3. /\ id \notin DOMAIN orders
      /\ DOMAIN orders' = DOMAIN orders \cup {id}
      /\ orders'[id] = TakerOrder
      /\ \A i \in DOMAIN orders : orders'[i] = orders[i]
  BY <1>1, <1>2 DEF AdmitOrder
<1>4. PoolTypeOK' /\ PoolPartition' /\ NextSlot \in Slots
  BY <1>2, <1>3, OrderEntered DEF AdmitOrder, TakerOrder
<1>5. TakerOrder \in Order /\ TakerOrder.prev = 0 /\ TakerOrder.next = 0
  <2>1. call \in Call
    BY DEF StructureInv, CallInv, AdmitOrder
  <2>2. LimitPrice \in BookPrices
    BY <2>1 DEF LimitPrice, BookPrices, Call
  <2>3. call.qty \in Int /\ call.side \in Sides /\ call.type \in OrderTypes
    BY <2>1, BookAssumption DEF Call
  <2> QED BY <1>4, <2>2, <2>3 DEF TakerOrder, Order, NoOrder
<1>6. OrdersTyped(orders', LastLinked')
  BY <1>1, <1>2, <1>3, <1>5 DEF OrdersTyped
<1>7. IndexInv'
  BY <1>1, <1>2, <1>3, <1>4, <1>6 DEF IndexInv, AdmitOrder
<1>8. CallInv'
  <2>1. TakerMatchesCall'
    BY <1>1, <1>3 DEF TakerMatchesCall, TakerOrder, LimitPrice, AdmitOrder, taker, callVars
  <2> QED BY <1>1, <2>1 DEF StructureInv, CallInv, AdmitOrder, callVars, NoOrder
<1> QED BY <1>4, <1>7, <1>8 DEF StructureInv

\* The loop control of the sweep only moves the cursor, to links of the book.
LEMMA SweepStructure ==
  ASSUME StructureInv, EnterLevel \/ EndSweep
  PROVE  StructureInv'
<1>1. /\ LastLinked' = LastLinked /\ LastLinked = order_id_seq - 1
      /\ order_id_seq' = order_id_seq /\ order_id_seq \in 0 .. MaxOrderId
      /\ pc = "sweep" /\ pc' \in {"walk", "finish"}
      /\ UNCHANGED <<orders, ladder, poolVars>>
  BY DEF StructureInv, IndexInv, LastLinked, EnterLevel, EndSweep, bookVars, poolVars
<1>2. IndexInv' /\ PoolPartition'
  BY <1>1, IndexUnchanged, BookAssumption DEF StructureInv
<1>3. TakerMatchesCall'
  BY <1>1 DEF StructureInv, CallInv, TakerMatchesCall, LimitPrice, taker,
              EnterLevel, EndSweep, callVars
<1>5. CASE EnterLevel
  <2>1. PICK p \in DOMAIN ladder[MakerSide] : at' = p /\ cur' = ladder[MakerSide][p].head
    BY <1>5 DEF EnterLevel
  <2>2. MakerSide \in Sides
    BY DEF MakerSide, Opposite, Sides
  <2>3. p \in Prices /\ LevelTyped(ladder[MakerSide][p], LastLinked)
    BY <2>1, <2>2 DEF StructureInv, IndexInv, LaddersTyped
  <2>4. cur' \in OrderIds \cup {NoOrder} /\ cur' <= LastLinked
    BY <2>1, <2>3 DEF LevelTyped, PriceLevel
  <2>5. CallInv'
    BY <1>1, <1>3, <1>5, <2>1, <2>3, <2>4 DEF StructureInv, CallInv, EnterLevel
  <2> QED BY <1>2, <2>5 DEF StructureInv
<1>6. CASE EndSweep
  <2>1. CallInv'
    BY <1>1, <1>3, <1>6 DEF StructureInv, CallInv, EndSweep, callVars
  <2> QED BY <1>2, <2>1 DEF StructureInv
<1> QED BY <1>5, <1>6

\* What a trade leaves of an order.
OrderFilled(new, old) ==
  /\ new \in Order
  /\ new.side = old.side /\ new.type = old.type /\ new.price = old.price
  /\ new.prev = old.prev /\ new.next = old.next /\ new.slot = old.slot

\* A trade changes the quantity and the status only.
LEMMA FilledFacts ==
  ASSUME NEW o \in Order, NEW qty \in Int
  PROVE  OrderFilled(Filled(o, qty), o)
<1>1. PICK st \in {"NEW", "PARTIAL", "FILLED"} :
        Filled(o, qty) = [o EXCEPT !.remaining = o.remaining - qty, !.status = st]
  BY DEF Filled
<1>2. o.remaining - qty \in Int
  BY DEF Order
<1>3. \A n \in Int : OrderFilled([o EXCEPT !.remaining = n, !.status = st], o)
  BY DEF Order, OrderFilled
<1> QED BY <1>1, <1>2, <1>3

\* The pool stays sound for the slots held when it does not change.
LEMMA PoolUnchanged ==
  ASSUME NEW held, PoolSound(held), UNCHANGED poolVars
  PROVE  PoolSound(held)'
BY DEF PoolSound, FreeSlots, poolVars

\* Filling a maker: both orders, the level and the pool change together, and
\* the cursor moves on to a link of the book.
LEMMA FillStructure ==
  ASSUME StructureInv, FillMaker
  PROVE  StructureInv'
<1> DEFINE maker == orders[cur]
           qty   == Lesser(orders[taker].remaining, maker.remaining)
           done  == maker.remaining = qty
           lad   == ladder[MakerSide]
           held  == maker.price \in DOMAIN lad
           lvl   == [lad[maker.price] EXCEPT !.total_qty = @ - qty]
           traded == [orders EXCEPT ![taker] = Filled(@, qty), ![cur] = Filled(@, qty)]
<1>1. /\ LastLinked' = LastLinked /\ LastLinked = order_id_seq - 1
      /\ order_id_seq' = order_id_seq /\ order_id_seq \in 0 .. MaxOrderId
      /\ taker \in DOMAIN orders /\ cur \in DOMAIN orders /\ cur # taker
  BY BookAssumption
     DEF StructureInv, IndexInv, CallInv, TakerMatchesCall, LastLinked, FillMaker, taker,
         OrderIds, NoOrder
<1>2. /\ PoolTypeOK /\ PoolPartition /\ OrdersTyped(orders, LastLinked)
      /\ LaddersTyped(ladder, LastLinked) /\ DOMAIN orders \subseteq 1 .. order_id_seq
      /\ maker \in Order /\ maker.prev <= LastLinked /\ maker.next <= LastLinked
      /\ MakerSide \in Sides
  BY <1>1 DEF StructureInv, IndexInv, OrdersTyped, MakerSide, Opposite, Sides
<1>3. qty \in Int
  BY <1>1, <1>2 DEF OrdersTyped, Order, Lesser
<1>4. /\ OrdersTyped(traded, LastLinked)
      /\ DOMAIN traded = DOMAIN orders
      /\ \A i \in DOMAIN orders :
           /\ traded[i].side = orders[i].side /\ traded[i].type = orders[i].type
           /\ traded[i].price = orders[i].price /\ traded[i].slot = orders[i].slot
  <2> HIDE DEF qty
  <2>1. \A i \in {taker, cur} : OrderFilled(Filled(orders[i], qty), orders[i])
    BY <1>1, <1>2, <1>3, FilledFacts DEF OrdersTyped
  <2>2. /\ DOMAIN traded = DOMAIN orders
        /\ \A i \in DOMAIN orders \ {taker, cur} : traded[i] = orders[i]
        /\ \A i \in {taker, cur} : traded[i] = Filled(orders[i], qty)
    BY <1>1
  <2> HIDE DEF traded
  <2> QED BY <1>1, <1>2, <2>1, <2>2 DEF OrdersTyped, OrderFilled
<1>5. /\ OrdersTyped(orders', LastLinked)
      /\ DOMAIN orders' = IF done THEN DOMAIN orders \ {cur} ELSE DOMAIN orders
      /\ \A i \in DOMAIN orders' :
           /\ orders'[i].side = orders[i].side /\ orders'[i].type = orders[i].type
           /\ orders'[i].price = orders[i].price /\ orders'[i].slot = orders[i].slot
  <2>1. CASE ~done
    <3>1. orders' = traded
      BY <2>1 DEF FillMaker, fill_order
    <3> HIDE DEF traded, done
    <3> QED BY <1>4, <2>1, <3>1
  <2>2. CASE done
    <3>1. orders' \in {Erased(UnlinkedOrders(traded, maker), cur), Erased(traded, cur)}
      BY <2>2 DEF FillMaker, fill_order
    <3> HIDE DEF traded, done, maker
    <3>2. OrdersRemain(orders', traded, cur, LastLinked)
      BY <1>2, <1>4, <3>1, OrdersUnlinkedErased, OrdersErased
    <3> QED BY <1>4, <2>2, <3>2 DEF OrdersRemain, SameButLinks
  <2> QED BY <2>1, <2>2
<1>6. LaddersTyped(ladder', LastLinked)
  <2>1. CASE ~held
    BY <1>2, <2>1 DEF FillMaker, fill_order
  <2>2. CASE held
    <3>1. LevelTyped(lad[maker.price], LastLinked)
      BY <1>2, <2>2 DEF LaddersTyped
    <3>2. LevelTyped(lvl, LastLinked) /\ LevelTyped(UnlinkedLevel(lvl, maker), LastLinked)
      BY <1>2, <1>3, <3>1, LevelUnlinked
    <3>3. ladder' \in {[ladder EXCEPT ![MakerSide] =
                          StoreLevel(lad, maker.price, UnlinkedLevel(lvl, maker))],
                       [ladder EXCEPT ![MakerSide] = [lad EXCEPT ![maker.price] = lvl]]}
      BY <2>2 DEF FillMaker, fill_order
    <3> HIDE DEF lvl, maker
    <3> QED BY <1>2, <2>2, <3>2, <3>3, LevelStored, LevelReplaced
  <2> QED BY <2>1, <2>2
<1>7. PoolTypeOK' /\ PoolPartition'
  <2>1. CASE done
    <3>1. Deallocate(orders[cur].slot)
      BY <2>1 DEF FillMaker, fill_order
    <3> HIDE DEF done
    <3> QED BY <1>1, <1>2, <1>5, <2>1, <3>1, OrderDropped
  <2>2. CASE ~done
    <3>1. UNCHANGED <<free_list, free_top>>
      BY <2>2 DEF FillMaker, fill_order, poolVars
    <3> HIDE DEF done
    <3>2. PoolTypeOK'
      BY <1>2, <3>1 DEF PoolTypeOK
    <3>3. {orders'[i].slot : i \in DOMAIN orders'} = {orders[i].slot : i \in DOMAIN orders}
      BY <1>5, <2>2
    <3>4. PoolSound({orders[i].slot : i \in DOMAIN orders})'
      <4>1. PICK h : h = {orders[i].slot : i \in DOMAIN orders}
        OBVIOUS
      <4>2. PoolSound(h)'
        BY <1>2, <3>1, <4>1, PoolUnchanged DEF PoolPartition, poolVars
      <4> QED BY <3>3, <4>1, <4>2
    <3>5. \A i, j \in DOMAIN orders' : orders'[i].slot = orders'[j].slot => i = j
      BY <1>2, <1>5, <2>2 DEF PoolPartition
    <3> QED BY <3>2, <3>4, <3>5 DEF PoolPartition
  <2> QED BY <2>1, <2>2
<1>8. IndexInv'
  BY <1>1, <1>2, <1>5, <1>6, <1>7 DEF IndexInv
<1>9. CallInv'
  <2>1. TakerMatchesCall'
    <3>1. TakerMatchesCall /\ call' = call /\ taker' = taker
      BY DEF StructureInv, CallInv, FillMaker, taker
    <3>2. taker \in DOMAIN orders'
      BY <1>1, <1>5
    <3> QED BY <1>5, <3>1, <3>2 DEF TakerMatchesCall, LimitPrice
  <2>2. cur' \in OrderIds \cup {NoOrder} /\ cur' <= LastLinked'
    BY <1>1, <1>2 DEF FillMaker, fill_order, Order
  <2> QED BY <2>1, <2>2 DEF StructureInv, CallInv, FillMaker
<1> QED BY <1>7, <1>8, <1>9 DEF StructureInv

\* The clean-up after a walk stores or erases a level of the ladder, whichever
\* it finds in the freed node.
LEMMA LeaveStructure ==
  ASSUME StructureInv, LeaveLevel
  PROVE  StructureInv'
<1>1. /\ LastLinked' = LastLinked
      /\ UNCHANGED <<orders, order_id_seq, poolVars, bbo, callVars>>
      /\ MakerSide \in Sides
  BY DEF LastLinked, LeaveLevel, MakerSide, Opposite, Sides
<1>2. LaddersTyped(ladder', LastLinked)
  <2>1. PICK p \in CheckedPrices :
          ladder' = IF p \in DOMAIN ladder[MakerSide]
                    THEN [ladder EXCEPT ![MakerSide] = StoreLevel(@, p, @[p])]
                    ELSE ladder
    BY DEF LeaveLevel
  <2>2. LaddersTyped(ladder, LastLinked)
    BY DEF StructureInv, IndexInv
  <2>3. CASE p \notin DOMAIN ladder[MakerSide]
    BY <2>1, <2>2, <2>3
  <2>4. CASE p \in DOMAIN ladder[MakerSide]
    <3>1. LevelTyped(ladder[MakerSide][p], LastLinked)
      BY <1>1, <2>2, <2>4 DEF LaddersTyped
    <3>2. ladder' = [ladder EXCEPT ![MakerSide] =
                       StoreLevel(ladder[MakerSide], p, ladder[MakerSide][p])]
      BY <2>1, <2>4
    <3> QED BY <1>1, <2>2, <2>4, <3>1, <3>2, LevelStored
  <2> QED BY <2>3, <2>4
<1>3. PoolTypeOK'
  BY <1>1 DEF StructureInv, IndexInv, PoolTypeOK, poolVars
<1>4. PoolPartition'
  BY <1>1 DEF StructureInv, PoolPartition, PoolSound, FreeSlots, poolVars
<1>5. IndexInv'
  BY <1>1, <1>2, <1>3 DEF StructureInv, IndexInv
<1>6. CallInv'
  BY <1>1 DEF StructureInv, CallInv, TakerMatchesCall, LimitPrice, LeaveLevel, callVars, taker
<1> QED BY <1>4, <1>5, <1>6 DEF StructureInv

-----------------------------------------------------------------------------
(* The end of add_order *)

\* Once the call is over, links may name every order.
LEMMA ReturnFacts ==
  ASSUME StructureInv, Return, pc = "finish", order_id_seq' = order_id_seq
  PROVE  /\ order_id_seq \in Nat /\ LastLinked = order_id_seq - 1 /\ LastLinked' = order_id_seq
         /\ CallInv'
  BY BookAssumption DEF StructureInv, IndexInv, CallInv, LastLinked, Return, NoOrder

\* Typed indexes stay typed when links may name newer orders.
LEMMA LinksMayGrow ==
  ASSUME NEW last \in Int, NEW more \in Int, last <= more
  PROVE  /\ \A ords : OrdersTyped(ords, last) => OrdersTyped(ords, more)
         /\ \A lads : LaddersTyped(lads, last) => LaddersTyped(lads, more)
<1>1. \A ords : OrdersTyped(ords, last) => OrdersTyped(ords, more)
  BY BookAssumption DEF OrdersTyped, Order, OrderIds, NoOrder
<1>2. \A lads : LaddersTyped(lads, last) => LaddersTyped(lads, more)
  BY BookAssumption DEF LaddersTyped, LevelTyped, PriceLevel, OrderIds, NoOrder
<1> QED BY <1>1, <1>2

\* A taker that does not rest leaves the map and gives its slot back.
LEMMA RetireStructure ==
  ASSUME StructureInv, pc = "finish", RetireTaker, Return
  PROVE  StructureInv'
<1>1. order_id_seq' = order_id_seq /\ ladder' = ladder /\ taker \in DOMAIN orders
  BY DEF RetireTaker, StructureInv, CallInv, TakerMatchesCall
<1>2. /\ order_id_seq \in Nat /\ LastLinked = order_id_seq - 1 /\ LastLinked' = order_id_seq
      /\ CallInv'
  BY <1>1, ReturnFacts
<1>3. OrdersTyped(orders, LastLinked) /\ LaddersTyped(ladder, LastLinked)
  BY DEF StructureInv, IndexInv
<1>4. OrdersRemain(orders', orders, taker, LastLinked)
  BY <1>3, OrdersErased DEF RetireTaker
<1>5. PoolTypeOK' /\ PoolPartition'
  BY <1>1, <1>3, <1>4, OrderDropped
     DEF RetireTaker, OrdersRemain, SameButLinks, StructureInv, IndexInv
<1>6. OrdersTyped(orders', LastLinked') /\ LaddersTyped(ladder', LastLinked')
  BY <1>1, <1>2, <1>3, <1>4, LinksMayGrow DEF OrdersRemain
<1>7. IndexInv'
  BY <1>1, <1>4, <1>5, <1>6 DEF StructureInv, IndexInv, OrdersRemain
<1> QED BY <1>2, <1>5, <1>7 DEF StructureInv

\* A taker that rests is linked behind the tail of its level.
LEMMA RestStructure ==
  ASSUME StructureInv, RestTaker
  PROVE  StructureInv'
<1> DEFINE o   == orders[taker]
           lvl == LevelAt(ladder[o.side], o.price)
<1>1. /\ order_id_seq' = order_id_seq /\ pc = "finish" /\ TakerMatchesCall
      /\ taker \in DOMAIN orders /\ taker = order_id_seq /\ call \in Call
      /\ call.type = "LIMIT"
  BY DEF RestTaker, StructureInv, CallInv, TakerMatchesCall, taker
<1>2. /\ order_id_seq \in Nat /\ LastLinked = order_id_seq - 1 /\ LastLinked' = order_id_seq
      /\ order_id_seq \in OrderIds /\ CallInv'
  BY <1>1, ReturnFacts, BookAssumption DEF RestTaker, StructureInv, IndexInv, OrderIds
<1>3. /\ OrdersTyped(orders, LastLinked) /\ LaddersTyped(ladder, LastLinked)
      /\ o \in Order
  BY <1>1 DEF StructureInv, IndexInv, OrdersTyped
<1>4. o.side \in Sides /\ o.price \in Prices
  BY <1>1, <1>3 DEF TakerMatchesCall, LimitPrice, Call, Order
<1>5. LevelTyped(lvl, LastLinked)
  <2>1. LevelTyped(NewLevel, LastLinked)
    BY <1>2 DEF LevelTyped, NewLevel, PriceLevel, NoOrder, OrderIds
  <2>2. CASE o.price \in DOMAIN ladder[o.side]
    BY <1>3, <1>4, <2>2 DEF LevelAt, LaddersTyped
  <2> QED BY <2>1, <2>2 DEF LevelAt
<1>6. LevelTyped(AppendedLevel(lvl, taker, o), LastLinked')
  <2> HIDE DEF lvl, o
  <2>1. /\ lvl.head \in OrderIds \cup {NoOrder} /\ lvl.tail \in OrderIds \cup {NoOrder}
        /\ lvl.head <= LastLinked /\ lvl.total_qty + o.remaining \in Int
        /\ lvl.order_count + 1 \in Nat
    BY <1>3, <1>5 DEF LevelTyped, PriceLevel, Order
  <2> QED BY <1>1, <1>2, <2>1 DEF AppendedLevel, LevelTyped, PriceLevel, OrderIds, NoOrder
<1>7. LaddersTyped(ladder', LastLinked')
  <2>1. LaddersTyped(ladder, LastLinked')
    BY <1>2, <1>3, LinksMayGrow
  <2>2. ladder' = [ladder EXCEPT ![o.side] =
                     [p \in DOMAIN @ \cup {o.price} |->
                        IF p = o.price THEN AppendedLevel(lvl, taker, o) ELSE @[p]]]
    BY DEF RestTaker
  <2> HIDE DEF o, lvl
  <2> QED BY <1>4, <1>6, <2>1, <2>2 DEF LaddersTyped
<1>8. /\ OrdersTyped(orders', LastLinked')
      /\ DOMAIN orders' = DOMAIN orders
      /\ \A i \in DOMAIN orders : orders'[i].slot = orders[i].slot
  <2>1. orders' = [i \in DOMAIN orders |->
                     IF i = taker THEN [o EXCEPT !.prev = lvl.tail, !.next = NoOrder]
                     ELSE IF i = lvl.tail THEN [orders[i] EXCEPT !.next = taker]
                     ELSE orders[i]]
    BY DEF RestTaker
  <2>2. lvl.tail \in OrderIds \cup {NoOrder} /\ lvl.tail <= LastLinked'
    <3> HIDE DEF lvl
    <3> QED BY <1>2, <1>5 DEF LevelTyped, PriceLevel, OrderIds, NoOrder
  <2>3. OrdersTyped(orders, LastLinked')
    BY <1>2, <1>3, LinksMayGrow
  <2>4. taker \in OrderIds \cup {NoOrder} /\ taker <= LastLinked' /\ 0 <= LastLinked'
    BY <1>1, <1>2
  <2> HIDE DEF lvl, o
  <2>5. /\ DOMAIN orders' = DOMAIN orders
        /\ \A i \in DOMAIN orders : orders'[i].slot = orders[i].slot
    BY <2>1 DEF o
  <2>6. ASSUME NEW i \in DOMAIN orders
        PROVE  /\ orders'[i] \in Order
               /\ orders'[i].prev <= LastLinked' /\ orders'[i].next <= LastLinked'
    <3>1. /\ orders[i] \in Order
          /\ orders[i].prev <= LastLinked' /\ orders[i].next <= LastLinked'
      BY <2>3 DEF OrdersTyped
    <3>2. CASE i = taker
      <4>1. orders'[i] = [o EXCEPT !.prev = lvl.tail, !.next = NoOrder]
        BY <2>1, <3>2
      <4> QED BY <1>3, <2>2, <2>4, <4>1 DEF Order, NoOrder
    <3>3. CASE i # taker /\ i = lvl.tail
      <4>1. orders'[i] = [orders[i] EXCEPT !.next = taker]
        BY <2>1, <3>3
      <4> QED BY <2>4, <3>1, <4>1 DEF Order
    <3>4. CASE i # taker /\ i # lvl.tail
      BY <2>1, <3>1, <3>4
    <3> QED BY <3>2, <3>3, <3>4
  <2> QED BY <2>5, <2>6 DEF OrdersTyped
<1>9. PoolTypeOK' /\ PoolPartition'
  <2>1. UNCHANGED poolVars
    BY DEF RestTaker
  <2>2. PoolTypeOK'
    BY <2>1 DEF StructureInv, IndexInv, PoolTypeOK, poolVars
  <2>3. {orders'[i].slot : i \in DOMAIN orders'} = {orders[i].slot : i \in DOMAIN orders}
    BY <1>8
  <2>4. PICK h : h = {orders[i].slot : i \in DOMAIN orders}
    OBVIOUS
  <2>5. PoolSound(h)'
    BY <2>1, <2>4, PoolUnchanged DEF StructureInv, PoolPartition
  <2>6. \A i, j \in DOMAIN orders' : orders'[i].slot = orders'[j].slot => i = j
    BY <1>8 DEF StructureInv, PoolPartition
  <2> QED BY <2>2, <2>3, <2>4, <2>5, <2>6 DEF PoolPartition
<1>10. IndexInv'
  BY <1>1, <1>7, <1>8, <1>9 DEF StructureInv, IndexInv
<1> QED BY <1>2, <1>9, <1>10 DEF StructureInv

-----------------------------------------------------------------------------
(* The theorems *)

\* Every step of the book keeps the invariant.
LEMMA StepStructure ==
  ASSUME StructureInv, Next
  PROVE  StructureInv'
<1>1. CASE CallStart
  BY <1>1, AddStructure, CancelStructure, ModifyStructure, ClearStructure DEF CallStart
<1>2. CASE RejectOrder
  BY <1>2, QuietReturnStructure, BookAssumption
     DEF RejectOrder, bookVars, poolVars, StructureInv, IndexInv
<1>3. CASE KillOrder
  BY <1>3, QuietReturnStructure, BookAssumption
     DEF KillOrder, StructureInv, IndexInv, CallInv
<1>4. CASE AbandonTaker
  BY <1>4, QuietReturnStructure, BookAssumption
     DEF AbandonTaker, bookVars, poolVars, StructureInv, IndexInv
<1>5. CASE RefusePostOnly
  <2>1. CASE IsActive(orders[taker])
    BY <1>5, <2>1, RetireStructure DEF RefusePostOnly
  <2>2. CASE ~IsActive(orders[taker])
    BY <1>5, <2>2, QuietReturnStructure, BookAssumption
       DEF RefusePostOnly, bookVars, poolVars, StructureInv, IndexInv
  <2> QED BY <2>1, <2>2
<1>6. CASE CompleteTaker
  BY <1>6, RetireStructure DEF CompleteTaker
<1> QED
  BY <1>1, <1>2, <1>3, <1>4, <1>5, <1>6, AdmitStructure, SweepStructure, FillStructure,
     LeaveStructure, RestStructure
  DEF Next, CallStep

\* A step that changes nothing keeps the invariant.
LEMMA StructureStutters ==
  ASSUME StructureInv, UNCHANGED vars
  PROVE  StructureInv'
<1> USE DEF vars, bookVars, callVars, poolVars
<1>1. LastLinked' = LastLinked
  BY DEF LastLinked
<1>2. PoolTypeOK'
  BY DEF StructureInv, IndexInv, PoolTypeOK
<1>3. PoolPartition'
  BY DEF StructureInv, PoolPartition, PoolSound, FreeSlots
<1>4. IndexInv'
  BY <1>1, <1>2 DEF StructureInv, IndexInv, OrdersTyped, LaddersTyped
<1>5. CallInv'
  BY <1>1 DEF StructureInv, CallInv, TakerMatchesCall, LimitPrice, taker
<1> QED BY <1>3, <1>4, <1>5 DEF StructureInv

\* The strengthened invariant holds in every reachable state.
THEOREM StructureHolds == Spec => []StructureInv
<1>1. StructureInv /\ UNCHANGED vars => StructureInv'
  BY StructureStutters
<1> QED BY <1>1, InitStructure, StepStructure, PTL DEF Spec

\* The state keeps its types: every id that a level, a link or the cursor
\* holds is an id that was issued, whatever add_order leaves behind.
THEOREM TypeCorrect == Spec => []TypeOK
BY StructureHolds, StructureImpliesType, PTL

\* No path of add_order, cancel_order, modify_order or clear leaks a pool
\* slot or gives one back twice.
THEOREM NoSlotLeaks == Spec => []PoolPartition
<1>1. StructureInv => PoolPartition
  BY DEF StructureInv
<1> QED BY <1>1, StructureHolds, PTL

-----------------------------------------------------------------------------
(* The book never crosses *)

\* A taker is never overfilled, and once its sweep is over either it is filled
\* or the other side holds no level that it reaches.
SweepInv ==
  /\ pc \in {"sweep", "walk", "finish"} => orders[taker].remaining >= 0
  /\ pc = "finish" =>
       \/ orders[taker].remaining = 0
       \/ \A p \in DOMAIN ladder[MakerSide] : ~CanReach(p)

CrossInv == StructureInv /\ NotCrossed /\ SweepInv

PricesShrink == \A side \in Sides : DOMAIN ladder'[side] \subseteq DOMAIN ladder[side]

\* Writing one ladder with fewer prices.
LEMMA LadderShrinks ==
  ASSUME DOMAIN ladder = Sides, NEW side \in Sides, NEW lad,
         DOMAIN lad \subseteq DOMAIN ladder[side],
         ladder' = [ladder EXCEPT ![side] = lad]
  PROVE  PricesShrink
BY DEF PricesShrink

\* Withdrawing an order adds no price.
LEMMA WithdrawShrinks ==
  ASSUME StructureInv, NEW id \in DOMAIN orders, Withdraw(id)
  PROVE  PricesShrink
<1> DEFINE o   == orders[id]
           lad == ladder[o.side]
           lvl == UnlinkedLevel([lad[o.price] EXCEPT !.total_qty = @ - o.remaining], o)
<1>1. DOMAIN ladder = Sides /\ o.side \in Sides
  BY DEF StructureInv, IndexInv, LaddersTyped, OrdersTyped, Order
<1>2. CASE o.price \in DOMAIN lad
  <2>1. ladder' = [ladder EXCEPT ![o.side] = StoreLevel(lad, o.price, lvl)]
    BY <1>2 DEF Withdraw
  <2> HIDE DEF lvl, o
  <2>2. DOMAIN StoreLevel(lad, o.price, lvl) \subseteq DOMAIN lad
    BY <1>2, StoreLevelFacts
  <2> QED BY <1>1, <2>1, <2>2, LadderShrinks
<1>3. CASE o.price \notin DOMAIN lad
  BY <1>3 DEF Withdraw, PricesShrink
<1> QED BY <1>2, <1>3

\* Filling a maker adds no price.
LEMMA FillShrinks ==
  ASSUME StructureInv, FillMaker
  PROVE  PricesShrink
<1> DEFINE maker == orders[cur]
           qty   == Lesser(orders[taker].remaining, maker.remaining)
           lad   == ladder[MakerSide]
           lvl   == [lad[maker.price] EXCEPT !.total_qty = @ - qty]
           new   == UnlinkedLevel(lvl, maker)
<1>1. DOMAIN ladder = Sides /\ MakerSide \in Sides
  BY DEF StructureInv, IndexInv, LaddersTyped, MakerSide, Opposite, Sides
<1>2. CASE maker.price \in DOMAIN lad
  <2>1. ladder' \in {[ladder EXCEPT ![MakerSide] = StoreLevel(lad, maker.price, new)],
                     [ladder EXCEPT ![MakerSide] = [lad EXCEPT ![maker.price] = lvl]]}
    BY <1>2 DEF FillMaker, fill_order
  <2> HIDE DEF lvl, new, maker
  <2>2. DOMAIN StoreLevel(lad, maker.price, new) \subseteq DOMAIN lad
    BY <1>2, StoreLevelFacts
  <2> QED BY <1>1, <2>1, <2>2, LadderShrinks
<1>3. CASE maker.price \notin DOMAIN lad
  BY <1>3 DEF FillMaker, fill_order, PricesShrink
<1> QED BY <1>2, <1>3

\* The clean-up after a walk adds no price.
LEMMA LeaveShrinks ==
  ASSUME StructureInv, LeaveLevel
  PROVE  PricesShrink
<1>1. DOMAIN ladder = Sides /\ MakerSide \in Sides
  BY DEF StructureInv, IndexInv, LaddersTyped, MakerSide, Opposite, Sides
<1>2. PICK p : ladder' = IF p \in DOMAIN ladder[MakerSide]
                         THEN [ladder EXCEPT ![MakerSide] = StoreLevel(@, p, @[p])]
                         ELSE ladder
  BY DEF LeaveLevel
<1>3. CASE p \in DOMAIN ladder[MakerSide]
  <2>1. DOMAIN StoreLevel(ladder[MakerSide], p, ladder[MakerSide][p])
          \subseteq DOMAIN ladder[MakerSide]
    BY <1>3, StoreLevelFacts
  <2>2. ladder' = [ladder EXCEPT ![MakerSide] =
                     StoreLevel(ladder[MakerSide], p, ladder[MakerSide][p])]
    BY <1>2, <1>3
  <2> QED BY <1>1, <2>1, <2>2, LadderShrinks
<1>4. CASE p \notin DOMAIN ladder[MakerSide]
  BY <1>2, <1>4 DEF PricesShrink
<1> QED BY <1>3, <1>4

\* Only an order that comes to rest adds a price.
LEMMA OnlyRestAddsPrices ==
  ASSUME StructureInv, Next, ~RestTaker
  PROVE  PricesShrink
<1>1. ASSUME UNCHANGED ladder PROVE PricesShrink
  BY <1>1 DEF PricesShrink
<1>2. CASE CallStart
  <2>1. ASSUME NEW id \in DOMAIN orders, cancel_order(id) PROVE PricesShrink
    BY <2>1, WithdrawShrinks DEF cancel_order
  <2>2. ASSUME NEW id \in DOMAIN orders, NEW price \in Prices, NEW qty \in Quantities,
               modify_order(id, price, qty)
        PROVE  PricesShrink
    BY <1>1, <2>2, WithdrawShrinks DEF modify_order
  <2>3. ASSUME clear PROVE PricesShrink
    BY <2>3 DEF clear, PricesShrink
  <2> QED BY <1>1, <1>2, <2>1, <2>2, <2>3 DEF CallStart, add_order, bookVars
<1>3. CASE CallStep
  BY <1>1, <1>3, FillShrinks, LeaveShrinks
     DEF CallStep, RejectOrder, KillOrder, AdmitOrder, EnterLevel, EndSweep,
         RefusePostOnly, RetireTaker, CompleteTaker, AbandonTaker, bookVars
<1> QED BY <1>2, <1>3 DEF Next

\* A book whose prices only shrink stays uncrossed.
LEMMA ShrinkingStaysUncrossed ==
  ASSUME NotCrossed, PricesShrink
  PROVE  NotCrossed'
BY DEF NotCrossed, PricesShrink, Sides

\* An order that rests is out of reach of the other side.
LEMMA RestStaysUncrossed ==
  ASSUME CrossInv, RestTaker
  PROVE  NotCrossed'
<1> DEFINE o == orders[taker]
<1>1. /\ o.side \in Sides /\ o.price \in Prices /\ pc = "finish" /\ o.remaining # 0
      /\ DOMAIN ladder = Sides
      /\ \A side \in Sides : DOMAIN ladder[side] \subseteq Prices
  BY DEF RestTaker, CrossInv, StructureInv, CallInv, IndexInv, LaddersTyped,
         TakerMatchesCall, LimitPrice, Call
<1>2. \A p \in DOMAIN ladder[Opposite(o.side)] : ~Reaches(o.side, o.price, p)
  BY <1>1 DEF CrossInv, SweepInv, CanReach, MakerSide
<1>3. /\ DOMAIN ladder'[o.side] = DOMAIN ladder[o.side] \cup {o.price}
      /\ ladder'[Opposite(o.side)] = ladder[Opposite(o.side)]
  <2> DEFINE new == AppendedLevel(LevelAt(ladder[o.side], o.price), taker, o)
  <2>1. ladder' = [ladder EXCEPT ![o.side] =
                     [p \in DOMAIN @ \cup {o.price} |-> IF p = o.price THEN new ELSE @[p]]]
    BY DEF RestTaker
  <2> HIDE DEF new, o
  <2> QED BY <1>1, <2>1 DEF Opposite, Sides
<1>4. CASE o.side = "BUY"
  <2>1. DOMAIN ladder["SELL"] \subseteq Int /\ o.price \in Int
    BY <1>1, BookAssumption DEF Sides
  <2>2. \A p \in DOMAIN ladder["SELL"] : o.price < p
    BY <1>2, <1>4, <2>1 DEF Reaches, Opposite
  <2>3. /\ DOMAIN ladder'["BUY"] = DOMAIN ladder["BUY"] \cup {o.price}
        /\ ladder'["SELL"] = ladder["SELL"]
    BY <1>3, <1>4 DEF Opposite
  <2> HIDE DEF o
  <2> QED BY <2>2, <2>3 DEF CrossInv, NotCrossed
<1>5. CASE o.side = "SELL"
  <2>1. DOMAIN ladder["BUY"] \subseteq Int /\ o.price \in Int
    BY <1>1, BookAssumption DEF Sides
  <2>2. \A p \in DOMAIN ladder["BUY"] : p < o.price
    BY <1>2, <1>5, <2>1 DEF Reaches, Opposite
  <2>3. /\ DOMAIN ladder'["SELL"] = DOMAIN ladder["SELL"] \cup {o.price}
        /\ ladder'["BUY"] = ladder["BUY"]
    BY <1>3, <1>5 DEF Opposite
  <2> HIDE DEF o
  <2> QED BY <2>2, <2>3 DEF CrossInv, NotCrossed
<1> QED BY <1>1, <1>4, <1>5 DEF Sides

\* Each step of a call keeps what is known of its sweep.
LEMMA StepSweep ==
  ASSUME CrossInv, Next
  PROVE  SweepInv'
<1>1. CASE pc' \in {"idle", "add"}
  BY <1>1 DEF SweepInv
<1>2. CASE AdmitOrder
  <2>1. pc' = "sweep" /\ taker' = order_id_seq + 1 /\ orders'[order_id_seq + 1] = TakerOrder
    BY <1>2 DEF AdmitOrder, taker
  <2>2. call \in Call
    BY <1>2 DEF AdmitOrder, CrossInv, StructureInv, CallInv
  <2>3. call.qty \in Int /\ TakerOrder.remaining = call.qty
    BY <2>2, BookAssumption DEF Call, TakerOrder
  <2>4. TakerOrder.remaining >= 0
    BY <1>2, <2>3 DEF AdmitOrder, Invalid
  <2>5. orders'[taker'].remaining >= 0
    BY <2>1, <2>4
  <2> QED BY <2>1, <2>5 DEF SweepInv
<1>3. CASE EnterLevel
  BY <1>3 DEF EnterLevel, bookVars, SweepInv, CrossInv, taker
<1>4. CASE EndSweep
  <2>1. orders[taker].remaining \in Int
    BY <1>4 DEF CrossInv, StructureInv, CallInv, TakerMatchesCall, IndexInv, OrdersTyped,
                Order, EndSweep
  <2>2. UNCHANGED <<orders, ladder, order_id_seq>> /\ pc = "sweep" /\ pc' = "finish"
    BY <1>4 DEF EndSweep, bookVars
  <2>3. CASE orders[taker].remaining <= 0
    BY <2>1, <2>2, <2>3 DEF SweepInv, CrossInv, taker
  <2>4. CASE \A p \in DOMAIN ladder[MakerSide] : ~CanReach(p)
    BY <2>2, <2>4 DEF SweepInv, CrossInv, taker, MakerSide, CanReach
  <2> QED BY <1>4, <2>3, <2>4 DEF EndSweep
<1>5. CASE FillMaker
  <2> DEFINE qty == Lesser(orders[taker].remaining, orders[cur].remaining)
  <2>1. pc = "walk" /\ pc' = "walk" /\ taker' = taker
    BY <1>5 DEF FillMaker, taker
  <2>2. orders[taker] \in Order /\ orders[cur] \in Order /\ taker \in DOMAIN orders
        /\ cur \in DOMAIN orders /\ cur # taker
    BY <1>5, <2>1, BookAssumption
       DEF CrossInv, StructureInv, CallInv, TakerMatchesCall, IndexInv, OrdersTyped, FillMaker,
           LastLinked, taker, OrderIds, NoOrder
  <2>3. qty <= orders[taker].remaining /\ qty \in Int /\ orders[taker].remaining \in Int
    BY <2>2 DEF Lesser, Order
  <2>4. orders'[taker].remaining = orders[taker].remaining - qty
    <3> DEFINE traded == [orders EXCEPT ![taker] = Filled(@, qty), ![cur] = Filled(@, qty)]
    <3>1. orders' \in {traded, Erased(UnlinkedOrders(traded, orders[cur]), cur),
                       Erased(traded, cur)}
      BY <1>5 DEF FillMaker, fill_order
    <3>2. DOMAIN traded = DOMAIN orders /\ traded[taker] = Filled(orders[taker], qty)
      BY <2>2
    <3> HIDE DEF traded, qty
    <3>3. taker \in DOMAIN traded \ {cur}
      BY <2>2, <3>2
    <3>7. taker \in DOMAIN UnlinkedOrders(traded, orders[cur]) \ {cur}
      BY <3>3 DEF UnlinkedOrders
    <3>4. /\ Erased(traded, cur)[taker] = traded[taker]
          /\ Erased(UnlinkedOrders(traded, orders[cur]), cur)[taker]
               = UnlinkedOrders(traded, orders[cur])[taker]
      BY <3>3, <3>7, ErasedFacts
    <3>5. traded[taker].remaining = orders[taker].remaining - qty
      BY <2>2, <3>2 DEF Filled, Order
    <3>6. UnlinkedOrders(traded, orders[cur])[taker].remaining = traded[taker].remaining
      BY <2>2, <3>2, <3>3 DEF UnlinkedOrders, Filled, Order
    <3> QED BY <3>1, <3>4, <3>5, <3>6
  <2>5. orders'[taker].remaining >= 0
    BY <2>3, <2>4
  <2> QED BY <2>1, <2>5 DEF SweepInv
<1>6. CASE LeaveLevel
  BY <1>6 DEF LeaveLevel, SweepInv, CrossInv, taker
<1> QED
  BY <1>1, <1>2, <1>3, <1>4, <1>5, <1>6
  DEF Next, CallStart, CallStep, add_order, cancel_order, modify_order, clear, callVars,
      RejectOrder, KillOrder, RefusePostOnly, CompleteTaker, RestTaker, AbandonTaker, Return

\* The best bid stays below the best ask, between calls and within them.
THEOREM NeverCrossed == Spec => []NotCrossed
<1>1. Init => CrossInv
  BY InitStructure DEF Init, CrossInv, NotCrossed, SweepInv, Sides
<1>2. ASSUME CrossInv, Next PROVE CrossInv'
  BY <1>2, StepStructure, StepSweep, RestStaysUncrossed, OnlyRestAddsPrices,
     ShrinkingStaysUncrossed DEF CrossInv
<1>3. StructureInv' /\ CrossInv /\ UNCHANGED vars => CrossInv'
  BY DEF CrossInv, NotCrossed, SweepInv, vars, bookVars, taker, MakerSide, CanReach
<1>4. CrossInv => NotCrossed
  BY DEF CrossInv
<1> QED BY <1>1, <1>2, <1>3, <1>4, StructureHolds, PTL DEF Spec

-----------------------------------------------------------------------------
(* The reported BBO *)

BboInv == pc \in {"idle", "add"} => bbo = BestBBO(ladder)

\* A call that ends or does not touch the book leaves the reported BBO right.
LEMMA StepBbo ==
  ASSUME OrderTypes \cap {"MARKET", "POST_ONLY"} = {}, StructureInv, BboInv, Next
  PROVE  BboInv'
<1>1. CASE pc' \notin {"idle", "add"}
  BY <1>1 DEF BboInv
<1>2. CASE CallStart
  BY <1>2 DEF CallStart, add_order, cancel_order, modify_order, clear, Withdraw, notify_bbo,
              BboInv, bookVars
<1>3. CASE RejectOrder \/ KillOrder
  BY <1>3 DEF RejectOrder, KillOrder, BboInv, bookVars
<1>4. CASE CompleteTaker \/ RestTaker
  BY <1>4 DEF CompleteTaker, RestTaker, notify_bbo, BboInv
<1>5. CASE RefusePostOnly \/ AbandonTaker
  <2>1. call.type \in OrderTypes
    BY <1>5 DEF RefusePostOnly, AbandonTaker, StructureInv, CallInv, Call
  <2>2. call.type \in {"MARKET", "POST_ONLY"}
    BY <1>5 DEF RefusePostOnly, AbandonTaker
  <2> QED BY <2>1, <2>2
<1> QED
  BY <1>1, <1>2, <1>3, <1>4, <1>5
  DEF Next, CallStep, AdmitOrder, EnterLevel, EndSweep, FillMaker, LeaveLevel

\* Where no MARKET or POST_ONLY order is submitted, the callbacks know the BBO
\* of the book whenever no call is in progress.
THEOREM BboReported ==
  ASSUME OrderTypes \cap {"MARKET", "POST_ONLY"} = {}
  PROVE  Spec => []BboCurrent
<1>1. Init => BboInv
  BY DEF Init, BboInv
<1>2. StructureInv /\ BboInv /\ Next => BboInv'
  BY StepBbo
<1>3. BboInv /\ UNCHANGED vars => BboInv'
  BY DEF BboInv, vars, bookVars
<1>4. BboInv => BboCurrent
  BY DEF BboInv, BboCurrent
<1> QED BY <1>1, <1>2, <1>3, <1>4, StructureHolds, PTL DEF Spec

-----------------------------------------------------------------------------
(* Finite sums.  SumFunctionOnSet folds over a set in an order that CHOOSE   *)
(* decides; these lemmas say that the order does not matter.  They are by    *)
(* induction over the subsets of a finite set, in the form of a smallest     *)
(* counterexample.                                                           *)

\* A nonempty family of subsets of a finite set has a member that contains no other.
LEMMA SmallestMember ==
  ASSUME NEW S, IsFiniteSet(S), NEW F, F \subseteq SUBSET S, F # {}
  PROVE  \E T \in F : \A U \in F : U \subseteq T => U = T
<1>1. IsWellFoundedOn(StrictSubsetOrdering(S), FiniteSubsetsOf(S))
  BY FS_StrictSubsetOrderingWellFounded
<1>2. F \subseteq FiniteSubsetsOf(S)
  <2>1. \A T \in F : T \in SUBSET S /\ IsFiniteSet(T)
    BY FS_Subset
  <2> QED BY <2>1 DEF FiniteSubsetsOf
<1>3. PICK T \in F : \A U \in F : ~(<<U, T>> \in StrictSubsetOrdering(S))
  BY <1>1, <1>2, WFMin
<1>4. \A U \in F : U \subseteq T => U = T
  BY <1>3 DEF StrictSubsetOrdering
<1> QED BY <1>4

First(S) == CHOOSE x \in S : TRUE

\* g adds up f over every subset of S.
AddsUp(g, f, S) ==
  g = [T \in SUBSET S |-> IF T = {} THEN 0 ELSE f[First(T)] + g[T \ {First(T)}]]

\* A sum is the value of the function that the fold defines by recursion.
LEMMA SumUnfolds ==
  ASSUME NEW f, NEW S
  PROVE  SumFunctionOnSet(f, S) = (CHOOSE g : AddsUp(g, f, S))[S]
BY DEF SumFunctionOnSet, FoldFunctionOnSet, MapThenFoldSet, AddsUp, First

\* The recursion leaves no choice, for whatever set it is written.
LEMMA AddsUpUnique ==
  ASSUME NEW f, NEW S, IsFiniteSet(S), NEW T \in SUBSET S, NEW g, NEW h,
         AddsUp(g, f, S), AddsUp(h, f, T)
  PROVE  g[T] = h[T]
<1> DEFINE Bad == {U \in SUBSET T : g[U] # h[U]}
<1> SUFFICES ASSUME Bad # {} PROVE FALSE
  OBVIOUS
<1>1. IsFiniteSet(T)
  BY FS_Subset
<1>2. PICK U \in Bad : \A W \in Bad : W \subseteq U => W = U
  <2>1. Bad \subseteq SUBSET T
    OBVIOUS
  <2> HIDE DEF Bad
  <2> QED BY <1>1, <2>1, SmallestMember
<1>3. U # {}
  BY <1>2 DEF AddsUp
<1>4. First(U) \in U
  BY <1>3 DEF First
<1>5. U \ {First(U)} \notin Bad
  BY <1>2, <1>4
<1>6. g[U \ {First(U)}] = h[U \ {First(U)}]
  BY <1>2, <1>5
<1>7. /\ g[U] = f[First(U)] + g[U \ {First(U)}]
      /\ h[U] = f[First(U)] + h[U \ {First(U)}]
  BY <1>2, <1>3 DEF AddsUp
<1> QED BY <1>2, <1>6, <1>7

\* The recursion has a solution, so a sum is a summand and the sum of the rest.
LEMMA SumStep ==
  ASSUME NEW f, NEW S, IsFiniteSet(S)
  PROVE  SumFunctionOnSet(f, S)
           = IF S = {} THEN 0 ELSE f[First(S)] + SumFunctionOnSet(f, S \ {First(S)})
<1> DEFINE Sum(T) == SumFunctionOnSet(f, T)
           Right(T) == Sum(T) = IF T = {} THEN 0 ELSE f[First(T)] + Sum(T \ {First(T)})
           Bad == {T \in SUBSET S : ~Right(T)}
<1> HIDE DEF Sum
<1> SUFFICES ASSUME Bad # {} PROVE FALSE
  BY DEF Sum
<1>1. PICK T \in Bad : \A U \in Bad : U \subseteq T => U = T
  <2>1. Bad \subseteq SUBSET S
    OBVIOUS
  <2> HIDE DEF Bad
  <2> QED BY <2>1, SmallestMember
<1>2. IsFiniteSet(T)
  BY FS_Subset
<1> DEFINE all == IF T = {} THEN 0 ELSE f[First(T)] + Sum(T \ {First(T)})
           g == [U \in SUBSET T |-> IF U = T THEN all ELSE Sum(U)]
<1>3. AddsUp(g, f, T)
  <2>1. ASSUME NEW U \in SUBSET T, U # {}
        PROVE  First(U) \in U
    BY <2>1 DEF First
  <2>2. \A U \in SUBSET T : U # T => Right(U)
    BY <1>1
  <2>3. ASSUME NEW U \in SUBSET T
        PROVE  g[U] = IF U = {} THEN 0 ELSE f[First(U)] + g[U \ {First(U)}]
    <3>1. CASE U = T
      BY <2>1, <3>1
    <3>2. CASE U # T
      BY <2>1, <2>2, <3>2
    <3> QED BY <3>1, <3>2
  <2> HIDE DEF Right, Bad, all
  <2> QED BY <2>3 DEF AddsUp
<1>4. ASSUME NEW U \in SUBSET T, NEW h, AddsUp(h, f, U)
      PROVE  Sum(U) = h[U]
  <2>1. AddsUp(CHOOSE k : AddsUp(k, f, U), f, U)
    BY <1>4
  <2>2. IsFiniteSet(U)
    BY <1>2, FS_Subset
  <2>3. (CHOOSE k : AddsUp(k, f, U))[U] = h[U]
    BY <1>4, <2>1, <2>2, AddsUpUnique
  <2> QED BY <2>3, SumUnfolds DEF Sum
<1>5. Sum(T) = g[T]
  BY <1>3, <1>4
<1>6. Right(T)
  BY <1>5
<1> QED BY <1>1, <1>6

\* A sum of integers is an integer.
LEMMA SumType ==
  ASSUME NEW f, NEW S, IsFiniteSet(S), \A x \in S : f[x] \in Int
  PROVE  SumFunctionOnSet(f, S) \in Int
<1> DEFINE Bad == {T \in SUBSET S : SumFunctionOnSet(f, T) \notin Int}
<1> SUFFICES ASSUME Bad # {} PROVE FALSE
  OBVIOUS
<1>1. PICK T \in Bad : \A U \in Bad : U \subseteq T => U = T
  <2>1. Bad \subseteq SUBSET S
    OBVIOUS
  <2> HIDE DEF Bad
  <2> QED BY <2>1, SmallestMember
<1>2. IsFiniteSet(T)
  BY FS_Subset
<1>3. SumFunctionOnSet(f, T)
        = IF T = {} THEN 0 ELSE f[First(T)] + SumFunctionOnSet(f, T \ {First(T)})
  BY <1>2, SumStep
<1>4. T # {} => First(T) \in T
  BY DEF First
<1>5. T # {} => SumFunctionOnSet(f, T \ {First(T)}) \in Int
  BY <1>1, <1>4
<1> QED BY <1>1, <1>3, <1>4, <1>5

\* A level without orders has nothing to offer.
LEMMA SumEmpty ==
  ASSUME NEW f
  PROVE  SumFunctionOnSet(f, {}) = 0
BY SumStep, FS_EmptySet

\* Any summand can be taken out.
LEMMA SumRemove ==
  ASSUME NEW f, NEW S, IsFiniteSet(S), \A x \in S : f[x] \in Int, NEW x \in S
  PROVE  SumFunctionOnSet(f, S) = f[x] + SumFunctionOnSet(f, S \ {x})
<1> DEFINE Sum(T) == SumFunctionOnSet(f, T)
           Bad == {T \in SUBSET S : \E y \in T : Sum(T) # f[y] + Sum(T \ {y})}
<1> HIDE DEF Sum
<1> SUFFICES ASSUME Bad # {} PROVE FALSE
  BY DEF Sum
<1>1. PICK T \in Bad : \A U \in Bad : U \subseteq T => U = T
  <2>1. Bad \subseteq SUBSET S
    OBVIOUS
  <2> HIDE DEF Bad
  <2> QED BY <2>1, SmallestMember
<1>2. PICK y \in T : Sum(T) # f[y] + Sum(T \ {y})
  BY <1>1
<1> DEFINE c == First(T)
<1>3. c \in T
  BY <1>2 DEF First
<1> HIDE DEF c
<1>4. \A U \in SUBSET T : IsFiniteSet(U)
  BY FS_Subset
<1>5. \A U \in SUBSET T : Sum(U) \in Int
  BY <1>4, SumType DEF Sum
<1>6. Sum(T) = f[c] + Sum(T \ {c})
  BY <1>3, <1>4, SumStep DEF Sum, c
<1>7. y # c
  BY <1>2, <1>6
<1>8. ASSUME NEW a \in T, NEW b \in T, a # b
      PROVE  Sum(T \ {a}) = f[b] + Sum((T \ {a}) \ {b})
  <2>1. T \ {a} \notin Bad
    BY <1>1
  <2>2. b \in T \ {a} /\ T \ {a} \in SUBSET S
    BY <1>1, <1>8
  <2> QED BY <2>1, <2>2
<1>9. (T \ {c}) \ {y} = (T \ {y}) \ {c}
  OBVIOUS
<1>10. f[c] \in Int /\ f[y] \in Int /\ Sum((T \ {y}) \ {c}) \in Int
  BY <1>3, <1>5
<1>11. /\ Sum(T \ {c}) = f[y] + Sum((T \ {y}) \ {c})
       /\ Sum(T \ {y}) = f[c] + Sum((T \ {y}) \ {c})
  BY <1>3, <1>7, <1>8, <1>9
<1>12. Sum(T) = f[y] + Sum(T \ {y})
  BY <1>6, <1>10, <1>11
<1> QED BY <1>2, <1>12

\* A summand more, as when an order comes to rest.
LEMMA SumAdd ==
  ASSUME NEW f, NEW S, IsFiniteSet(S), NEW x, x \notin S,
         \A y \in S \cup {x} : f[y] \in Int
  PROVE  SumFunctionOnSet(f, S \cup {x}) = f[x] + SumFunctionOnSet(f, S)
<1>1. IsFiniteSet(S \cup {x})
  BY FS_AddElement
<1>2. (S \cup {x}) \ {x} = S
  OBVIOUS
<1> QED BY <1>1, <1>2, SumRemove

\* Functions that agree on a set have the same sum over it.
LEMMA SumSame ==
  ASSUME NEW f, NEW g, NEW S, IsFiniteSet(S), \A x \in S : f[x] = g[x]
  PROVE  SumFunctionOnSet(f, S) = SumFunctionOnSet(g, S)
<1> DEFINE Bad == {T \in SUBSET S : SumFunctionOnSet(f, T) # SumFunctionOnSet(g, T)}
<1> SUFFICES ASSUME Bad # {} PROVE FALSE
  OBVIOUS
<1>1. PICK T \in Bad : \A U \in Bad : U \subseteq T => U = T
  <2>1. Bad \subseteq SUBSET S
    OBVIOUS
  <2> HIDE DEF Bad
  <2> QED BY <2>1, SmallestMember
<1>2. IsFiniteSet(T)
  BY FS_Subset
<1>3. T # {} => First(T) \in T
  BY DEF First
<1>4. T # {} => SumFunctionOnSet(f, T \ {First(T)}) = SumFunctionOnSet(g, T \ {First(T)})
  BY <1>1, <1>3
<1> QED BY <1>1, <1>2, <1>3, <1>4, SumStep

\* A sum of numbers that are not negative grows with the set.
LEMMA SumGrows ==
  ASSUME NEW f, NEW T, IsFiniteSet(T), \A x \in T : f[x] \in Nat, NEW S \in SUBSET T
  PROVE  SumFunctionOnSet(f, S) <= SumFunctionOnSet(f, T)
<1> DEFINE Sum(U) == SumFunctionOnSet(f, U)
           Bad == {U \in SUBSET T : S \subseteq U /\ ~(Sum(S) <= Sum(U))}
<1> HIDE DEF Sum
<1> SUFFICES ASSUME Bad # {} PROVE FALSE
  BY DEF Sum
<1>1. PICK U \in Bad : \A V \in Bad : V \subseteq U => V = U
  <2>1. Bad \subseteq SUBSET T
    OBVIOUS
  <2> HIDE DEF Bad
  <2> QED BY <2>1, SmallestMember
<1>2. \A V \in SUBSET T : IsFiniteSet(V) /\ Sum(V) \in Int
  BY FS_Subset, SumType DEF Sum
<1>3. U # S
  BY <1>1, <1>2
<1>4. PICK x \in U : x \notin S
  BY <1>1, <1>3
<1>5. Sum(U) = f[x] + Sum(U \ {x})
  BY <1>1, <1>2, SumRemove DEF Sum
<1>6. U \ {x} \notin Bad /\ U \ {x} \in SUBSET T /\ S \subseteq U \ {x}
  BY <1>1, <1>4
<1>7. Sum(S) <= Sum(U \ {x})
  BY <1>6
<1>8. Sum(S) \in Int /\ Sum(U \ {x}) \in Int /\ f[x] \in Nat
  BY <1>1, <1>2, <1>4, <1>6
<1> QED BY <1>1, <1>5, <1>7, <1>8

\* Renaming the elements does not change a sum.
LEMMA SumRenamed ==
  ASSUME NEW f, NEW g, NEW h, NEW S, IsFiniteSet(S),
         \A x, y \in S : h[x] = h[y] => x = y,
         \A x \in S : f[h[x]] \in Int /\ g[x] = f[h[x]]
  PROVE  SumFunctionOnSet(f, {h[x] : x \in S}) = SumFunctionOnSet(g, S)
<1> DEFINE Image(T) == {h[x] : x \in T}
           Bad == {T \in SUBSET S : SumFunctionOnSet(f, Image(T)) # SumFunctionOnSet(g, T)}
<1> SUFFICES ASSUME Bad # {} PROVE FALSE
  OBVIOUS
<1>1. PICK T \in Bad : \A U \in Bad : U \subseteq T => U = T
  <2>1. Bad \subseteq SUBSET S
    OBVIOUS
  <2> HIDE DEF Bad
  <2> QED BY <2>1, SmallestMember
<1>2. T # {}
  BY <1>1, SumEmpty
<1>3. PICK x \in T : TRUE
  BY <1>2
<1> DEFINE R == T \ {x}
<1>4. SumFunctionOnSet(f, Image(R)) = SumFunctionOnSet(g, R)
  BY <1>1, <1>3
<1>5. IsFiniteSet(T) /\ IsFiniteSet(R) /\ R \subseteq S /\ x \in S
  BY <1>1, <1>3, FS_Subset
<1>6. IsFiniteSet(Image(R))
  <2>1. [y \in R |-> h[y]] \in Surjection(R, Image(R))
    BY DEF Surjection
  <2> HIDE DEF R, Image
  <2> QED BY <1>5, <2>1, FS_Surjection
<1>7. Image(T) = Image(R) \cup {h[x]} /\ h[x] \notin Image(R)
  BY <1>1, <1>3, <1>5
<1>8. SumFunctionOnSet(g, T) = g[x] + SumFunctionOnSet(g, R)
  BY <1>1, <1>3, <1>5, SumRemove
<1>9. \A z \in Image(R) \cup {h[x]} : f[z] \in Int
  BY <1>5
<1>10. SumFunctionOnSet(f, Image(R) \cup {h[x]}) = f[h[x]] + SumFunctionOnSet(f, Image(R))
  <2> HIDE DEF Image, R
  <2> QED BY <1>6, <1>7, <1>9, SumAdd
<1>11. SumFunctionOnSet(f, Image(T)) = SumFunctionOnSet(g, T)
  BY <1>4, <1>5, <1>7, <1>8, <1>10
<1> QED BY <1>1, <1>11

\* The sum over two sets without a common element.
LEMMA SumUnion ==
  ASSUME NEW f, NEW S, NEW T, IsFiniteSet(S), IsFiniteSet(T), S \cap T = {},
         \A x \in S \cup T : f[x] \in Int
  PROVE  SumFunctionOnSet(f, S \cup T) = SumFunctionOnSet(f, S) + SumFunctionOnSet(f, T)
<1> DEFINE Sum(U) == SumFunctionOnSet(f, U)
           Bad == {U \in SUBSET S : Sum(U \cup T) # Sum(U) + Sum(T)}
<1> HIDE DEF Sum
<1> SUFFICES ASSUME Bad # {} PROVE FALSE
  BY DEF Sum
<1>1. PICK U \in Bad : \A V \in Bad : V \subseteq U => V = U
  <2>1. Bad \subseteq SUBSET S
    OBVIOUS
  <2> HIDE DEF Bad
  <2> QED BY <2>1, SmallestMember
<1>2. Sum({}) = 0 /\ Sum(T) \in Int /\ {} \cup T = T
  BY SumEmpty, SumType DEF Sum
<1>3. U # {}
  <2>1. Sum({} \cup T) = Sum({}) + Sum(T)
    BY <1>2
  <2> QED BY <1>1, <2>1
<1>4. PICK x \in U : TRUE
  BY <1>3
<1> DEFINE R == U \ {x}
<1>5. Sum(R \cup T) = Sum(R) + Sum(T)
  BY <1>1, <1>4
<1>6. IsFiniteSet(U) /\ IsFiniteSet(R) /\ IsFiniteSet(R \cup T)
  BY <1>1, FS_Subset, FS_Union
<1>7. Sum(U) = f[x] + Sum(R)
  BY <1>1, <1>4, <1>6, SumRemove DEF Sum
<1>8. U \cup T = (R \cup T) \cup {x} /\ x \notin R \cup T
  BY <1>1, <1>4
<1>9. \A y \in (R \cup T) \cup {x} : f[y] \in Int
  BY <1>1, <1>4
<1>10. Sum((R \cup T) \cup {x}) = f[x] + Sum(R \cup T)
  <2> HIDE DEF R
  <2> QED BY <1>6, <1>8, <1>9, SumAdd DEF Sum
<1>11. Sum(R) \in Int /\ f[x] \in Int
  BY <1>6, <1>9, SumType DEF Sum
<1>12. Sum(U \cup T) = Sum(U) + Sum(T)
  <2>1. Sum(U \cup T) = f[x] + Sum(R \cup T)
    BY <1>8, <1>10
  <2> HIDE DEF R
  <2> QED BY <1>2, <1>5, <1>7, <1>11, <2>1
<1> QED BY <1>1, <1>12

\* The sum of the totals of groups is the sum over all groups together.
LEMMA SumGrouped ==
  ASSUME NEW f, NEW t, NEW group, NEW W, IsFiniteSet(W),
         \A p \in W : /\ IsFiniteSet(group[p])
                      /\ t[p] = SumFunctionOnSet(f, group[p])
                      /\ \A x \in group[p] : f[x] \in Int
                      /\ \A q \in W : q # p => group[p] \cap group[q] = {}
  PROVE  SumFunctionOnSet(t, W) = SumFunctionOnSet(f, UNION {group[p] : p \in W})
<1> DEFINE All(V) == UNION {group[p] : p \in V}
           Bad == {V \in SUBSET W : SumFunctionOnSet(t, V) # SumFunctionOnSet(f, All(V))}
<1> SUFFICES ASSUME Bad # {} PROVE FALSE
  OBVIOUS
<1>1. PICK V \in Bad : \A U \in Bad : U \subseteq V => U = V
  <2>1. Bad \subseteq SUBSET W
    OBVIOUS
  <2> HIDE DEF Bad
  <2> QED BY <2>1, SmallestMember
<1>2. V # {}
  <2>1. All({}) = {}
    OBVIOUS
  <2> QED BY <1>1, <2>1, SumEmpty
<1>3. PICK p \in V : TRUE
  BY <1>2
<1> DEFINE R == V \ {p}
<1>4. SumFunctionOnSet(t, R) = SumFunctionOnSet(f, All(R))
  BY <1>1, <1>3
<1>5. IsFiniteSet(V) /\ IsFiniteSet(R) /\ R \subseteq W /\ p \in W
  BY <1>1, <1>3, FS_Subset
<1>6. IsFiniteSet(All(R))
  <2>1. IsFiniteSet({group[q] : q \in R})
    <3>1. [q \in R |-> group[q]] \in Surjection(R, {group[q] : q \in R})
      BY DEF Surjection
    <3> HIDE DEF R
    <3> QED BY <1>5, <3>1, FS_Surjection
  <2>2. \A G \in {group[q] : q \in R} : IsFiniteSet(G)
    BY <1>5
  <2>3. IsFiniteSet(UNION {group[q] : q \in R})
    <3> DEFINE F == {group[q] : q \in R}
    <3> HIDE DEF F, R
    <3> QED BY <2>1, <2>2, FS_UNION DEF F
  <2> QED BY <2>3
<1>7. All(V) = group[p] \cup All(R) /\ group[p] \cap All(R) = {}
  BY <1>1, <1>3
<1>8. \A x \in group[p] \cup All(R) : f[x] \in Int
  BY <1>5
<1>9. SumFunctionOnSet(f, group[p] \cup All(R))
        = SumFunctionOnSet(f, group[p]) + SumFunctionOnSet(f, All(R))
  <2> HIDE DEF All, R
  <2> QED BY <1>5, <1>6, <1>7, <1>8, SumUnion
<1>10. \A q \in V : t[q] \in Int
  BY <1>1, SumType
<1>11. SumFunctionOnSet(t, V) = t[p] + SumFunctionOnSet(t, R)
  BY <1>3, <1>5, <1>10, SumRemove
<1>12. SumFunctionOnSet(t, V) = SumFunctionOnSet(f, All(V))
  BY <1>4, <1>5, <1>7, <1>9, <1>11
<1> QED BY <1>1, <1>12

-----------------------------------------------------------------------------
(* A level: its list by the order of ids, its total and its count *)

\* m is the greatest member of S, NoOrder if there is none; and the least.
IsLast(m, S) == IF m = NoOrder THEN S = {} ELSE m \in S /\ \A j \in S : j <= m
IsFirst(m, S) == IF m = NoOrder THEN S = {} ELSE m \in S /\ \A j \in S : m <= j

\* The list from lvl.head to lvl.tail is R in increasing order of ids.
Chained(lvl, ords, R) ==
  /\ IsFirst(lvl.head, R) /\ IsLast(lvl.tail, R)
  /\ \A i \in R : /\ IsLast(ords[i].prev, {j \in R : j < i})
                  /\ IsFirst(ords[i].next, {j \in R : j > i})

Remaining(ords) == [i \in DOMAIN ords |-> ords[i].remaining]

Counted(lvl, ords, R) ==
  /\ lvl.total_qty = SumFunctionOnSet(Remaining(ords), R)
  /\ lvl.order_count = Cardinality(R)

\* Every id that an order map can have.
Ids(S) == S \subseteq Nat \ {NoOrder} /\ IsFiniteSet(S)

SameLinks(a, b) == a.prev = b.prev /\ a.next = b.next

\* A list depends on the links of its own orders only.
LEMMA ChainSame ==
  ASSUME NEW lvl, NEW a, NEW b, NEW R, Chained(lvl, a, R),
         \A i \in R : SameLinks(a[i], b[i]),
         NEW lvl2, lvl2.head = lvl.head, lvl2.tail = lvl.tail
  PROVE  Chained(lvl2, b, R)
BY DEF Chained, SameLinks

\* What unlinking does to the links.
LEMMA UnlinkedLinks ==
  ASSUME NEW ords, NEW o, NEW i \in DOMAIN ords, ords[i] \in Order
  PROVE  /\ UnlinkedOrders(ords, o)[i].next = IF i = o.prev THEN o.next ELSE ords[i].next
         /\ UnlinkedOrders(ords, o)[i].prev = IF i = o.next THEN o.prev ELSE ords[i].prev
BY DEF UnlinkedOrders, Order

\* Unlinking an order leaves the list of the others.
LEMMA ChainUnlinked ==
  ASSUME NEW ords, NEW R, Ids(R), R \subseteq DOMAIN ords, \A i \in R : ords[i] \in Order,
         NEW lvl, Chained(lvl, ords, R), NEW id \in R, R # {id},
         NEW lvl2, lvl2.head = lvl.head, lvl2.tail = lvl.tail
  PROVE  Chained(UnlinkedLevel(lvl2, ords[id]), UnlinkedOrders(ords, ords[id]), R \ {id})
<1> DEFINE o == ords[id]
           u == UnlinkedOrders(ords, o)
           T == R \ {id}
<1>1. /\ o.prev = NoOrder \/ o.prev \in T
      /\ o.next = NoOrder \/ o.next \in T
      /\ \A j \in T : j < id => o.prev # NoOrder /\ j <= o.prev
      /\ \A j \in T : j > id => o.next # NoOrder /\ o.next <= j
      /\ o.prev # NoOrder => o.prev < id
      /\ o.next # NoOrder => id < o.next
  BY DEF Chained, IsLast, IsFirst, Ids
<1>2. R \subseteq Nat /\ 0 \notin R /\ NoOrder = 0
  BY DEF Ids, NoOrder
<1>3. \A i \in T : /\ u[i].next = IF i = o.prev THEN o.next ELSE ords[i].next
                   /\ u[i].prev = IF i = o.next THEN o.prev ELSE ords[i].prev
  BY UnlinkedLinks
<1>4. \A i \in R : /\ IsLast(ords[i].prev, {j \in R : j < i})
                   /\ IsFirst(ords[i].next, {j \in R : j > i})
  BY DEF Chained
<1> HIDE DEF o, u
<1>5. ASSUME NEW i \in T PROVE IsLast(u[i].prev, {j \in T : j < i})
  <2>1. IsLast(ords[i].prev, {j \in R : j < i})
    BY <1>4
  <2>2. CASE i = o.next
    BY <1>1, <1>2, <1>3, <2>1, <2>2 DEF IsLast
  <2>3. CASE i # o.next
    <3>1. ords[i].prev # id
      BY <1>1, <1>2, <2>1, <2>3 DEF IsLast
    <3> QED BY <1>2, <1>3, <2>1, <2>3, <3>1 DEF IsLast
  <2> QED BY <2>2, <2>3
<1>6. ASSUME NEW i \in T PROVE IsFirst(u[i].next, {j \in T : j > i})
  <2>1. IsFirst(ords[i].next, {j \in R : j > i})
    BY <1>4
  <2>2. CASE i = o.prev
    BY <1>1, <1>2, <1>3, <2>1, <2>2 DEF IsFirst
  <2>3. CASE i # o.prev
    <3>1. ords[i].next # id
      BY <1>1, <1>2, <2>1, <2>3 DEF IsFirst
    <3> QED BY <1>2, <1>3, <2>1, <2>3, <3>1 DEF IsFirst
  <2> QED BY <2>2, <2>3
<1>7. IsFirst(UnlinkedLevel(lvl2, o).head, T) /\ IsLast(UnlinkedLevel(lvl2, o).tail, T)
  <2>1. IsFirst(lvl.head, R) /\ IsLast(lvl.tail, R)
    BY DEF Chained
  <2>2. /\ UnlinkedLevel(lvl2, o).head = IF o.prev = NoOrder THEN o.next ELSE lvl.head
        /\ UnlinkedLevel(lvl2, o).tail = IF o.next = NoOrder THEN o.prev ELSE lvl.tail
    BY DEF UnlinkedLevel
  <2>3. T # {}
    OBVIOUS
  <2>4. IsFirst(UnlinkedLevel(lvl2, o).head, T)
    BY <1>1, <1>2, <2>1, <2>2, <2>3 DEF IsFirst
  <2>5. IsLast(UnlinkedLevel(lvl2, o).tail, T)
    BY <1>1, <1>2, <2>1, <2>2, <2>3 DEF IsLast
  <2> QED BY <2>4, <2>5
<1> QED BY <1>5, <1>6, <1>7 DEF Chained, o, u

\* An order that is newer than all goes to the end of the list.
LEMMA ChainAppended ==
  ASSUME NEW ords, NEW R, Ids(R), NEW lvl, Chained(lvl, ords, R),
         NEW id \in Nat \ {NoOrder}, \A i \in R : i < id,
         NEW new, new[id].prev = lvl.tail, new[id].next = NoOrder,
         \A i \in R : /\ new[i].prev = ords[i].prev
                      /\ new[i].next = IF i = lvl.tail THEN id ELSE ords[i].next,
         NEW o
  PROVE  Chained(AppendedLevel(lvl, id, o), new, R \cup {id})
<1> DEFINE T == R \cup {id}
<1>1. /\ \A i \in R : i \in Nat /\ i # 0 /\ i < id /\ ~(id < i) /\ i # id
      /\ NoOrder = 0 /\ id \in Nat /\ id # 0 /\ ~(id < id) /\ id <= id
  BY DEF Ids, NoOrder
<1>2. IsFirst(lvl.head, R) /\ IsLast(lvl.tail, R)
  BY DEF Chained
<1>3. /\ AppendedLevel(lvl, id, o).head = IF lvl.tail = NoOrder THEN id ELSE lvl.head
      /\ AppendedLevel(lvl, id, o).tail = id
  BY DEF AppendedLevel
<1>4. IsFirst(AppendedLevel(lvl, id, o).head, T)
  BY <1>1, <1>2, <1>3 DEF IsFirst, IsLast
<1>5. IsLast(AppendedLevel(lvl, id, o).tail, T)
  BY <1>1, <1>3 DEF IsLast
<1>6. ASSUME NEW i \in T PROVE IsLast(new[i].prev, {j \in T : j < i})
  <2>1. CASE i = id
    <3>1. {j \in T : j < i} = R
      BY <1>1, <2>1
    <3> QED BY <1>2, <2>1, <3>1
  <2>2. CASE i \in R
    <3>1. {j \in T : j < i} = {j \in R : j < i}
      BY <1>1, <2>2
    <3> QED BY <2>2, <3>1 DEF Chained
  <2> QED BY <2>1, <2>2
<1>7. ASSUME NEW i \in T PROVE IsFirst(new[i].next, {j \in T : j > i})
  <2>1. CASE i = id
    <3>1. {j \in T : j > i} = {}
      BY <1>1, <2>1
    <3> QED BY <2>1, <3>1 DEF IsFirst
  <2>2. CASE i \in R
    <3>1. IsFirst(ords[i].next, {j \in R : j > i})
      BY <2>2 DEF Chained
    <3>2. CASE i = lvl.tail
      <4>1. {j \in T : j > i} = {id}
        BY <1>1, <1>2, <2>2, <3>2 DEF IsLast
      <4> QED BY <1>1, <2>2, <3>2, <4>1 DEF IsFirst
    <3>3. CASE i # lvl.tail
      <4>1. \E j \in R : j > i
        BY <1>1, <1>2, <2>2, <3>3 DEF IsLast
      <4>2. /\ ords[i].next # NoOrder /\ ords[i].next \in R /\ ords[i].next > i
            /\ \A j \in R : j > i => ords[i].next <= j
        BY <3>1, <4>1 DEF IsFirst
      <4> QED BY <1>1, <2>2, <3>3, <4>2 DEF IsFirst
    <3> QED BY <3>2, <3>3
  <2> QED BY <2>1, <2>2
<1> QED BY <1>4, <1>5, <1>6, <1>7 DEF Chained

-----------------------------------------------------------------------------
(* The book: which levels there are, and what each of them holds *)

\* The orders at a side and price, order out excepted.
At(ords, out, side, p) ==
  {i \in DOMAIN ords \ {out} : ords[i].side = side /\ ords[i].price = p}

LevelSound(lvl, ords, R) == R # {} /\ Chained(lvl, ords, R) /\ Counted(lvl, ords, R)

Rests(o, lads) == o.type = "LIMIT" /\ o.remaining > 0 /\ o.price \in DOMAIN lads[o.side]

\* Every order but out rests in a level, and every level is its orders.
LevelsSound(ords, lads, out) ==
  /\ \A i \in DOMAIN ords \ {out} : Rests(ords[i], lads)
  /\ \A side \in Sides : \A p \in DOMAIN lads[side] :
       LevelSound(lads[side][p], ords, At(ords, out, side, p))

MapTyped(ords) == Ids(DOMAIN ords) /\ \A i \in DOMAIN ords : ords[i] \in Order

LadsTyped(lads) ==
  DOMAIN lads = Sides /\ \A side \in Sides : \A p \in DOMAIN lads[side] : lads[side][p] \in PriceLevel

SameInLevel(a, b) == SameLinks(a, b) /\ a.remaining = b.remaining

\* The orders of a level are a finite set of ids.
LEMMA AtFacts ==
  ASSUME NEW ords, MapTyped(ords), NEW out, NEW side, NEW p
  PROVE  /\ At(ords, out, side, p) \subseteq DOMAIN ords
         /\ At(ords, out, side, p) \subseteq DOMAIN ords \ {out}
         /\ IsFiniteSet(At(ords, out, side, p))
         /\ Ids(At(ords, out, side, p))
         /\ \A i \in At(ords, out, side, p) : ords[i] \in Order /\ Remaining(ords)[i] = ords[i].remaining
<1>1. /\ At(ords, out, side, p) \subseteq DOMAIN ords
      /\ At(ords, out, side, p) \subseteq DOMAIN ords \ {out}
  BY DEF At
<1>2. Ids(At(ords, out, side, p)) /\ IsFiniteSet(At(ords, out, side, p))
  BY <1>1, FS_Subset DEF MapTyped, Ids
<1> QED BY <1>1, <1>2 DEF MapTyped, Remaining

\* A level depends on its own orders only.
LEMMA LevelKept ==
  ASSUME NEW a, NEW b, NEW R, IsFiniteSet(R), R \subseteq DOMAIN a, R \subseteq DOMAIN b,
         NEW lvl, LevelSound(lvl, a, R), \A i \in R : SameInLevel(a[i], b[i])
  PROVE  LevelSound(lvl, b, R)
<1>1. Chained(lvl, b, R)
  BY ChainSame DEF LevelSound, SameInLevel
<1>2. \A i \in R : Remaining(a)[i] = Remaining(b)[i]
  BY DEF Remaining, SameInLevel
<1>3. SumFunctionOnSet(Remaining(a), R) = SumFunctionOnSet(Remaining(b), R)
  BY <1>2, SumSame
<1> QED BY <1>1, <1>3 DEF LevelSound, Counted

\* The order that is being added is no part of any level.
LEMMA LevelsSame ==
  ASSUME NEW a, NEW lads, NEW x, LevelsSound(a, lads, x), MapTyped(a),
         NEW b, NEW y, DOMAIN b \ {y} = DOMAIN a \ {x}, \A i \in DOMAIN a \ {x} : b[i] = a[i]
  PROVE  LevelsSound(b, lads, y)
<1>1. \A i \in DOMAIN b \ {y} : Rests(b[i], lads)
  BY DEF LevelsSound
<1>2. ASSUME NEW side \in Sides, NEW p \in DOMAIN lads[side]
      PROVE  LevelSound(lads[side][p], b, At(b, y, side, p))
  <2> DEFINE R == At(a, x, side, p)
  <2>1. At(b, y, side, p) = R
    BY DEF At
  <2>2. R \subseteq DOMAIN a \ {x} /\ R \subseteq DOMAIN a /\ R \subseteq DOMAIN b
    BY DEF At
  <2>5. IsFiniteSet(R)
    BY AtFacts DEF Ids
  <2>3. LevelSound(lads[side][p], a, R)
    BY DEF LevelsSound
  <2>4. \A i \in R : SameInLevel(a[i], b[i])
    BY <2>2 DEF SameInLevel, SameLinks
  <2> HIDE DEF R
  <2> QED BY <2>1, <2>2, <2>3, <2>4, <2>5, LevelKept
<1> QED BY <1>1, <1>2 DEF LevelsSound

\* The links of an order stay within its level.
LEMMA LinksWithin ==
  ASSUME NEW ords, NEW lads, NEW out, LevelsSound(ords, lads, out), MapTyped(ords),
         NEW id \in DOMAIN ords \ {out}, ords[id].side \in Sides
  PROVE  LET R == At(ords, out, ords[id].side, ords[id].price)
         IN  /\ id \in R
             /\ ords[id].price \in DOMAIN lads[ords[id].side]
             /\ LevelSound(lads[ords[id].side][ords[id].price], ords, R)
             /\ ords[id].prev = NoOrder \/ ords[id].prev \in R
             /\ ords[id].next = NoOrder \/ ords[id].next \in R
<1> DEFINE o == ords[id]
           R == At(ords, out, o.side, o.price)
<1>1. id \in R
  BY DEF At
<1>2. o.price \in DOMAIN lads[o.side]
  BY DEF LevelsSound, Rests
<1>3. LevelSound(lads[o.side][o.price], ords, R)
  BY <1>2 DEF LevelsSound
<1> HIDE DEF R
<1>4. IsLast(o.prev, {j \in R : j < id}) /\ IsFirst(o.next, {j \in R : j > id})
  BY <1>1, <1>3 DEF LevelSound, Chained
<1>5. (o.prev = NoOrder \/ o.prev \in R) /\ (o.next = NoOrder \/ o.next \in R)
  BY <1>4 DEF IsLast, IsFirst
<1> QED BY <1>1, <1>2, <1>3, <1>5 DEF R

\* What is left of a level without order o.
OneFewer(left, lvl, o) ==
  /\ left.total_qty = lvl.total_qty - o.remaining
  /\ left.order_count = IF lvl.order_count > 0 THEN lvl.order_count - 1 ELSE 0

SameRemaining(new, old, T) ==
  T \subseteq DOMAIN new /\ \A i \in T : new[i].remaining = old[i].remaining

\* One order fewer: the total and the number of the others.
LEMMA CountedUnlinked ==
  ASSUME NEW ords, MapTyped(ords), NEW R, IsFiniteSet(R), R \subseteq DOMAIN ords,
         NEW lvl \in PriceLevel, Counted(lvl, ords, R), NEW id \in R,
         NEW T, T = R \ {id}, NEW new, SameRemaining(new, ords, T),
         NEW left, OneFewer(left, lvl, ords[id])
  PROVE  Counted(left, new, T)
<1> DEFINE f == Remaining(ords)
<1>1. \A i \in R : f[i] = ords[i].remaining /\ f[i] \in Int
  BY DEF MapTyped, Order, Remaining
<1>2. IsFiniteSet(T)
  BY FS_Subset
<1>3. SumFunctionOnSet(f, R) = f[id] + SumFunctionOnSet(f, T)
  BY <1>1, SumRemove
<1>4. SumFunctionOnSet(f, T) \in Int
  BY <1>1, <1>2, SumType
<1>5. SumFunctionOnSet(f, T) = SumFunctionOnSet(Remaining(new), T)
  <2>1. \A i \in T : f[i] = Remaining(new)[i]
    BY <1>1 DEF Remaining, SameRemaining
  <2> QED BY <1>2, <2>1, SumSame
<1>6. Cardinality(R) \in Nat /\ Cardinality(T) = Cardinality(R) - 1 /\ Cardinality(T) \in Nat
  BY <1>2, FS_RemoveElement, FS_CardinalityType
<1>8. lvl.total_qty = SumFunctionOnSet(f, R) /\ lvl.order_count = Cardinality(R)
  BY DEF Counted
<1>9. /\ left.total_qty = lvl.total_qty - f[id]
      /\ left.order_count = IF lvl.order_count > 0 THEN lvl.order_count - 1 ELSE 0
  BY <1>1 DEF OneFewer
<1> HIDE DEF f
<1>10. left.total_qty = SumFunctionOnSet(f, T)
  BY <1>1, <1>3, <1>4, <1>8, <1>9
<1>11. left.order_count = Cardinality(T)
  BY <1>6, <1>8, <1>9
<1>12. Counted(left, new, T)
  BY <1>5, <1>10, <1>11 DEF Counted
<1> QED BY <1>12

\* What a withdrawn or filled order leaves of the order map.
LEMMA LeftOrders ==
  ASSUME NEW ords, MapTyped(ords), NEW id \in DOMAIN ords
  PROVE  LET new == Erased(UnlinkedOrders(ords, ords[id]), id)
         IN  /\ DOMAIN new = DOMAIN ords \ {id}
             /\ \A i \in DOMAIN new :
                  /\ new[i] = UnlinkedOrders(ords, ords[id])[i]
                  /\ SameButLinks(new[i], ords[i])
                  /\ (i # ords[id].prev /\ i # ords[id].next) => SameLinks(new[i], ords[i])
<1> DEFINE unl == UnlinkedOrders(ords, ords[id])
           new == Erased(unl, id)
<1>1. /\ DOMAIN unl = DOMAIN ords
      /\ \A i \in DOMAIN ords : SameButLinks(unl[i], ords[i])
  BY UnlinkedOrdersFacts DEF MapTyped, SameButLinks
<1>2. \A i \in DOMAIN ords : (i # ords[id].prev /\ i # ords[id].next) => SameLinks(unl[i], ords[i])
  BY UnlinkedLinks DEF MapTyped, SameLinks
<1> HIDE DEF unl
<1>3. DOMAIN new = DOMAIN ords \ {id} /\ \A i \in DOMAIN new : new[i] = unl[i]
  BY <1>1, ErasedFacts
<1> HIDE DEF new
<1>4. \A i \in DOMAIN new :
        /\ new[i] = unl[i]
        /\ SameButLinks(new[i], ords[i])
        /\ (i # ords[id].prev /\ i # ords[id].next) => SameLinks(new[i], ords[i])
  BY <1>1, <1>2, <1>3
<1> QED BY <1>3, <1>4 DEF unl, new

\* An order leaves its level, and the level leaves the ladder with its last order.
LEMMA LevelsUnlinked ==
  ASSUME NEW ords, NEW lads, NEW out, LevelsSound(ords, lads, out), MapTyped(ords),
         LadsTyped(lads), NEW id \in DOMAIN ords \ {out}
  PROVE  LET o   == ords[id]
             lad == lads[o.side]
             lvl == [lad[o.price] EXCEPT !.total_qty = @ - o.remaining]
         IN  /\ o.price \in DOMAIN lad
             /\ LevelsSound(Erased(UnlinkedOrders(ords, o), id),
                            [lads EXCEPT ![o.side] = StoreLevel(lad, o.price, UnlinkedLevel(lvl, o))],
                            out)
<1> DEFINE o    == ords[id]
           lad  == lads[o.side]
           lvl  == [lad[o.price] EXCEPT !.total_qty = @ - o.remaining]
           left == UnlinkedLevel(lvl, o)
           st   == StoreLevel(lad, o.price, left)
           new  == Erased(UnlinkedOrders(ords, o), id)
           lds  == [lads EXCEPT ![o.side] = st]
           R    == At(ords, out, o.side, o.price)
           T    == R \ {id}
<1>1. o \in Order /\ o.side \in Sides /\ DOMAIN lads = Sides
  BY DEF MapTyped, Order, LadsTyped
<1>2. /\ id \in R /\ o.price \in DOMAIN lad
      /\ LevelSound(lad[o.price], ords, R)
      /\ o.prev = NoOrder \/ o.prev \in R
      /\ o.next = NoOrder \/ o.next \in R
  BY <1>1, LinksWithin
<1>3. /\ DOMAIN new = DOMAIN ords \ {id}
      /\ \A i \in DOMAIN new :
           /\ new[i] = UnlinkedOrders(ords, o)[i]
           /\ SameButLinks(new[i], ords[i])
           /\ (i # o.prev /\ i # o.next) => SameLinks(new[i], ords[i])
  BY LeftOrders
<1>4. /\ R \subseteq DOMAIN ords /\ Ids(R) /\ IsFiniteSet(R)
      /\ \A i \in R : ords[i] \in Order
  BY AtFacts DEF Ids
<1>5. lad[o.price] \in PriceLevel
  BY <1>1, <1>2 DEF LadsTyped
<1>6. Counted(left, new, T) /\ (left.order_count = 0 <=> R = {id})
  <2>1. Counted(lad[o.price], ords, R)
    BY <1>2 DEF LevelSound
  <2>2. SameRemaining(new, ords, T)
    BY <1>3, <1>4 DEF SameButLinks, SameRemaining
  <2>3. OneFewer(left, lad[o.price], ords[id])
    BY <1>5 DEF UnlinkedLevel, PriceLevel, OneFewer
  <2> HIDE DEF R, new, left, lad, o
  <2>4. MapTyped(ords) /\ IsFiniteSet(R) /\ R \subseteq DOMAIN ords /\ id \in R
        /\ lad[o.price] \in PriceLevel
    BY <1>2, <1>4, <1>5
  <2> HIDE DEF T
  <2>5. T = R \ {id} /\ IsFiniteSet(T)
    BY <2>4, FS_Subset DEF T
  <2>6. Counted(left, new, T)
    BY <2>1, <2>2, <2>3, <2>4, <2>5, CountedUnlinked
  <2>7. left.order_count = 0 <=> T = {}
    BY <2>5, <2>6, FS_EmptySet DEF Counted
  <2> QED BY <2>4, <2>5, <2>6, <2>7
<1>7. /\ st = IF left.order_count = 0 THEN Restrict(lad, DOMAIN lad \ {o.price})
              ELSE [lad EXCEPT ![o.price] = left]
      /\ lds[o.side] = st
      /\ \A s \in Sides \ {o.side} : lds[s] = lads[s]
  BY <1>1 DEF StoreLevel
<1>8. ASSUME R # {id} PROVE LevelSound(left, new, T)
  <2>1. Chained(lad[o.price], ords, R)
    BY <1>2 DEF LevelSound
  <2>2. lvl.head = lad[o.price].head /\ lvl.tail = lad[o.price].tail
    BY <1>5 DEF PriceLevel
  <2>3. Chained(left, UnlinkedOrders(ords, o), T)
    <3> HIDE DEF R, lvl, lad
    <3> QED BY <1>2, <1>4, <1>8, <2>1, <2>2, ChainUnlinked
  <2>4. \A i \in T : SameLinks(UnlinkedOrders(ords, o)[i], new[i])
    BY <1>3, <1>4 DEF SameLinks
  <2> HIDE DEF R, left, new
  <2>5. Chained(left, new, T)
    BY <2>3, <2>4, ChainSame
  <2> QED BY <1>2, <1>6, <1>8, <2>5 DEF LevelSound
<1>9. At(new, out, o.side, o.price) = T
  <2>1. \A i \in DOMAIN new : new[i].side = ords[i].side /\ new[i].price = ords[i].price
    BY <1>3 DEF SameButLinks
  <2> HIDE DEF new, o
  <2> QED BY <1>3, <2>1 DEF At
<1>10. ASSUME NEW side \in Sides, NEW p, side # o.side \/ p # o.price, p \in DOMAIN lads[side]
       PROVE  LevelSound(lads[side][p], new, At(new, out, side, p))
  <2> DEFINE Q == At(ords, out, side, p)
  <2>1. LevelSound(lads[side][p], ords, Q)
    BY <1>10 DEF LevelsSound
  <2>2. IsFiniteSet(Q) /\ Q \subseteq DOMAIN ords
    BY AtFacts DEF Ids
  <2>3. \A i \in Q : i # id /\ i # o.prev /\ i # o.next
    <3>1. NoOrder \notin DOMAIN ords
      BY DEF MapTyped, Ids
    <3>2. \A i \in Q : i \notin R
      BY <1>10 DEF At
    <3> HIDE DEF Q, R, o
    <3> QED BY <1>2, <2>2, <3>1, <3>2
  <2>4. At(new, out, side, p) = Q
    <3>1. \A i \in DOMAIN new : new[i].side = ords[i].side /\ new[i].price = ords[i].price
      BY <1>3 DEF SameButLinks
    <3>2. id \notin Q
      BY <2>3
    <3> HIDE DEF new, o
    <3> QED BY <1>3, <3>1, <3>2 DEF At
  <2>5. Q \subseteq DOMAIN new /\ \A i \in Q : SameInLevel(ords[i], new[i])
    <3> HIDE DEF new, o, Q
    <3> QED BY <1>3, <2>2, <2>3 DEF SameInLevel, SameLinks, SameButLinks
  <2> HIDE DEF Q, new
  <2> QED BY <2>1, <2>2, <2>4, <2>5, LevelKept
<1>11. ASSUME NEW i \in DOMAIN new \ {out} PROVE Rests(new[i], lds)
  <2>1. i \in DOMAIN ords \ {out} /\ i # id /\ SameButLinks(new[i], ords[i])
    BY <1>3
  <2>2. Rests(ords[i], lads) /\ ords[i].side \in Sides
    BY <2>1 DEF LevelsSound, MapTyped, Order
  <2>3. ords[i].price \in DOMAIN lds[ords[i].side]
    <3>1. CASE ords[i].side # o.side
      BY <1>7, <2>2, <3>1 DEF Rests
    <3>2. CASE ords[i].side = o.side /\ ords[i].price # o.price
      BY <1>7, <2>2, <3>2 DEF Rests, Restrict
    <3>3. CASE ords[i].side = o.side /\ ords[i].price = o.price
      <4>1. i \in R
        BY <2>1, <3>3 DEF At
      <4>2. left.order_count # 0
        BY <1>6, <2>1, <4>1
      <4> QED BY <1>2, <1>7, <3>3, <4>2
    <3> QED BY <3>1, <3>2, <3>3
  <2> QED BY <2>1, <2>2, <2>3 DEF Rests, SameButLinks
<1>12. ASSUME NEW side \in Sides, NEW p \in DOMAIN lds[side]
       PROVE  LevelSound(lds[side][p], new, At(new, out, side, p))
  <2>1. CASE side # o.side
    BY <1>7, <1>10, <2>1
  <2>2. CASE side = o.side /\ p # o.price
    <3>1. p \in DOMAIN lad /\ lds[side][p] = lad[p]
      BY <1>7, <2>2 DEF Restrict
    <3> QED BY <1>10, <2>2, <3>1
  <2>3. CASE side = o.side /\ p = o.price
    <3>1. left.order_count # 0
      BY <1>7, <2>3 DEF Restrict
    <3>2. R # {id} /\ lds[side][p] = left
      <4>1. R # {id}
        BY <1>6, <3>1
      <4>2. lds[side] = [lad EXCEPT ![p] = left]
        BY <1>7, <2>3, <3>1
      <4> HIDE DEF lds, left, lad
      <4> QED BY <1>2, <2>3, <4>1, <4>2
    <3> QED BY <1>8, <1>9, <2>3, <3>2
  <2> QED BY <2>1, <2>2, <2>3
<1>13. LevelsSound(new, lds, out)
  <2> HIDE DEF new, lds
  <2> QED BY <1>11, <1>12 DEF LevelsSound
<1> QED BY <1>2, <1>13

\* A maker that trades a part of its quantity keeps its place, and its level
\* loses that part of its total.
LEMMA LevelsPartlyFilled ==
  ASSUME NEW ords, NEW lads, NEW out, LevelsSound(ords, lads, out), MapTyped(ords),
         LadsTyped(lads), NEW id \in DOMAIN ords \ {out},
         NEW qty \in Int, qty < ords[id].remaining,
         NEW new, DOMAIN new = DOMAIN ords,
         \A i \in DOMAIN ords \ {out, id} : new[i] = ords[i],
         OrderFilled(new[id], ords[id]), new[id].remaining = ords[id].remaining - qty
  PROVE  LET o   == ords[id]
             lad == lads[o.side]
             lvl == [lad[o.price] EXCEPT !.total_qty = @ - qty]
         IN  /\ o.price \in DOMAIN lad
             /\ LevelsSound(new, [lads EXCEPT ![o.side] = [lad EXCEPT ![o.price] = lvl]], out)
<1> DEFINE o   == ords[id]
           lad == lads[o.side]
           lvl == [lad[o.price] EXCEPT !.total_qty = @ - qty]
           lds == [lads EXCEPT ![o.side] = [lad EXCEPT ![o.price] = lvl]]
           R   == At(ords, out, o.side, o.price)
           f   == Remaining(ords)
           g   == Remaining(new)
<1>1. o \in Order /\ o.side \in Sides /\ o.remaining \in Int /\ DOMAIN lads = Sides
  BY DEF MapTyped, Order, LadsTyped
<1>2. id \in R /\ o.price \in DOMAIN lad /\ LevelSound(lad[o.price], ords, R)
  BY <1>1, LinksWithin
<1>3. /\ R \subseteq DOMAIN ords \ {out} /\ IsFiniteSet(R)
      /\ \A i \in R : ords[i] \in Order
  BY AtFacts
<1>4. lad[o.price] \in PriceLevel
  BY <1>1, <1>2 DEF LadsTyped
<1>5. /\ lvl.head = lad[o.price].head /\ lvl.tail = lad[o.price].tail
      /\ lvl.order_count = lad[o.price].order_count
      /\ lvl.total_qty = lad[o.price].total_qty - qty
  BY <1>4 DEF PriceLevel
<1>6. /\ DOMAIN lds = Sides /\ \A s \in Sides : DOMAIN lds[s] = DOMAIN lads[s]
      /\ lds[o.side][o.price] = lvl
      /\ \A s \in Sides : \A p \in DOMAIN lads[s] :
           s # o.side \/ p # o.price => lds[s][p] = lads[s][p]
  BY <1>1, <1>2
<1>7. \A i \in DOMAIN ords \ {out} :
        /\ new[i].side = ords[i].side /\ new[i].price = ords[i].price
        /\ new[i].type = ords[i].type /\ SameLinks(new[i], ords[i])
  BY DEF OrderFilled, SameLinks
<1>8. \A s, p : At(new, out, s, p) = At(ords, out, s, p)
  BY <1>7 DEF At
<1>9. SumFunctionOnSet(g, R) = SumFunctionOnSet(f, R) - qty
  <2> DEFINE T == R \ {id}
  <2>1. /\ IsFiniteSet(T) /\ \A i \in R : f[i] = ords[i].remaining /\ f[i] \in Int
        /\ \A i \in T : g[i] = f[i]
        /\ g[id] = f[id] - qty
    <3>1. IsFiniteSet(T)
      BY <1>3, FS_Subset
    <3>2. \A i \in R : f[i] = ords[i].remaining /\ f[i] \in Int
      BY <1>3 DEF Order, Remaining
    <3>3. (\A i \in T : g[i] = f[i]) /\ g[id] = f[id] - qty
      BY <1>3 DEF Remaining
    <3> QED BY <3>1, <3>2, <3>3
  <2>2. \A i \in R : g[i] \in Int
    BY <1>2, <2>1
  <2> HIDE DEF f, g, R
  <2>3. /\ SumFunctionOnSet(f, R) = f[id] + SumFunctionOnSet(f, T)
        /\ SumFunctionOnSet(g, R) = g[id] + SumFunctionOnSet(g, T)
    BY <1>2, <1>3, <2>1, <2>2, SumRemove
  <2>4. SumFunctionOnSet(f, T) = SumFunctionOnSet(g, T)
    BY <2>1, SumSame
  <2>5. SumFunctionOnSet(f, T) \in Int
    BY <2>1, SumType
  <2> QED BY <1>2, <2>1, <2>3, <2>4, <2>5
<1>10. LevelSound(lvl, new, R)
  <2>1. Chained(lvl, new, R)
    <3>1. \A i \in R : SameLinks(ords[i], new[i])
      BY <1>3, <1>7 DEF SameLinks
    <3> HIDE DEF R, lvl, lad
    <3> QED BY <1>2, <1>5, <3>1, ChainSame DEF LevelSound
  <2>2. Counted(lvl, new, R)
    <3> HIDE DEF R, lvl, lad
    <3> QED BY <1>2, <1>5, <1>9 DEF LevelSound, Counted
  <2> QED BY <1>2, <2>1, <2>2 DEF LevelSound
<1>11. ASSUME NEW i \in DOMAIN new \ {out} PROVE Rests(new[i], lds)
  <2>1. i \in DOMAIN ords \ {out} /\ Rests(ords[i], lads) /\ ords[i].side \in Sides
    BY DEF LevelsSound, MapTyped, Order
  <2>2. new[i].remaining > 0
    <3>1. CASE i = id
      BY <1>1, <3>1
    <3>2. CASE i # id
      BY <2>1, <3>2 DEF Rests
    <3> QED BY <3>1, <3>2
  <2> HIDE DEF lds
  <2> QED BY <1>6, <1>7, <2>1, <2>2 DEF Rests
<1>12. ASSUME NEW s \in Sides, NEW p \in DOMAIN lads[s], s # o.side \/ p # o.price
       PROVE  LevelSound(lads[s][p], new, At(ords, out, s, p))
  <2> DEFINE Q == At(ords, out, s, p)
  <2>1. LevelSound(lads[s][p], ords, Q)
    BY DEF LevelsSound
  <2>2. IsFiniteSet(Q) /\ Q \subseteq DOMAIN ords /\ Q \subseteq DOMAIN new
    BY AtFacts DEF Ids
  <2>3. \A i \in Q : i \in DOMAIN ords \ {out, id}
    BY <1>12 DEF At
  <2>4. \A i \in Q : SameInLevel(ords[i], new[i])
    BY <2>3 DEF SameInLevel, SameLinks
  <2> HIDE DEF Q
  <2>5. LevelSound(lads[s][p], new, Q)
    BY <2>1, <2>2, <2>4, LevelKept
  <2> QED BY <2>5 DEF Q
<1>13. ASSUME NEW s \in Sides, NEW p \in DOMAIN lds[s]
       PROVE  LevelSound(lds[s][p], new, At(new, out, s, p))
  <2>1. p \in DOMAIN lads[s]
    BY <1>6
  <2>2. CASE s = o.side /\ p = o.price
    BY <1>6, <1>8, <1>10, <2>2
  <2>3. CASE s # o.side \/ p # o.price
    BY <1>6, <1>8, <1>12, <2>1, <2>3
  <2> QED BY <2>2, <2>3
<1>14. LevelsSound(new, lds, out)
  <2> HIDE DEF lds
  <2> QED BY <1>11, <1>13 DEF LevelsSound
<1> QED BY <1>2, <1>14

\* An order that is newer than all others comes to rest at the end of its
\* level, which is created if there was none.
LEMMA LevelsRested ==
  ASSUME NEW ords, NEW lads, NEW id \in DOMAIN ords, LevelsSound(ords, lads, id),
         MapTyped(ords), LadsTyped(lads), \A i \in DOMAIN ords \ {id} : i < id,
         ords[id].type = "LIMIT", ords[id].remaining > 0,
         NEW lvl, lvl = LevelAt(lads[ords[id].side], ords[id].price),
         NEW new, DOMAIN new = DOMAIN ords,
         \A i \in DOMAIN ords : SameButLinks(new[i], ords[i]),
         new[id].prev = lvl.tail, new[id].next = NoOrder,
         \A i \in DOMAIN ords \ {id} :
           /\ new[i].prev = ords[i].prev
           /\ new[i].next = IF i = lvl.tail THEN id ELSE ords[i].next,
         NEW lds, DOMAIN lds = Sides,
         \A s \in Sides \ {ords[id].side} : lds[s] = lads[s],
         LET lad == lads[ords[id].side]
             grown == lds[ords[id].side]
         IN  /\ DOMAIN grown = DOMAIN lad \cup {ords[id].price}
             /\ grown[ords[id].price] = AppendedLevel(lvl, id, ords[id])
             /\ \A p \in DOMAIN lad \ {ords[id].price} : grown[p] = lad[p]
  PROVE  LevelsSound(new, lds, NoOrder)
<1> DEFINE o   == ords[id]
           lad == lads[o.side]
           R   == At(ords, id, o.side, o.price)
           T   == R \cup {id}
           f   == Remaining(ords)
           app == AppendedLevel(lvl, id, o)
<1>1. o \in Order /\ o.side \in Sides /\ o.remaining \in Int /\ DOMAIN lads = Sides
  BY DEF MapTyped, Order, LadsTyped
<1>2. /\ R \subseteq DOMAIN ords /\ R \subseteq DOMAIN ords \ {id} /\ IsFiniteSet(R) /\ Ids(R)
      /\ \A i \in R : ords[i] \in Order
      /\ id \notin R /\ id \in Nat \ {NoOrder} /\ NoOrder \notin DOMAIN ords
  BY AtFacts DEF MapTyped, Ids
<1>3. /\ Chained(lvl, ords, R) /\ Counted(lvl, ords, R)
  <2>1. CASE o.price \in DOMAIN lad
    <3>1. LevelSound(lad[o.price], ords, R)
      BY <1>1, <2>1 DEF LevelsSound
    <3> QED BY <2>1, <3>1 DEF LevelAt, LevelSound
  <2>2. CASE o.price \notin DOMAIN lad
    <3>1. R = {}
      <4>1. \A i \in DOMAIN ords \ {id} : ords[i].price \in DOMAIN lads[ords[i].side]
        BY DEF LevelsSound, Rests
      <4> QED BY <2>2, <4>1 DEF At
    <3>2. lvl = NewLevel
      BY <2>2 DEF LevelAt
    <3>3. Chained(lvl, ords, R)
      BY <3>1, <3>2 DEF Chained, IsFirst, IsLast, NewLevel
    <3>4. Counted(lvl, ords, R)
      BY <3>1, <3>2, SumEmpty, FS_EmptySet DEF Counted, NewLevel
    <3> QED BY <3>3, <3>4
  <2> QED BY <2>1, <2>2
<1>4. \A s, p : At(new, NoOrder, s, p) = At(ords, id, s, p) \cup
                                         {i \in {id} : s = o.side /\ p = o.price}
  <2>1. \A i \in DOMAIN ords : new[i].side = ords[i].side /\ new[i].price = ords[i].price
    BY DEF SameButLinks
  <2> QED BY <1>2, <2>1 DEF At
<1>5. At(new, NoOrder, o.side, o.price) = T
  BY <1>4
<1>6. Chained(app, new, T)
  <2>1. \A i \in R : i < id
    BY <1>2
  <2>2. \A i \in R : /\ new[i].prev = ords[i].prev
                     /\ new[i].next = IF i = lvl.tail THEN id ELSE ords[i].next
    BY <1>2
  <2> HIDE DEF R, o
  <2> QED BY <1>2, <1>3, <2>1, <2>2, ChainAppended
<1>7. Counted(app, new, T)
  <2>1. \A i \in T : f[i] = ords[i].remaining /\ f[i] \in Int /\ Remaining(new)[i] = f[i]
    BY <1>1, <1>2 DEF Remaining, SameButLinks, Order
  <2>2. IsFiniteSet(T) /\ Cardinality(T) = Cardinality(R) + 1
    BY <1>2, FS_AddElement
  <2>3. lvl.total_qty = SumFunctionOnSet(f, R) /\ lvl.order_count = Cardinality(R)
    BY <1>3 DEF Counted
  <2>4. app.total_qty = lvl.total_qty + o.remaining /\ app.order_count = lvl.order_count + 1
    BY DEF AppendedLevel
  <2>6. f[id] = o.remaining
    BY <1>1 DEF Remaining
  <2> HIDE DEF f, R, o, app
  <2>7. SumFunctionOnSet(f, R) \in Int
    BY <1>2, <2>1, SumType
  <2>8. SumFunctionOnSet(f, T) = f[id] + SumFunctionOnSet(f, R)
    BY <1>2, <2>1, SumAdd
  <2>9. SumFunctionOnSet(f, T) = SumFunctionOnSet(Remaining(new), T)
    BY <2>1, <2>2, SumSame
  <2>10. app.total_qty = SumFunctionOnSet(Remaining(new), T)
    BY <1>1, <2>3, <2>4, <2>6, <2>7, <2>8, <2>9
  <2> QED BY <2>2, <2>3, <2>4, <2>10 DEF Counted
<1>8. LevelSound(app, new, T)
  BY <1>6, <1>7 DEF LevelSound
<1>9. ASSUME NEW s \in Sides, NEW p \in DOMAIN lads[s], s # o.side \/ p # o.price
      PROVE  LevelSound(lads[s][p], new, At(ords, id, s, p))
  <2> DEFINE Q == At(ords, id, s, p)
  <2>1. LevelSound(lads[s][p], ords, Q)
    BY DEF LevelsSound
  <2>2. IsFiniteSet(Q) /\ Q \subseteq DOMAIN ords \ {id} /\ Q \subseteq DOMAIN ords
    BY AtFacts
  <2>3. lvl.tail \notin Q
    <3>1. lvl.tail = NoOrder \/ lvl.tail \in R
      BY <1>3 DEF Chained, IsLast
    <3>2. \A i \in Q : i \notin R
      BY <1>9 DEF At
    <3> QED BY <1>2, <2>2, <3>1, <3>2
  <2>4. \A i \in Q : SameInLevel(ords[i], new[i])
    BY <2>2, <2>3 DEF SameInLevel, SameLinks, SameButLinks
  <2> HIDE DEF Q
  <2>5. LevelSound(lads[s][p], new, Q)
    BY <2>1, <2>2, <2>4, LevelKept
  <2> QED BY <2>5 DEF Q
<1>10. /\ \A s \in Sides : \A p \in DOMAIN lads[s] :
            s # o.side \/ p # o.price => lds[s][p] = lads[s][p]
       /\ \A s \in Sides : DOMAIN lads[s] \subseteq DOMAIN lds[s]
       /\ \A s \in Sides : \A p \in DOMAIN lds[s] :
            s # o.side \/ p # o.price => p \in DOMAIN lads[s]
       /\ o.price \in DOMAIN lds[o.side] /\ lds[o.side][o.price] = app
  BY <1>1
<1>11. ASSUME NEW i \in DOMAIN new \ {NoOrder} PROVE Rests(new[i], lds)
  <2>1. i \in DOMAIN ords /\ SameButLinks(new[i], ords[i]) /\ ords[i].side \in Sides
    BY DEF MapTyped, Order
  <2>2. CASE i = id
    BY <1>10, <2>1, <2>2 DEF Rests, SameButLinks
  <2>3. CASE i # id
    <3>1. Rests(ords[i], lads)
      BY <2>1, <2>3 DEF LevelsSound
    <3> QED BY <1>10, <2>1, <3>1 DEF Rests, SameButLinks
  <2> QED BY <2>2, <2>3
<1>12. ASSUME NEW s \in Sides, NEW p \in DOMAIN lds[s]
       PROVE  LevelSound(lds[s][p], new, At(new, NoOrder, s, p))
  <2>1. CASE s = o.side /\ p = o.price
    BY <1>5, <1>8, <1>10, <2>1
  <2>2. CASE s # o.side \/ p # o.price
    <3>1. p \in DOMAIN lads[s] /\ lds[s][p] = lads[s][p]
      BY <1>10, <2>2
    <3>2. {i \in {id} : s = o.side /\ p = o.price} = {}
      BY <2>2
    <3>3. At(new, NoOrder, s, p) = At(ords, id, s, p) \cup {i \in {id} : s = o.side /\ p = o.price}
      BY <1>4
    <3>4. At(new, NoOrder, s, p) = At(ords, id, s, p)
      BY <3>2, <3>3
    <3> QED BY <1>9, <2>2, <3>1, <3>4
  <2> QED BY <2>1, <2>2
<1> QED BY <1>11, <1>12 DEF LevelsSound

-----------------------------------------------------------------------------
(* The lists and totals, as the runs check them *)

\* Only orders that rest or are dropped with the end of their call are submitted.
RestingTypes == OrderTypes \cap {"MARKET", "POST_ONLY"} = {}

\* The order being added, if there is one.
Out == IF pc \in {"sweep", "walk", "finish"} THEN taker ELSE NoOrder

BookInv == LevelsSound(orders, ladder, Out)

\* What the structural invariant says of the map and the ladders.
LEMMA StructureTyped ==
  ASSUME StructureInv
  PROVE  /\ MapTyped(orders) /\ LadsTyped(ladder)
         /\ order_id_seq \in Nat
         /\ \A i \in DOMAIN orders : i \in Nat /\ i # NoOrder /\ i <= order_id_seq
         /\ pc \in {"sweep", "walk", "finish"} => taker \in DOMAIN orders /\ Out = taker
         /\ pc \notin {"sweep", "walk", "finish"} => Out = NoOrder
<1>1. order_id_seq \in Nat /\ DOMAIN orders \subseteq 1 .. order_id_seq
  BY BookAssumption DEF StructureInv, IndexInv
<1>2. \A i \in DOMAIN orders : i \in Nat /\ i # NoOrder /\ i <= order_id_seq
  BY <1>1 DEF NoOrder
<1>3. Ids(DOMAIN orders)
  <2>1. IsFiniteSet(1 .. order_id_seq)
    BY <1>1, FS_Interval
  <2>2. IsFiniteSet(DOMAIN orders)
    BY <1>1, <2>1, FS_Subset
  <2> QED BY <1>2, <2>2 DEF Ids
<1>4. MapTyped(orders)
  BY <1>3 DEF MapTyped, StructureInv, IndexInv, OrdersTyped
<1>5. LadsTyped(ladder)
  BY DEF LadsTyped, StructureInv, IndexInv, LaddersTyped, LevelTyped
<1>6. pc \in {"sweep", "walk", "finish"} => taker \in DOMAIN orders
  BY DEF StructureInv, CallInv, TakerMatchesCall
<1> QED BY <1>1, <1>2, <1>4, <1>5, <1>6 DEF Out

\* What rests is what the properties call resting.
LEMMA RestingIsAt ==
  ASSUME RestingTypes, StructureInv, BookInv
  PROVE  /\ RestingIds = DOMAIN orders \ {Out}
         /\ \A side, p : RestingAt(side, p) = At(orders, Out, side, p)
<1>1. \A i \in DOMAIN orders : InFlight(i) <=> i = Out
  BY StructureTyped DEF InFlight, Out
<1>2. \A i \in DOMAIN orders \ {Out} : orders[i].type = "LIMIT"
  BY DEF BookInv, LevelsSound, Rests
<1>3. RestingIds = DOMAIN orders \ {Out}
  BY <1>1, <1>2 DEF RestingIds
<1> QED BY <1>3 DEF RestingAt, At

\* The greatest and the least of a set are its Max and Min.
LEMMA LastIsMax ==
  ASSUME NEW S, S \subseteq Nat, NEW m, IsLast(m, S)
  PROVE  m = IF S = {} THEN NoOrder ELSE Max(S)
<1>1. CASE S = {}
  BY <1>1 DEF IsLast
<1>2. CASE S # {}
  <2>1. m \in S /\ \A j \in S : m >= j
    BY <1>2 DEF IsLast
  <2>2. \A x \in S : (\A j \in S : x >= j) => x = m
    BY <2>1
  <2>3. Max(S) = m
    BY <2>1, <2>2 DEF Max
  <2> QED BY <1>2, <2>3
<1> QED BY <1>1, <1>2

\* The least, for head and next.
LEMMA FirstIsMin ==
  ASSUME NEW S, S \subseteq Nat, NEW m, IsFirst(m, S)
  PROVE  m = IF S = {} THEN NoOrder ELSE Min(S)
<1>1. CASE S = {}
  BY <1>1 DEF IsFirst
<1>2. CASE S # {}
  <2>1. m \in S /\ \A j \in S : m <= j
    BY <1>2 DEF IsFirst
  <2>2. \A x \in S : (\A j \in S : x <= j) => x = m
    BY <2>1
  <2>3. Min(S) = m
    BY <2>1, <2>2 DEF Min
  <2> QED BY <1>2, <2>3
<1> QED BY <1>1, <1>2

\* Sound levels list their orders, as LevelsListOrders reads them.
LEMMA SoundListsOrders ==
  ASSUME RestingTypes, StructureInv, BookInv
  PROVE  LevelsListOrders
<1>1. MapTyped(orders) /\ RestingIds = DOMAIN orders \ {Out}
  BY StructureTyped, RestingIsAt
<1>2. ASSUME NEW side \in Sides, NEW p \in DOMAIN ladder[side]
      PROVE  LET R == RestingAt(side, p)
             IN  /\ R # {}
                 /\ ladder[side][p].head = Min(R)
                 /\ ladder[side][p].tail = Max(R)
                 /\ \A i \in R :
                      /\ LET older == {j \in R : j < i}
                         IN  orders[i].prev = IF older = {} THEN NoOrder ELSE Max(older)
                      /\ LET newer == {j \in R : j > i}
                         IN  orders[i].next = IF newer = {} THEN NoOrder ELSE Min(newer)
  <2> DEFINE R == RestingAt(side, p)
  <2>1. LevelSound(ladder[side][p], orders, R)
    BY RestingIsAt DEF BookInv, LevelsSound
  <2>2. R \subseteq Nat
    BY <1>1, RestingIsAt, AtFacts DEF Ids
  <2> HIDE DEF R
  <2>3. R # {} /\ IsFirst(ladder[side][p].head, R) /\ IsLast(ladder[side][p].tail, R)
    BY <2>1 DEF LevelSound, Chained
  <2>4. ladder[side][p].head = Min(R) /\ ladder[side][p].tail = Max(R)
    BY <2>2, <2>3, LastIsMax, FirstIsMin
  <2>5. ASSUME NEW i \in R
        PROVE  /\ orders[i].prev = IF {j \in R : j < i} = {} THEN NoOrder
                                   ELSE Max({j \in R : j < i})
               /\ orders[i].next = IF {j \in R : j > i} = {} THEN NoOrder
                                   ELSE Min({j \in R : j > i})
    <3>1. /\ IsLast(orders[i].prev, {j \in R : j < i})
          /\ IsFirst(orders[i].next, {j \in R : j > i})
      BY <2>1 DEF LevelSound, Chained
    <3>2. {j \in R : j < i} \subseteq Nat /\ {j \in R : j > i} \subseteq Nat
      BY <2>2
    <3> QED BY <3>1, <3>2, LastIsMax, FirstIsMin
  <2> QED BY <2>3, <2>4, <2>5 DEF R
<1>3. ASSUME NEW side \in Sides
      PROVE  DOMAIN ladder[side] = {orders[i].price : i \in {j \in RestingIds : orders[j].side = side}}
  <2>1. ASSUME NEW p \in DOMAIN ladder[side]
        PROVE  \E i \in RestingIds : orders[i].side = side /\ orders[i].price = p
    <3>1. RestingAt(side, p) # {}
      BY <1>2
    <3> QED BY <3>1 DEF RestingAt
  <2>2. ASSUME NEW i \in RestingIds, orders[i].side = side
        PROVE  orders[i].price \in DOMAIN ladder[side]
    BY <1>1, <2>2 DEF BookInv, LevelsSound, Rests
  <2> QED BY <2>1, <2>2
<1> QED BY <1>2, <1>3 DEF LevelsListOrders

\* Sound levels count their orders, as LevelTotals reads them.
LEMMA SoundTotals ==
  ASSUME RestingTypes, StructureInv, BookInv
  PROVE  LevelTotals
<1>1. ASSUME NEW side \in Sides, NEW p \in DOMAIN ladder[side]
      PROVE  LET R == RestingAt(side, p)
             IN  /\ ladder[side][p].total_qty = SumFunction([i \in R |-> orders[i].remaining])
                 /\ ladder[side][p].order_count = Cardinality(R)
  <2> DEFINE R == RestingAt(side, p)
             g == [i \in R |-> orders[i].remaining]
  <2>1. LevelSound(ladder[side][p], orders, R)
    BY RestingIsAt DEF BookInv, LevelsSound
  <2>2. IsFiniteSet(R) /\ \A i \in R : Remaining(orders)[i] = g[i]
    BY StructureTyped, RestingIsAt, AtFacts
  <2>3. SumFunction(g) = SumFunctionOnSet(g, R)
    BY DEF SumFunction
  <2> HIDE DEF R, g
  <2>4. SumFunctionOnSet(Remaining(orders), R) = SumFunctionOnSet(g, R)
    BY <2>2, SumSame
  <2>5. /\ ladder[side][p].total_qty = SumFunction(g)
        /\ ladder[side][p].order_count = Cardinality(R)
    BY <2>1, <2>3, <2>4 DEF LevelSound, Counted
  <2> QED BY <2>5 DEF R, g
<1> QED BY <1>1 DEF LevelTotals

-----------------------------------------------------------------------------
(* The walk over a level *)

\* While the taker has something left, the level it walks is within its limit
\* and the best of its side, and the cursor is on the head of its list.
WalkInv ==
  pc = "walk" /\ orders[taker].remaining > 0 =>
    /\ CanReach(at)
    /\ \A p \in DOMAIN ladder[MakerSide] : p = at \/ Better(MakerSide, at, p)
    /\ cur = IF at \in DOMAIN ladder[MakerSide] THEN ladder[MakerSide][at].head ELSE NoOrder

\* The maker that is filled next is the oldest order of the level walked.
LEMMA MakerFacts ==
  ASSUME StructureInv, SweepInv, BookInv, WalkInv, FillMaker
  PROVE  /\ Out = taker /\ taker \in DOMAIN orders /\ cur \in DOMAIN orders \ {taker}
         /\ MakerSide \in Sides /\ at \in DOMAIN ladder[MakerSide]
         /\ cur = ladder[MakerSide][at].head
         /\ cur \in At(orders, taker, MakerSide, at)
         /\ \A j \in At(orders, taker, MakerSide, at) : cur <= j
         /\ orders[cur] \in Order /\ orders[taker] \in Order
         /\ orders[cur].side = MakerSide /\ orders[cur].price = at
         /\ orders[cur].prev = NoOrder
         /\ orders[cur].remaining \in Int /\ orders[cur].remaining > 0
         /\ orders[taker].remaining \in Int /\ orders[taker].remaining > 0
<1>1. /\ pc = "walk" /\ cur \in DOMAIN orders /\ orders[taker].remaining > 0
      /\ cur <= LastLinked /\ cur # taker
  BY BookAssumption DEF FillMaker, StructureInv, IndexInv, CallInv, LastLinked, taker
<1>2. Out = taker /\ taker \in DOMAIN orders /\ NoOrder \notin DOMAIN orders
      /\ MapTyped(orders) /\ LadsTyped(ladder)
  BY <1>1, StructureTyped
<1>3. MakerSide \in Sides
  BY DEF MakerSide, Opposite, Sides
<1>4. at \in DOMAIN ladder[MakerSide] /\ cur = ladder[MakerSide][at].head
  BY <1>1, <1>2 DEF WalkInv
<1> DEFINE R == At(orders, taker, MakerSide, at)
<1>5. LevelSound(ladder[MakerSide][at], orders, R)
  BY <1>2, <1>3, <1>4 DEF BookInv, LevelsSound
<1>6. cur \in R /\ \A j \in R : cur <= j
  BY <1>2, <1>1, <1>4, <1>5 DEF LevelSound, Chained, IsFirst
<1>7. orders[cur].side = MakerSide /\ orders[cur].price = at
  BY <1>6 DEF At
<1>8. IsLast(orders[cur].prev, {j \in R : j < cur})
  BY <1>5, <1>6 DEF LevelSound, Chained
<1>9. orders[cur].prev = NoOrder
  <2>1. \A j \in R : j \in Nat
    BY <1>2, AtFacts DEF Ids
  <2>2. {j \in R : j < cur} = {}
    BY <1>6, <2>1
  <2> QED BY <1>8, <2>2 DEF IsLast
<1>10. orders[cur] \in Order /\ orders[taker] \in Order
  BY <1>1, <1>2 DEF MapTyped
<1>11. Rests(orders[cur], ladder)
  BY <1>1, <1>2 DEF BookInv, LevelsSound
<1> QED BY <1>1, <1>2, <1>3, <1>4, <1>6, <1>7, <1>9, <1>10, <1>11 DEF Rests, Order

\* The orders after the taker's side of a trade, and the whole trade.
Taken(qty) == [orders EXCEPT ![taker] = Filled(@, qty)]
Traded(qty) == [orders EXCEPT ![taker] = Filled(@, qty), ![cur] = Filled(@, qty)]

\* What a fill does when it completes the maker, and when it does not.
LEMMA FillCases ==
  ASSUME StructureInv, SweepInv, BookInv, WalkInv, FillMaker
  PROVE  LET maker == orders[cur]
             qty   == Lesser(orders[taker].remaining, maker.remaining)
             lad   == ladder[MakerSide]
             lvl   == [lad[maker.price] EXCEPT !.total_qty = @ - qty]
         IN  /\ qty \in Int /\ qty > 0 /\ qty <= maker.remaining /\ qty <= orders[taker].remaining
             /\ qty = maker.remaining \/ qty = orders[taker].remaining
             /\ cur' = maker.next
             /\ maker.remaining = qty =>
                  /\ orders' = Erased(UnlinkedOrders(Taken(qty), maker), cur)
                  /\ ladder' = [ladder EXCEPT ![MakerSide] =
                                  StoreLevel(lad, maker.price, UnlinkedLevel(lvl, maker))]
             /\ maker.remaining # qty =>
                  /\ orders' = Traded(qty)
                  /\ ladder' = [ladder EXCEPT ![MakerSide] = [lad EXCEPT ![maker.price] = lvl]]
<1> DEFINE maker == orders[cur]
           qty   == Lesser(orders[taker].remaining, maker.remaining)
           lad   == ladder[MakerSide]
           lvl   == [lad[maker.price] EXCEPT !.total_qty = @ - qty]
<1>1. maker.price \in DOMAIN lad /\ maker.remaining \in Int /\ orders[taker].remaining \in Int
      /\ maker.remaining > 0 /\ orders[taker].remaining > 0
      /\ cur \in DOMAIN orders \ {taker} /\ taker \in DOMAIN orders
  BY MakerFacts
<1>2. /\ qty \in Int /\ qty > 0 /\ qty <= maker.remaining /\ qty <= orders[taker].remaining
      /\ qty = maker.remaining \/ qty = orders[taker].remaining
  BY <1>1 DEF Lesser
<1>3. cur' = maker.next
  BY DEF FillMaker, fill_order
<1>4. ASSUME maker.remaining = qty
      PROVE  /\ orders' = Erased(UnlinkedOrders(Taken(qty), maker), cur)
             /\ ladder' = [ladder EXCEPT ![MakerSide] =
                             StoreLevel(lad, maker.price, UnlinkedLevel(lvl, maker))]
  <2>1. orders' = Erased(UnlinkedOrders(Traded(qty), maker), cur)
    BY <1>1, <1>4 DEF FillMaker, fill_order, Traded
  <2>2. ladder' = [ladder EXCEPT ![MakerSide] =
                     StoreLevel(lad, maker.price, UnlinkedLevel(lvl, maker))]
    BY <1>1, <1>4 DEF FillMaker, fill_order
  <2>3. Erased(UnlinkedOrders(Traded(qty), maker), cur) = Erased(UnlinkedOrders(Taken(qty), maker), cur)
    <3> DEFINE a == UnlinkedOrders(Traded(qty), maker)
               b == UnlinkedOrders(Taken(qty), maker)
    <3>1. /\ DOMAIN Traded(qty) = DOMAIN orders /\ DOMAIN Taken(qty) = DOMAIN orders
          /\ \A i \in DOMAIN orders \ {cur} : Traded(qty)[i] = Taken(qty)[i]
      BY <1>1 DEF Traded, Taken
    <3>2. DOMAIN a = DOMAIN orders /\ DOMAIN b = DOMAIN orders
          /\ \A i \in DOMAIN orders \ {cur} : a[i] = b[i]
      BY <3>1 DEF UnlinkedOrders
    <3> HIDE DEF a, b
    <3>3. Erased(a, cur) = Erased(b, cur)
      BY <3>2 DEF Erased, Restrict
    <3> QED BY <3>3 DEF a, b
  <2> QED BY <2>1, <2>2, <2>3
<1>5. ASSUME maker.remaining # qty
      PROVE  /\ orders' = Traded(qty)
             /\ ladder' = [ladder EXCEPT ![MakerSide] = [lad EXCEPT ![maker.price] = lvl]]
  BY <1>1, <1>5 DEF FillMaker, fill_order, Traded
<1> QED BY <1>2, <1>3, <1>4, <1>5

\* A fill keeps the levels sound.
LEMMA FillLevels ==
  ASSUME StructureInv, SweepInv, BookInv, WalkInv, FillMaker
  PROVE  BookInv'
<1> DEFINE maker == orders[cur]
           qty   == Lesser(orders[taker].remaining, maker.remaining)
           lad   == ladder[MakerSide]
           lvl   == [lad[maker.price] EXCEPT !.total_qty = @ - qty]
<1>1. /\ Out = taker /\ taker \in DOMAIN orders /\ cur \in DOMAIN orders \ {taker}
      /\ maker.side = MakerSide /\ orders[taker] \in Order /\ maker \in Order
      /\ MapTyped(orders) /\ LadsTyped(ladder) /\ LevelsSound(orders, ladder, taker)
  BY MakerFacts, StructureTyped DEF BookInv
<1>2. Out' = taker
  BY DEF FillMaker, Out, taker
<1>3. qty \in Int /\ qty <= maker.remaining /\ maker.remaining \in Int
  BY FillCases, MakerFacts
<1>4. CASE maker.remaining = qty
  <2> DEFINE ords == Taken(qty)
  <2>1. /\ DOMAIN ords = DOMAIN orders
        /\ \A i \in DOMAIN orders \ {taker} : ords[i] = orders[i]
        /\ ords[taker] = Filled(orders[taker], qty)
    BY <1>1 DEF Taken
  <2>2. ords[taker] \in Order
    BY <1>1, <1>3, <2>1, FilledFacts DEF OrderFilled
  <2>3. orders' = Erased(UnlinkedOrders(ords, maker), cur)
        /\ ladder' = [ladder EXCEPT ![MakerSide] =
                        StoreLevel(lad, maker.price, UnlinkedLevel(lvl, maker))]
    BY <1>4, FillCases
  <2> HIDE DEF ords, qty
  <2>4. MapTyped(ords)
    BY <1>1, <2>1, <2>2 DEF MapTyped
  <2>5. LevelsSound(ords, ladder, taker)
    BY <1>1, <2>1, LevelsSame
  <2>6. ords[cur] = maker /\ cur \in DOMAIN ords \ {taker}
    BY <1>1, <2>1
  <2>7. LevelsSound(Erased(UnlinkedOrders(ords, maker), cur),
                    [ladder EXCEPT ![maker.side] =
                       StoreLevel(ladder[maker.side], maker.price,
                         UnlinkedLevel([ladder[maker.side][maker.price] EXCEPT
                                          !.total_qty = @ - maker.remaining], maker))],
                    taker)
    BY <1>1, <2>4, <2>5, <2>6, LevelsUnlinked
  <2> QED BY <1>1, <1>2, <1>4, <2>3, <2>7 DEF BookInv
<1>5. CASE maker.remaining # qty
  <2> DEFINE new == Traded(qty)
  <2>1. /\ DOMAIN new = DOMAIN orders
        /\ \A i \in DOMAIN orders \ {taker, cur} : new[i] = orders[i]
        /\ new[cur] = Filled(maker, qty)
    BY <1>1 DEF Traded
  <2>2. OrderFilled(new[cur], maker) /\ new[cur].remaining = maker.remaining - qty
    <3>1. OrderFilled(Filled(maker, qty), maker)
      BY <1>1, <1>3, FilledFacts
    <3>2. Filled(maker, qty).remaining = maker.remaining - qty
      <4> HIDE DEF qty
      <4> QED BY <1>1 DEF Filled, Order
    <3> QED BY <2>1, <3>1, <3>2
  <2>3. orders' = new
        /\ ladder' = [ladder EXCEPT ![MakerSide] = [lad EXCEPT ![maker.price] = lvl]]
    BY <1>5, FillCases
  <2>4. qty < maker.remaining
    BY <1>3, <1>5
  <2> HIDE DEF new, qty
  <2>5. LevelsSound(new, [ladder EXCEPT ![maker.side] =
                            [ladder[maker.side] EXCEPT ![maker.price] =
                               [ladder[maker.side][maker.price] EXCEPT !.total_qty = @ - qty]]], taker)
    BY <1>1, <1>3, <2>1, <2>2, <2>4, LevelsPartlyFilled
  <2> QED BY <1>1, <1>2, <2>3, <2>5 DEF BookInv
<1> QED BY <1>4, <1>5

-----------------------------------------------------------------------------
(* Every step keeps the levels sound *)

\* A book whose ladders, orders and order in flight stay as they are.
LEMMA QuietLevels ==
  ASSUME BookInv, UNCHANGED <<orders, ladder>>, Out' = Out
  PROVE  BookInv'
BY DEF BookInv

\* Ladders that hold the same levels at the same prices.
LEMMA SameLadders ==
  ASSUME NEW ords, MapTyped(ords), NEW lads, NEW out, LevelsSound(ords, lads, out), NEW lds,
         \A s \in Sides : /\ DOMAIN lds[s] = DOMAIN lads[s]
                         /\ \A q \in DOMAIN lads[s] : lds[s][q] = lads[s][q]
  PROVE  LevelsSound(ords, lds, out)
<1>1. \A i \in DOMAIN ords \ {out} : Rests(ords[i], lds)
  BY DEF LevelsSound, Rests, MapTyped, Order
<1>2. \A s \in Sides : \A q \in DOMAIN lds[s] : LevelSound(lds[s][q], ords, At(ords, out, s, q))
  BY DEF LevelsSound
<1> QED BY <1>1, <1>2 DEF LevelsSound

\* Withdrawing an order, in cancel_order and modify_order.
LEMMA WithdrawLevels ==
  ASSUME StructureInv, BookInv, pc = "idle", pc' \in {"idle", "add"},
         NEW id \in DOMAIN orders, Withdraw(id)
  PROVE  BookInv'
<1> DEFINE o == orders[id]
<1>1. /\ Out = NoOrder /\ Out' = NoOrder /\ MapTyped(orders) /\ LadsTyped(ladder)
      /\ id \in DOMAIN orders \ {NoOrder} /\ LevelsSound(orders, ladder, NoOrder)
  BY StructureTyped DEF BookInv, Out
<1>2. /\ o.price \in DOMAIN ladder[o.side]
      /\ LevelsSound(Erased(UnlinkedOrders(orders, o), id),
                     [ladder EXCEPT ![o.side] =
                        StoreLevel(ladder[o.side], o.price,
                          UnlinkedLevel([ladder[o.side][o.price] EXCEPT
                                           !.total_qty = @ - o.remaining], o))],
                     NoOrder)
  BY <1>1, LevelsUnlinked
<1>3. /\ orders' = Erased(UnlinkedOrders(orders, o), id)
      /\ ladder' = [ladder EXCEPT ![o.side] =
                        StoreLevel(ladder[o.side], o.price,
                          UnlinkedLevel([ladder[o.side][o.price] EXCEPT
                                           !.total_qty = @ - o.remaining], o))]
  BY <1>2 DEF Withdraw
<1> QED BY <1>1, <1>2, <1>3 DEF BookInv

\* clear leaves no order and no level.
LEMMA ClearLevels ==
  ASSUME clear
  PROVE  BookInv'
<1>1. orders' = << >> /\ DOMAIN orders' = {}
  BY DEF clear
<1>2. ladder' = [side \in Sides |-> << >>]
  BY DEF clear
<1>3. \A side \in Sides : DOMAIN ladder'[side] = {}
  BY <1>2
<1> QED BY <1>1, <1>3 DEF BookInv, LevelsSound

\* An order that is admitted rests nowhere yet.
LEMMA AdmitLevels ==
  ASSUME StructureInv, BookInv, AdmitOrder
  PROVE  BookInv'
<1> DEFINE id == order_id_seq + 1
<1>1. /\ Out = NoOrder /\ Out' = id /\ MapTyped(orders) /\ LevelsSound(orders, ladder, NoOrder)
      /\ NoOrder \notin DOMAIN orders /\ id \notin DOMAIN orders
  BY StructureTyped DEF AdmitOrder, BookInv, Out, taker
<1>2. DOMAIN orders' = DOMAIN orders \cup {id} /\ \A i \in DOMAIN orders : orders'[i] = orders[i]
  BY <1>1 DEF AdmitOrder
<1>3. ladder' = ladder
  BY DEF AdmitOrder
<1> HIDE DEF id
<1>4. LevelsSound(orders', ladder, id)
  BY <1>1, <1>2, LevelsSame
<1> QED BY <1>1, <1>3, <1>4 DEF BookInv

\* An order that is retired was in no level.
LEMMA RetireLevels ==
  ASSUME StructureInv, BookInv, pc = "finish", RetireTaker, Return
  PROVE  BookInv'
<1>1. /\ Out = taker /\ Out' = NoOrder /\ MapTyped(orders) /\ LevelsSound(orders, ladder, taker)
      /\ NoOrder \notin DOMAIN orders
  BY StructureTyped DEF BookInv, Out, Return
<1>2. /\ DOMAIN orders' = DOMAIN orders \ {taker}
      /\ \A i \in DOMAIN orders \ {taker} : orders'[i] = orders[i]
  BY ErasedFacts DEF RetireTaker
<1>3. LevelsSound(orders', ladder, NoOrder)
  BY <1>1, <1>2, LevelsSame
<1> QED BY <1>1, <1>3 DEF BookInv, RetireTaker

\* The clean-up after a walk finds no level without orders, so it removes none.
LEMMA LeaveLevels ==
  ASSUME StructureInv, BookInv, LeaveLevel
  PROVE  BookInv'
<1>1. PICK p : ladder' = IF p \in DOMAIN ladder[MakerSide]
                         THEN [ladder EXCEPT ![MakerSide] = StoreLevel(@, p, @[p])]
                         ELSE ladder
  BY DEF LeaveLevel
<1>2. Out' = Out /\ UNCHANGED orders
  BY DEF LeaveLevel, Out, taker
<1>3. MapTyped(orders) /\ LadsTyped(ladder) /\ MakerSide \in Sides
  BY StructureTyped DEF MakerSide, Opposite, Sides
<1>4. CASE p \in DOMAIN ladder[MakerSide]
  <2> DEFINE R == At(orders, Out, MakerSide, p)
  <2>1. LevelSound(ladder[MakerSide][p], orders, R)
    BY <1>3, <1>4 DEF BookInv, LevelsSound
  <2>2. IsFiniteSet(R)
    BY <1>3, AtFacts
  <2> HIDE DEF R
  <2>3. ladder[MakerSide][p].order_count # 0
    BY <2>1, <2>2, FS_EmptySet DEF LevelSound, Counted
  <2>4. ladder' = [ladder EXCEPT ![MakerSide] =
                     [ladder[MakerSide] EXCEPT ![p] = ladder[MakerSide][p]]]
    BY <1>1, <1>4, <2>3 DEF StoreLevel
  <2>5. \A s \in Sides : /\ DOMAIN ladder'[s] = DOMAIN ladder[s]
                        /\ \A q \in DOMAIN ladder[s] : ladder'[s][q] = ladder[s][q]
    BY <1>3, <1>4, <2>4 DEF LadsTyped
  <2> QED BY <1>2, <1>3, <2>5, SameLadders DEF BookInv
<1>5. CASE p \notin DOMAIN ladder[MakerSide]
  BY <1>1, <1>2, <1>5, QuietLevels
<1> QED BY <1>4, <1>5

\* An order that rests is the newest of the book.
LEMMA RestLevels ==
  ASSUME StructureInv, SweepInv, BookInv, RestTaker
  PROVE  BookInv'
<1> DEFINE o   == orders[taker]
           lvl == LevelAt(ladder[o.side], o.price)
<1>1. /\ Out = taker /\ Out' = NoOrder /\ MapTyped(orders) /\ LadsTyped(ladder)
      /\ LevelsSound(orders, ladder, taker) /\ taker \in DOMAIN orders
      /\ \A i \in DOMAIN orders \ {taker} : i < taker
  BY StructureTyped DEF RestTaker, BookInv, Out, Return, taker
<1>2. o \in Order /\ o.side \in Sides /\ o.type = "LIMIT" /\ o.remaining > 0
  BY <1>1 DEF MapTyped, Order, RestTaker, SweepInv, StructureInv, CallInv, TakerMatchesCall
<1>3. orders' = [i \in DOMAIN orders |->
                   IF i = taker THEN [o EXCEPT !.prev = lvl.tail, !.next = NoOrder]
                   ELSE IF i = lvl.tail THEN [orders[i] EXCEPT !.next = taker]
                   ELSE orders[i]]
  BY DEF RestTaker
<1>4. ladder' = [ladder EXCEPT ![o.side] =
                   [p \in DOMAIN @ \cup {o.price} |->
                      IF p = o.price THEN AppendedLevel(lvl, taker, o) ELSE @[p]]]
  BY DEF RestTaker
<1>5. /\ DOMAIN orders' = DOMAIN orders
      /\ \A i \in DOMAIN orders : SameButLinks(orders'[i], orders[i])
      /\ orders'[taker].prev = lvl.tail /\ orders'[taker].next = NoOrder
      /\ \A i \in DOMAIN orders \ {taker} :
           /\ orders'[i].prev = orders[i].prev
           /\ orders'[i].next = IF i = lvl.tail THEN taker ELSE orders[i].next
  <2> HIDE DEF lvl
  <2> QED BY <1>1, <1>3 DEF MapTyped, Order, SameButLinks
<1>6. /\ DOMAIN ladder' = Sides
      /\ \A s \in Sides \ {o.side} : ladder'[s] = ladder[s]
      /\ DOMAIN ladder'[o.side] = DOMAIN ladder[o.side] \cup {o.price}
      /\ ladder'[o.side][o.price] = AppendedLevel(lvl, taker, o)
      /\ \A p \in DOMAIN ladder[o.side] \ {o.price} : ladder'[o.side][p] = ladder[o.side][p]
  <2> DEFINE app == AppendedLevel(lvl, taker, o)
  <2>1. ladder' = [ladder EXCEPT ![o.side] =
                     [p \in DOMAIN @ \cup {o.price} |-> IF p = o.price THEN app ELSE @[p]]]
    BY <1>4
  <2> HIDE DEF app, o
  <2>2. /\ DOMAIN ladder' = Sides
        /\ \A s \in Sides \ {o.side} : ladder'[s] = ladder[s]
        /\ DOMAIN ladder'[o.side] = DOMAIN ladder[o.side] \cup {o.price}
        /\ ladder'[o.side][o.price] = app
        /\ \A p \in DOMAIN ladder[o.side] \ {o.price} : ladder'[o.side][p] = ladder[o.side][p]
    BY <1>1, <1>2, <2>1 DEF LadsTyped
  <2> QED BY <2>2 DEF app
<1> HIDE DEF lvl
<1>7. LevelsSound(orders', ladder', NoOrder)
  <2>1. lvl = LevelAt(ladder[orders[taker].side], orders[taker].price)
    BY DEF lvl
  <2> QED BY <1>1, <1>2, <1>5, <1>6, <2>1, LevelsRested
<1> QED BY <1>1, <1>7 DEF BookInv

\* Every step of the book keeps its levels sound.
LEMMA StepLevels ==
  ASSUME RestingTypes, StructureInv, SweepInv, BookInv, WalkInv, Next
  PROVE  BookInv'
<1>1. CASE CallStart
  <2>1. ASSUME UNCHANGED <<orders, ladder>>, pc = "idle", pc' = "add" PROVE BookInv'
    BY <2>1, QuietLevels DEF Out
  <2>2. ASSUME NEW id \in DOMAIN orders, cancel_order(id) PROVE BookInv'
    BY <2>2, WithdrawLevels DEF cancel_order
  <2>3. ASSUME NEW id \in DOMAIN orders, NEW price \in Prices, NEW qty \in Quantities,
               modify_order(id, price, qty)
        PROVE  BookInv'
    BY <2>1, <2>3, WithdrawLevels DEF modify_order
  <2> QED BY <1>1, <2>1, <2>2, <2>3, ClearLevels DEF CallStart, add_order, bookVars
<1>2. CASE RejectOrder \/ KillOrder
  <2>1. UNCHANGED <<orders, ladder>> /\ Out = NoOrder /\ Out' = NoOrder
    BY <1>2 DEF RejectOrder, KillOrder, Out, Return, bookVars
  <2> QED BY <2>1, QuietLevels
<1>3. CASE EnterLevel \/ EndSweep
  <2>1. UNCHANGED <<orders, ladder>> /\ Out' = Out
    BY <1>3 DEF EnterLevel, EndSweep, Out, taker, bookVars
  <2> QED BY <2>1, QuietLevels
<1>4. CASE CompleteTaker
  BY <1>4, RetireLevels DEF CompleteTaker
<1>5. CASE RefusePostOnly \/ AbandonTaker
  <2>1. call.type \in OrderTypes
    BY <1>5 DEF RefusePostOnly, AbandonTaker, StructureInv, CallInv, Call
  <2>2. call.type \in {"MARKET", "POST_ONLY"}
    BY <1>5 DEF RefusePostOnly, AbandonTaker
  <2> QED BY <2>1, <2>2 DEF RestingTypes
<1> QED
  BY <1>1, <1>2, <1>3, <1>4, <1>5, AdmitLevels, FillLevels, LeaveLevels, RestLevels
  DEF Next, CallStep

\* Entering a level puts the cursor on its head.
LEMMA EnterWalk ==
  ASSUME StructureInv, EnterLevel
  PROVE  WalkInv'
<1>1. PICK p \in DOMAIN ladder[MakerSide] :
        /\ IsBest(MakerSide, ladder[MakerSide], p) /\ CanReach(p)
        /\ at' = p /\ cur' = ladder[MakerSide][p].head
  BY DEF EnterLevel
<1>2. UNCHANGED <<orders, ladder, order_id_seq>>
  BY DEF EnterLevel, bookVars
<1> QED BY <1>1, <1>2 DEF WalkInv, MakerSide, CanReach, taker, IsBest

\* What a fill does to the taker.
LEMMA TakerFilled ==
  ASSUME StructureInv, SweepInv, BookInv, WalkInv, FillMaker
  PROVE  LET qty == Lesser(orders[taker].remaining, orders[cur].remaining)
         IN  /\ taker' = taker /\ taker \in DOMAIN orders'
             /\ orders'[taker].side = orders[taker].side
             /\ orders'[taker].type = orders[taker].type
             /\ orders'[taker].price = orders[taker].price
             /\ orders'[taker].remaining = orders[taker].remaining - qty
<1> DEFINE maker == orders[cur]
           qty == Lesser(orders[taker].remaining, maker.remaining)
           new == Filled(orders[taker], qty)
<1>1. /\ taker \in DOMAIN orders /\ cur \in DOMAIN orders \ {taker} /\ orders[taker] \in Order
      /\ MapTyped(orders) /\ maker \in Order
  BY MakerFacts, StructureTyped
<1>2. qty \in Int
  BY FillCases
<1>3. OrderFilled(new, orders[taker])
  BY <1>1, <1>2, FilledFacts
<1>4. new.remaining = orders[taker].remaining - qty
  <2> HIDE DEF qty
  <2> QED BY <1>1 DEF Filled, Order
<1>5. taker' = taker
  BY DEF FillMaker, taker
<1>6. taker \in DOMAIN orders' /\ SameButLinks(orders'[taker], new)
  <2>1. CASE maker.remaining = qty
    <3> DEFINE ords == Taken(qty)
    <3>1. DOMAIN ords = DOMAIN orders /\ ords[taker] = new /\ ords[cur] = maker
          /\ \A i \in DOMAIN orders \ {taker} : ords[i] = orders[i]
      BY <1>1 DEF Taken
    <3>2. orders' = Erased(UnlinkedOrders(ords, maker), cur)
      BY <2>1, FillCases
    <3> HIDE DEF ords, new, qty
    <3>3. MapTyped(ords)
      BY <1>1, <1>3, <3>1 DEF MapTyped, OrderFilled
    <3>5. orders' = Erased(UnlinkedOrders(ords, ords[cur]), cur) /\ cur \in DOMAIN ords
      BY <1>1, <3>1, <3>2
    <3>6. /\ DOMAIN orders' = DOMAIN ords \ {cur}
          /\ \A i \in DOMAIN orders' : SameButLinks(orders'[i], ords[i])
      BY <3>3, <3>5, LeftOrders
    <3>4. taker \in DOMAIN orders' /\ SameButLinks(orders'[taker], ords[taker])
      BY <1>1, <3>1, <3>6
    <3> QED BY <3>1, <3>4
  <2>2. CASE maker.remaining # qty
    <3>1. orders' = Traded(qty)
      BY <2>2, FillCases
    <3>2. DOMAIN orders' = DOMAIN orders /\ orders'[taker] = new
      <4> HIDE DEF qty
      <4> QED BY <1>1, <3>1 DEF Traded
    <3> QED BY <1>1, <3>2 DEF SameButLinks
  <2> QED BY <2>1, <2>2
<1> QED BY <1>3, <1>4, <1>5, <1>6 DEF SameButLinks, OrderFilled

\* A fill that leaves something of the taker has completed the maker: the
\* cursor moves to the new head, or the level is gone.
LEMMA FillWalk ==
  ASSUME StructureInv, SweepInv, BookInv, WalkInv, FillMaker
  PROVE  WalkInv'
<1> DEFINE maker == orders[cur]
           qty   == Lesser(orders[taker].remaining, maker.remaining)
           lad   == ladder[MakerSide]
           lvl   == [lad[at] EXCEPT !.total_qty = @ - qty]
           left  == UnlinkedLevel(lvl, maker)
<1> SUFFICES ASSUME orders'[taker'].remaining > 0 PROVE WalkInv'
  BY DEF WalkInv
<1>1. /\ at \in DOMAIN lad /\ cur = lad[at].head /\ maker.price = at /\ maker.prev = NoOrder
      /\ MakerSide \in Sides /\ orders[taker].remaining \in Int /\ maker.remaining \in Int
      /\ orders[taker].remaining > 0 /\ LadsTyped(ladder) /\ MapTyped(orders) /\ Out = taker
      /\ cur \in At(orders, taker, MakerSide, at)
  BY MakerFacts, StructureTyped
<1>2. /\ MakerSide' = MakerSide /\ taker' = taker /\ at' = at
      /\ \A p : CanReach(p)' <=> CanReach(p)
      /\ orders'[taker].remaining = orders[taker].remaining - qty
  BY TakerFilled DEF MakerSide, CanReach, FillMaker
<1>3. qty # orders[taker].remaining
  BY <1>1, <1>2
<1>4. qty = maker.remaining
  BY <1>3, FillCases
<1>5. ladder' = [ladder EXCEPT ![MakerSide] = StoreLevel(lad, at, left)] /\ cur' = maker.next
  BY <1>1, <1>4, FillCases
<1>6. ladder'[MakerSide] = StoreLevel(lad, at, left)
  BY <1>1, <1>5 DEF LadsTyped
<1>7. /\ CanReach(at)'
      /\ \A p \in DOMAIN ladder'[MakerSide] : p = at \/ Better(MakerSide, at, p)
  <2>1. DOMAIN ladder'[MakerSide] \subseteq DOMAIN lad
    BY <1>1, <1>6, StoreLevelFacts
  <2>2. CanReach(at) /\ \A p \in DOMAIN lad : p = at \/ Better(MakerSide, at, p)
    BY <1>1 DEF WalkInv, FillMaker
  <2> QED BY <1>2, <2>1, <2>2
<1>8. cur' = IF at \in DOMAIN ladder'[MakerSide] THEN ladder'[MakerSide][at].head ELSE NoOrder
  <2> DEFINE R == At(orders, taker, MakerSide, at)
  <2>1. LevelSound(lad[at], orders, R) /\ IsFiniteSet(R)
    BY <1>1, AtFacts DEF BookInv, LevelsSound
  <2>2. left.head = maker.next
    BY <1>1 DEF UnlinkedLevel
  <2>3. at \in DOMAIN ladder'[MakerSide] => ladder'[MakerSide][at] = left
    BY <1>1, <1>6, StoreLevelFacts
  <2>4. ASSUME at \notin DOMAIN ladder'[MakerSide] PROVE maker.next = NoOrder
    <3>1. left.order_count = 0
      BY <1>1, <1>6, <2>4 DEF StoreLevel
    <3>2. lad[at].order_count = Cardinality(R) /\ Cardinality(R) \in Nat
      BY <2>1, FS_CardinalityType DEF LevelSound, Counted
    <3>3. lvl.order_count = lad[at].order_count
      <4> HIDE DEF qty
      <4> QED BY <1>1 DEF LadsTyped, PriceLevel
    <3>4. Cardinality(R) - 1 <= 0
      BY <3>1, <3>2, <3>3 DEF UnlinkedLevel
    <3> HIDE DEF R
    <3>5. Cardinality(R) # 0
      BY <2>1, FS_EmptySet DEF LevelSound
    <3>6. Cardinality(R) = 1
      BY <3>2, <3>4, <3>5
    <3>7. R = {cur}
      BY <1>1, <2>1, <3>6, FS_Singleton DEF R
    <3>8. IsFirst(maker.next, {j \in R : j > cur})
      BY <2>1, <3>7 DEF LevelSound, Chained
    <3>9. cur \in Nat
      BY <1>1, <2>1, <3>7 DEF R, At, MapTyped, Ids
    <3> QED BY <3>7, <3>8, <3>9 DEF IsFirst
  <2> QED BY <1>5, <2>2, <2>3, <2>4
<1> QED BY <1>2, <1>7, <1>8 DEF WalkInv

\* Every step keeps what is known of the walk.
LEMMA StepWalk ==
  ASSUME StructureInv, SweepInv, BookInv, WalkInv, Next
  PROVE  WalkInv'
<1>1. CASE pc' # "walk"
  BY <1>1 DEF WalkInv
<1> QED
  BY <1>1, EnterWalk, FillWalk
  DEF Next, CallStart, CallStep, add_order, cancel_order, modify_order, clear, callVars,
      RejectOrder, KillOrder, AdmitOrder, EndSweep, LeaveLevel, RefusePostOnly, CompleteTaker,
      RestTaker, AbandonTaker, Return

LevelInv == StructureInv /\ NotCrossed /\ SweepInv /\ BookInv /\ WalkInv

\* Where LIMIT, IOC and FOK orders are submitted, the levels are sound in
\* every reachable state.
THEOREM LevelsHold ==
  ASSUME RestingTypes
  PROVE  Spec => []LevelInv
<1>1. Init => LevelInv
  <2> SUFFICES ASSUME Init PROVE LevelInv
    OBVIOUS
  <2>1. DOMAIN orders = {} /\ \A side \in Sides : DOMAIN ladder[side] = {}
    BY DEF Init
  <2> QED BY <2>1, InitStructure DEF Init, LevelInv, SweepInv, WalkInv, BookInv, LevelsSound,
                                     NotCrossed, Sides
<1>2. ASSUME LevelInv, [Next]_vars PROVE LevelInv'
  <2>1. CASE Next
    BY <1>2, <2>1, StepStructure, StepSweep, RestStaysUncrossed, OnlyRestAddsPrices,
       ShrinkingStaysUncrossed, StepLevels, StepWalk DEF LevelInv, CrossInv
  <2>2. CASE UNCHANGED vars
    <3>1. StructureInv'
      BY <1>2, <2>2, StructureStutters DEF LevelInv
    <3>2. UNCHANGED <<orders, ladder, order_id_seq, pc, at, cur>>
      BY <2>2 DEF vars, bookVars, callVars
    <3> QED BY <1>2, <3>1, <3>2 DEF LevelInv, NotCrossed, SweepInv, WalkInv, BookInv, Out, taker, MakerSide,
                            CanReach
  <2> QED BY <1>2, <2>1, <2>2
<1> QED BY <1>1, <1>2, PTL DEF Spec

\* The list of every level is its resting orders in order of arrival, and no
\* level is empty: whatever fills, cancels and sweeps unlink, no order is lost
\* and the clean-up that reads a freed node finds nothing to remove.
THEOREM ListsAreOrders ==
  ASSUME RestingTypes
  PROVE  Spec => []LevelsListOrders
<1>1. LevelInv => LevelsListOrders
  BY SoundListsOrders DEF LevelInv
<1> QED BY <1>1, LevelsHold, PTL

\* price_level.hpp: total_qty is the sum of all resting Order::remaining.
THEOREM TotalsAreSums ==
  ASSUME RestingTypes
  PROVE  Spec => []LevelTotals
<1>1. LevelInv => LevelTotals
  BY SoundTotals DEF LevelInv
<1> QED BY <1>1, LevelsHold, PTL

-----------------------------------------------------------------------------
(* The matching engine's view of the book *)

Resting ==
  {[id |-> i, side |-> orders[i].side, price |-> orders[i].price,
    remaining |-> orders[i].remaining] : i \in RestingIds}

Active ==
  {[id |-> i, side |-> orders[i].side, type |-> orders[i].type,
    price |-> orders[i].price, remaining |-> orders[i].remaining] :
     i \in {j \in DOMAIN orders : InFlight(j)}}

\* The engine's records of order i of a map, resting and active.
Rest(ords, i) ==
  [id |-> i, side |-> ords[i].side, price |-> ords[i].price, remaining |-> ords[i].remaining]

Act(ords, i) ==
  [id |-> i, side |-> ords[i].side, type |-> ords[i].type,
   price |-> ords[i].price, remaining |-> ords[i].remaining]

RestSet(ords, S) == {Rest(ords, i) : i \in S}

\* The engine sees the orders of the map, the one in flight apart.
SeenByEngine ==
  /\ Resting = RestSet(orders, DOMAIN orders \ {Out})
  /\ Active = IF pc \in {"sweep", "walk", "finish"} THEN {Act(orders, taker)} ELSE {}

\* The engine is shown all orders of the map: those that rest, and the one that
\* add_order is sweeping with.
LEMMA EngineView ==
  ASSUME RestingTypes
  PROVE  StructureInv /\ BookInv => SeenByEngine
<1> SUFFICES ASSUME StructureInv, BookInv PROVE SeenByEngine
  OBVIOUS
<1>1. RestingIds = DOMAIN orders \ {Out}
  BY RestingIsAt
<1>2. \A j : InFlight(j) <=> pc \in {"sweep", "walk", "finish"} /\ j = taker
  BY DEF InFlight
<1>3. pc \in {"sweep", "walk", "finish"} => taker \in DOMAIN orders
  BY StructureTyped
<1>4. {j \in DOMAIN orders : InFlight(j)} = IF pc \in {"sweep", "walk", "finish"} THEN {taker} ELSE {}
  BY <1>2, <1>3
<1>5. Resting = RestSet(orders, DOMAIN orders \ {Out})
  BY <1>1 DEF Resting, RestSet, Rest
<1>6. Active = IF pc \in {"sweep", "walk", "finish"} THEN {Act(orders, taker)} ELSE {}
  BY <1>4 DEF Active, Act
<1> QED BY <1>5, <1>6 DEF SeenByEngine

\* The same of the state after a step.
LEMMA EngineViewNext ==
  ASSUME RestingTypes
  PROVE  (StructureInv /\ BookInv => SeenByEngine)'
<1>1. StructureInv /\ BookInv => SeenByEngine
  BY EngineView
<1> QED BY <1>1, PTL

\* The depth of a set of resting orders is the sum over their ids.
LEMMA DepthIsSum ==
  ASSUME NEW ords, MapTyped(ords), NEW S \in SUBSET DOMAIN ords
  PROVE  Engine!Depth(RestSet(ords, S)) = SumFunctionOnSet(Remaining(ords), S)
<1> DEFINE all == RestSet(ords, S)
           qty == [r \in all |-> r.remaining]
           h   == [i \in S |-> Rest(ords, i)]
<1>1. Engine!Depth(all) = SumFunctionOnSet(qty, all)
  BY DEF Engine!Depth, Engine!SumFunction, Engine!SumFunctionOnSet, Engine!FoldFunctionOnSet,
         Engine!MapThenFoldSet, SumFunctionOnSet, FoldFunctionOnSet, MapThenFoldSet
<1>2. IsFiniteSet(S)
  BY FS_Subset DEF MapTyped, Ids
<1>3. all = {h[i] : i \in S}
  BY DEF RestSet
<1>4. \A i, j \in S : h[i] = h[j] => i = j
  BY DEF Rest
<1>5. \A i \in S : qty[h[i]] \in Int /\ Remaining(ords)[i] = qty[h[i]]
  <2> SUFFICES ASSUME NEW i \in S
               PROVE  qty[h[i]] \in Int /\ Remaining(ords)[i] = qty[h[i]]
    OBVIOUS
  <2>1. h[i] \in all /\ h[i].remaining = ords[i].remaining
    BY <1>3 DEF Rest
  <2>2. ords[i].remaining \in Int /\ Remaining(ords)[i] = ords[i].remaining
    BY DEF MapTyped, Order, Remaining
  <2> QED BY <2>1, <2>2
<1> HIDE DEF all, qty, h
<1>6. SumFunctionOnSet(qty, {h[i] : i \in S}) = SumFunctionOnSet(Remaining(ords), S)
  BY <1>2, <1>4, <1>5, SumRenamed
<1> QED BY <1>1, <1>3, <1>6 DEF all

-----------------------------------------------------------------------------
(* Fill or kill: what the depth check promises *)

\* The orders that a taker of this side and limit may trade with.
Within(ords, out, side, limit) ==
  {i \in DOMAIN ords \ {out} : ords[i].side = Opposite(side) /\ Reaches(side, limit, ords[i].price)}

\* They are the ones that the engine matches with.
LEMMA MatchableIsWithin ==
  ASSUME NEW ords, MapTyped(ords), NEW out, NEW o, o.side \in Sides
  PROVE  Engine!Matchable(o, RestSet(ords, DOMAIN ords \ {out}))
           = RestSet(ords, Within(ords, out, o.side, o.price))
<1>1. \A i \in DOMAIN ords : ords[i].side \in Sides
  BY DEF MapTyped, Order
<1>2. \A i \in DOMAIN ords : (ords[i].side # o.side) <=> (ords[i].side = Opposite(o.side))
  BY <1>1 DEF Opposite, Sides
<1>3. \A i : Rest(ords, i).side = ords[i].side /\ Rest(ords, i).price = ords[i].price
  BY DEF Rest
<1>4. \A p : Engine!Crosses(o.side, o.price, p) <=> Reaches(o.side, o.price, p)
  BY DEF Engine!Crosses, Reaches
<1> QED BY <1>2, <1>3, <1>4 DEF Engine!Matchable, RestSet, Within

\* The depth that can_fill_fok adds up is resting with orders within the limit.
LEMMA CanFillMeans ==
  ASSUME StructureInv, BookInv, pc = "add", can_fill_fok
  PROVE  call.qty <= SumFunctionOnSet(Remaining(orders),
                                      Within(orders, NoOrder, call.side, LimitPrice))
<1> DEFINE opp   == Opposite(call.side)
           lad   == ladder[opp]
           limit == LimitPrice
           f     == Remaining(orders)
           All   == Within(orders, NoOrder, call.side, limit)
<1>1. PICK p \in DOMAIN lad :
        /\ Reaches(call.side, limit, p)
        /\ SumFunctionOnSet(LevelTotalsOf(opp), {q \in DOMAIN lad : q = p \/ Better(opp, q, p)})
             >= call.qty
  BY DEF can_fill_fok
<1> DEFINE W     == {q \in DOMAIN lad : q = p \/ Better(opp, q, p)}
           t     == LevelTotalsOf(opp)
           group == [q \in W |-> At(orders, NoOrder, opp, q)]
<1>2. /\ opp \in Sides /\ Out = NoOrder /\ MapTyped(orders) /\ LadsTyped(ladder)
      /\ call.side \in Sides /\ call.qty \in Int /\ limit \in Int
      /\ \A q \in DOMAIN lad : q \in Int
  <2>1. call \in Call /\ opp \in Sides
    BY DEF StructureInv, CallInv, Opposite, Sides
  <2>2. \A q \in DOMAIN lad : q \in Int
    BY <2>1, BookAssumption DEF StructureInv, IndexInv, LaddersTyped
  <2>3. call.side \in Sides /\ call.qty \in Int /\ limit \in Int
    BY <2>1, BookAssumption DEF Call, LimitPrice
  <2> QED BY <2>1, <2>2, <2>3, StructureTyped
<1>3. \A q \in W : Reaches(call.side, limit, q)
  <2>1. p \in Int /\ \A q \in W : q \in Int
    BY <1>2
  <2>2. CASE call.side = "BUY"
    BY <1>1, <1>2, <2>1, <2>2 DEF Reaches, Better, Opposite
  <2>3. CASE call.side = "SELL"
    BY <1>1, <1>2, <2>1, <2>3 DEF Reaches, Better, Opposite
  <2> QED BY <1>2, <2>2, <2>3 DEF Sides
<1>4. \A i \in DOMAIN orders : f[i] = orders[i].remaining /\ f[i] \in Int
  BY <1>2 DEF MapTyped, Order, Remaining
<1>5. ASSUME NEW q \in W
      PROVE  /\ LevelSound(lad[q], orders, group[q])
             /\ IsFiniteSet(group[q]) /\ group[q] \subseteq DOMAIN orders
             /\ group[q] = At(orders, NoOrder, opp, q)
             /\ group[q] # {}
  <2>1. group[q] = At(orders, NoOrder, opp, q) /\ q \in DOMAIN lad
    OBVIOUS
  <2> HIDE DEF group, W
  <2>2. LevelSound(lad[q], orders, group[q])
    BY <1>2, <2>1 DEF BookInv, LevelsSound
  <2> QED BY <1>2, <2>1, <2>2, AtFacts DEF LevelSound
<1>6. IsFiniteSet(W)
  <2> DEFINE S == {i \in DOMAIN orders : orders[i].price \in W}
             g == [i \in S |-> orders[i].price]
  <2>1. IsFiniteSet(S)
    BY <1>2, FS_Subset DEF MapTyped, Ids
  <2>2. ASSUME NEW q \in W PROVE \E i \in S : g[i] = q
    <3>1. PICK i \in group[q] : TRUE
      BY <1>5
    <3>2. i \in DOMAIN orders /\ orders[i].price = q
      BY <1>5, <3>1 DEF At
    <3> QED BY <3>2
  <2>3. g \in Surjection(S, W)
    <3> HIDE DEF W
    <3> QED BY <2>2 DEF Surjection
  <2> QED BY <2>1, <2>3, FS_Surjection
<1>7. ASSUME NEW q \in W
      PROVE  /\ t[q] = SumFunctionOnSet(f, group[q])
             /\ \A x \in group[q] : f[x] \in Int
             /\ \A r \in W : r # q => group[q] \cap group[r] = {}
  <2>1. t[q] = lad[q].total_qty
    BY DEF LevelTotalsOf
  <2>2. \A r \in W : r # q => group[q] \cap group[r] = {}
    BY <1>5 DEF At
  <2> QED BY <1>4, <1>5, <2>1, <2>2 DEF LevelSound, Counted
<1> DEFINE Sum == UNION {group[q] : q \in W}
<1>8. SumFunctionOnSet(t, W) = SumFunctionOnSet(f, Sum)
  <2> HIDE DEF t, W, f, group
  <2> QED BY <1>5, <1>6, <1>7, SumGrouped
<1>9. Sum \subseteq All
  <2> SUFFICES ASSUME NEW q \in W, NEW i \in group[q] PROVE i \in All
    OBVIOUS
  <2>1. i \in DOMAIN orders \ {NoOrder} /\ orders[i].side = opp /\ orders[i].price = q
    BY <1>5 DEF At
  <2> QED BY <1>3, <2>1 DEF Within
<1>10. IsFiniteSet(All) /\ All \subseteq DOMAIN orders \ {NoOrder}
  <2>1. All \subseteq DOMAIN orders \ {NoOrder}
    BY DEF Within
  <2>2. All \subseteq DOMAIN orders
    BY <2>1
  <2> QED BY <1>2, <2>1, <2>2, FS_Subset DEF MapTyped, Ids
<1>11. \A x \in All : f[x] \in Nat
  <2>1. \A x \in All : Rests(orders[x], ladder)
    BY <1>2, <1>10 DEF BookInv, LevelsSound
  <2> QED BY <1>4, <1>10, <2>1 DEF Rests
<1>12. SumFunctionOnSet(f, Sum) <= SumFunctionOnSet(f, All)
  <2> HIDE DEF Sum, All, f
  <2> QED BY <1>9, <1>10, <1>11, SumGrows
<1>13. SumFunctionOnSet(f, Sum) \in Int /\ SumFunctionOnSet(f, All) \in Int
  <2>1. IsFiniteSet(Sum) /\ \A x \in Sum : f[x] \in Int
    BY <1>9, <1>10, <1>11, FS_Subset
  <2> HIDE DEF Sum, All, f
  <2> QED BY <1>10, <1>11, <2>1, SumType
<1>14. SumFunctionOnSet(t, W) >= call.qty
  BY <1>1
<1> HIDE DEF Sum, All, f, t, W
<1>15. call.qty <= SumFunctionOnSet(f, All)
  BY <1>2, <1>8, <1>12, <1>13, <1>14
<1> QED BY <1>15 DEF All, f

\* The orders within the limit of the one being added add up to its quantity
\* for as long as a fill-or-kill order is matched.
FokInv ==
  pc \in {"sweep", "walk", "finish"} /\ orders[taker].type = "FOK" =>
    orders[taker].remaining
      <= SumFunctionOnSet(Remaining(orders),
                          Within(orders, taker, orders[taker].side, orders[taker].price))

\* What a fill does to the other orders.
LEMMA OthersFilled ==
  ASSUME StructureInv, SweepInv, BookInv, WalkInv, FillMaker
  PROVE  LET qty == Lesser(orders[taker].remaining, orders[cur].remaining)
         IN  /\ DOMAIN orders' = IF orders[cur].remaining = qty THEN DOMAIN orders \ {cur}
                                 ELSE DOMAIN orders
             /\ \A i \in DOMAIN orders' \ {taker} :
                  /\ orders'[i].side = orders[i].side /\ orders'[i].price = orders[i].price
                  /\ orders'[i].remaining = IF i = cur THEN orders[cur].remaining - qty
                                            ELSE orders[i].remaining
<1> DEFINE maker == orders[cur]
           qty == Lesser(orders[taker].remaining, maker.remaining)
<1>1. /\ taker \in DOMAIN orders /\ cur \in DOMAIN orders \ {taker} /\ orders[taker] \in Order
      /\ MapTyped(orders) /\ maker \in Order
  BY MakerFacts, StructureTyped
<1>2. qty \in Int
  BY FillCases
<1>3. OrderFilled(Filled(orders[taker], qty), orders[taker]) /\ OrderFilled(Filled(maker, qty), maker)
  BY <1>1, <1>2, FilledFacts
<1>4. CASE maker.remaining = qty
  <2> DEFINE ords == Taken(qty)
  <2>1. DOMAIN ords = DOMAIN orders /\ ords[taker] = Filled(orders[taker], qty) /\ ords[cur] = maker
        /\ \A i \in DOMAIN orders \ {taker} : ords[i] = orders[i]
    BY <1>1 DEF Taken
  <2>2. orders' = Erased(UnlinkedOrders(ords, maker), cur)
    BY <1>4, FillCases
  <2> HIDE DEF ords, qty
  <2>3. MapTyped(ords)
    BY <1>1, <1>3, <2>1 DEF MapTyped, OrderFilled
  <2>4. orders' = Erased(UnlinkedOrders(ords, ords[cur]), cur) /\ cur \in DOMAIN ords
    BY <1>1, <2>1, <2>2
  <2>5. /\ DOMAIN orders' = DOMAIN ords \ {cur}
        /\ \A i \in DOMAIN orders' : SameButLinks(orders'[i], ords[i])
    BY <2>3, <2>4, LeftOrders
  <2>6. /\ DOMAIN orders' = IF maker.remaining = qty THEN DOMAIN orders \ {cur} ELSE DOMAIN orders
        /\ \A i \in DOMAIN orders' \ {taker} :
             /\ orders'[i].side = orders[i].side /\ orders'[i].price = orders[i].price
             /\ orders'[i].remaining = IF i = cur THEN maker.remaining - qty
                                       ELSE orders[i].remaining
    BY <1>4, <2>1, <2>5 DEF SameButLinks
  <2> QED BY <2>6 DEF qty
<1>5. CASE maker.remaining # qty
  <2>1. orders' = Traded(qty)
    BY <1>5, FillCases
  <2>2. Filled(maker, qty).remaining = maker.remaining - qty
    <3> HIDE DEF qty
    <3> QED BY <1>1 DEF Filled, Order
  <2> HIDE DEF qty
  <2>3. /\ DOMAIN orders' = DOMAIN orders /\ orders'[cur] = Filled(maker, qty)
        /\ \A i \in DOMAIN orders \ {taker, cur} : orders'[i] = orders[i]
    BY <1>1, <2>1 DEF Traded
  <2>4. /\ DOMAIN orders' = IF maker.remaining = qty THEN DOMAIN orders \ {cur} ELSE DOMAIN orders
        /\ \A i \in DOMAIN orders' \ {taker} :
             /\ orders'[i].side = orders[i].side /\ orders'[i].price = orders[i].price
             /\ orders'[i].remaining = IF i = cur THEN maker.remaining - qty
                                       ELSE orders[i].remaining
    BY <1>3, <1>5, <2>2, <2>3 DEF OrderFilled
  <2> QED BY <2>4 DEF qty
<1> QED BY <1>4, <1>5

\* A trade takes the same from the taker and from what it may trade with.
LEMMA FillFok ==
  ASSUME StructureInv, SweepInv, BookInv, WalkInv, FokInv, FillMaker, StructureInv'
  PROVE  FokInv'
<1> SUFFICES ASSUME orders'[taker'].type = "FOK" PROVE FokInv'
  BY DEF FokInv
<1> DEFINE maker == orders[cur]
           o     == orders[taker]
           qty   == Lesser(o.remaining, maker.remaining)
           f     == Remaining(orders)
           g     == Remaining(orders')
           S     == Within(orders, taker, o.side, o.price)
           T     == Within(orders', taker, o.side, o.price)
<1>1. /\ taker \in DOMAIN orders /\ cur \in DOMAIN orders \ {taker}
      /\ MapTyped(orders) /\ pc = "walk"
      /\ maker.side = Opposite(o.side) /\ maker.price = at /\ CanReach(at)
      /\ maker.remaining \in Int /\ o.remaining \in Int
  BY MakerFacts, StructureTyped DEF FillMaker, MakerSide, WalkInv
<1>2. /\ taker' = taker /\ orders'[taker].side = o.side /\ orders'[taker].type = o.type
      /\ orders'[taker].price = o.price /\ orders'[taker].remaining = o.remaining - qty
      /\ taker \in DOMAIN orders'
  BY TakerFilled
<1>3. qty \in Int
  BY FillCases
<1>4. /\ DOMAIN orders' = IF maker.remaining = qty THEN DOMAIN orders \ {cur} ELSE DOMAIN orders
      /\ \A i \in DOMAIN orders' \ {taker} :
           /\ orders'[i].side = orders[i].side /\ orders'[i].price = orders[i].price
           /\ orders'[i].remaining = IF i = cur THEN maker.remaining - qty ELSE orders[i].remaining
  BY OthersFilled
<1>5. o.remaining <= SumFunctionOnSet(f, S)
  BY <1>1, <1>2 DEF FokInv
<1>6. cur \in S
  BY <1>1 DEF Within, CanReach
<1>7. S \subseteq DOMAIN orders \ {taker} /\ S \subseteq DOMAIN orders /\ IsFiniteSet(S)
  <2>1. S \subseteq DOMAIN orders \ {taker}
    BY DEF Within
  <2> HIDE DEF S
  <2>2. S \subseteq DOMAIN orders
    BY <2>1
  <2> QED BY <1>1, <2>1, <2>2, FS_Subset DEF MapTyped, Ids
<1>8. T = IF maker.remaining = qty THEN S \ {cur} ELSE S
  <2> HIDE DEF maker, qty, o
  <2> QED BY <1>4 DEF Within
<1>9. \A i \in S : f[i] \in Int /\ f[i] = orders[i].remaining
  BY <1>1, <1>7 DEF MapTyped, Order, Remaining
<1>10. \A i \in T : g[i] = IF i = cur THEN maker.remaining - qty ELSE f[i]
  <2>1. T \subseteq S /\ \A i \in T : i \in DOMAIN orders' \ {taker}
    BY <1>8 DEF Within
  <2>2. \A i \in T : g[i] = orders'[i].remaining
    BY <2>1 DEF Remaining
  <2> HIDE DEF T, S, g, f, qty
  <2> QED BY <1>4, <1>9, <2>1, <2>2
<1> DEFINE R == S \ {cur}
<1>11. f[cur] = maker.remaining /\ IsFiniteSet(R)
  BY <1>6, <1>7, <1>9, FS_Subset
<1> HIDE DEF S, T, f, g, qty, maker, o
<1>12. SumFunctionOnSet(f, S) = f[cur] + SumFunctionOnSet(f, R) /\ SumFunctionOnSet(f, R) \in Int
  BY <1>6, <1>7, <1>9, <1>11, SumRemove, SumType
<1>13. SumFunctionOnSet(g, T) = SumFunctionOnSet(f, S) - qty
  <2>1. R \subseteq T /\ \A i \in R : f[i] = g[i]
    BY <1>8, <1>10
  <2>2. SumFunctionOnSet(f, R) = SumFunctionOnSet(g, R)
    BY <1>11, <2>1, SumSame
  <2>3. CASE maker.remaining = qty
    BY <1>1, <1>3, <1>8, <1>11, <1>12, <2>2, <2>3
  <2>4. CASE maker.remaining # qty
    <3>1. T = S /\ g[cur] = maker.remaining - qty /\ \A i \in S : g[i] \in Int
      BY <1>1, <1>3, <1>6, <1>8, <1>9, <1>10, <2>4
    <3>2. SumFunctionOnSet(g, S) = g[cur] + SumFunctionOnSet(g, R)
      BY <1>6, <1>7, <3>1, SumRemove
    <3> QED BY <1>1, <1>3, <1>11, <1>12, <2>2, <3>1, <3>2
  <2> QED BY <2>3, <2>4
<1>14. SumFunctionOnSet(f, S) \in Int
  BY <1>7, <1>9, SumType
<1>15. orders'[taker].remaining <= SumFunctionOnSet(g, T)
  BY <1>1, <1>2, <1>3, <1>5, <1>13, <1>14
<1> QED BY <1>2, <1>15 DEF FokInv, g, T

\* A fill-or-kill order is admitted only with the depth that it asks for.
LEMMA AdmitFok ==
  ASSUME StructureInv, BookInv, AdmitOrder
  PROVE  FokInv'
<1> SUFFICES ASSUME orders'[taker'].type = "FOK" PROVE FokInv'
  BY DEF FokInv
<1> DEFINE id == order_id_seq + 1
           S  == Within(orders, NoOrder, call.side, LimitPrice)
           T  == Within(orders', id, call.side, LimitPrice)
<1>1. /\ pc = "add" /\ taker' = id /\ id \notin DOMAIN orders /\ NoOrder \notin DOMAIN orders
      /\ DOMAIN orders' = DOMAIN orders \cup {id} /\ orders'[id] = TakerOrder
      /\ \A i \in DOMAIN orders : orders'[i] = orders[i]
      /\ MapTyped(orders)
  BY StructureTyped DEF AdmitOrder, taker
<1>2. call.type = "FOK" /\ can_fill_fok
  BY <1>1 DEF AdmitOrder, TakerOrder
<1>3. call.qty <= SumFunctionOnSet(Remaining(orders), S)
  BY <1>1, <1>2, CanFillMeans
<1>4. T = S
  <2> HIDE DEF id
  <2> QED BY <1>1 DEF Within
<1>5. S \subseteq DOMAIN orders /\ IsFiniteSet(S)
  <2>1. S \subseteq DOMAIN orders
    BY DEF Within
  <2> QED BY <1>1, <2>1, FS_Subset DEF MapTyped, Ids
<1>6. \A i \in S : Remaining(orders)[i] = Remaining(orders')[i]
  BY <1>1, <1>5 DEF Remaining
<1> HIDE DEF S, T, id
<1>7. SumFunctionOnSet(Remaining(orders), S) = SumFunctionOnSet(Remaining(orders'), T)
  BY <1>4, <1>5, <1>6, SumSame
<1>8. orders'[id].side = call.side /\ orders'[id].price = LimitPrice /\ orders'[id].remaining = call.qty
  BY <1>1 DEF TakerOrder
<1> QED BY <1>1, <1>3, <1>7, <1>8 DEF FokInv, T

\* Every step of a call keeps it.
LEMMA StepFok ==
  ASSUME StructureInv, SweepInv, BookInv, WalkInv, FokInv, StructureInv', Next
  PROVE  FokInv'
<1>1. CASE pc' \in {"idle", "add"}
  BY <1>1 DEF FokInv
<1>2. CASE EnterLevel \/ LeaveLevel \/ EndSweep
  BY <1>2 DEF EnterLevel, LeaveLevel, EndSweep, bookVars, FokInv, taker
<1> QED
  BY <1>1, <1>2, AdmitFok, FillFok
  DEF Next, CallStart, CallStep, add_order, cancel_order, modify_order, clear, callVars,
      RejectOrder, KillOrder, RefusePostOnly, CompleteTaker, RestTaker, AbandonTaker, Return

-----------------------------------------------------------------------------
(* Every step of the book is a step of the engine, or none *)

EngineInv == LevelInv /\ FokInv

\* Steps that the engine does not see.
LEMMA EngineStutters ==
  ASSUME SeenByEngine, SeenByEngine', UNCHANGED orders, Out' = Out,
         \/ pc' \in {"idle", "add"} /\ pc \in {"idle", "add"}
         \/ pc' \in {"sweep", "walk", "finish"} /\ pc \in {"sweep", "walk", "finish"} /\ taker' = taker
  PROVE  UNCHANGED Engine!engineVars
<1>1. Resting' = Resting /\ Active' = Active
  BY DEF SeenByEngine
<1> QED BY <1>1 DEF Engine!engineVars, Resting, Active

\* cancel_order, and modify_order on an active order, withdraw it.
LEMMA WithdrawIsWithdrawn ==
  ASSUME StructureInv, BookInv, SeenByEngine, SeenByEngine', pc = "idle", pc' \in {"idle", "add"},
         NEW id \in DOMAIN orders, Withdraw(id)
  PROVE  Engine!EngineNext
<1>1. /\ Out = NoOrder /\ Out' = NoOrder /\ MapTyped(orders) /\ NoOrder \notin DOMAIN orders
      /\ LevelsSound(orders, ladder, NoOrder) /\ LadsTyped(ladder)
  BY StructureTyped DEF BookInv, Out
<1>2. orders[id].price \in DOMAIN ladder[orders[id].side]
  BY <1>1 DEF LevelsSound, Rests
<1>3. orders' = Erased(UnlinkedOrders(orders, orders[id]), id)
  BY <1>2 DEF Withdraw
<1>4. DOMAIN orders' = DOMAIN orders \ {id} /\ \A i \in DOMAIN orders' : SameButLinks(orders'[i], orders[i])
  BY <1>1, <1>3, LeftOrders
<1>5. Active = {} /\ Active' = {}
  BY DEF SeenByEngine
<1>6. Resting = RestSet(orders, DOMAIN orders) /\ Resting' = RestSet(orders', DOMAIN orders \ {id})
  BY <1>1, <1>4 DEF SeenByEngine
<1>7. \A i \in DOMAIN orders \ {id} : Rest(orders', i) = Rest(orders, i)
  BY <1>4 DEF Rest, SameButLinks
<1>8. \A i, j : Rest(orders, i) = Rest(orders, j) => i = j
  BY DEF Rest
<1>9. Rest(orders, id) \in Resting /\ Resting' = Resting \ {Rest(orders, id)}
  BY <1>6, <1>7, <1>8 DEF RestSet
<1>10. PICK r : r = Rest(orders, id)
  OBVIOUS
<1>11. Engine!Withdrawn(r)
  BY <1>5, <1>9, <1>10 DEF Engine!Withdrawn, Resting, Active
<1> QED BY <1>9, <1>10, <1>11 DEF Engine!EngineNext, Resting

\* clear empties the engine.
LEMMA ClearIsEmptied ==
  ASSUME SeenByEngine, SeenByEngine', clear
  PROVE  Engine!EngineNext
<1>1. Active = {} /\ Active' = {}
  BY DEF SeenByEngine, clear
<1>2. orders' = << >> /\ DOMAIN orders' = {}
  BY DEF clear
<1>3. Resting' = {}
  BY <1>2 DEF SeenByEngine, RestSet
<1>4. Engine!Emptied
  BY <1>1, <1>3 DEF Engine!Emptied, Resting, Active
<1> QED BY <1>4 DEF Engine!EngineNext

\* An admitted order is accepted: it is newer than all that rest, and a
\* fill-or-kill order finds the depth it asks for.
LEMMA AdmitIsAccept ==
  ASSUME StructureInv, BookInv, SeenByEngine, SeenByEngine', AdmitOrder
  PROVE  Engine!EngineNext
<1> DEFINE id == order_id_seq + 1
           o  == Act(orders', id)
           S  == Within(orders, NoOrder, call.side, LimitPrice)
<1>1. /\ pc = "add" /\ pc' = "sweep" /\ taker' = id /\ id \notin DOMAIN orders
      /\ NoOrder \notin DOMAIN orders /\ Out = NoOrder /\ Out' = id
      /\ DOMAIN orders' = DOMAIN orders \cup {id} /\ orders'[id] = TakerOrder
      /\ \A i \in DOMAIN orders : orders'[i] = orders[i] /\ i < id
      /\ MapTyped(orders)
  BY StructureTyped DEF AdmitOrder, taker, Out
<1>2. call.qty > 0 /\ call \in Call
  <2>1. call \in Call
    BY <1>1 DEF StructureInv, CallInv
  <2>2. call.qty \in Int
    BY <2>1, BookAssumption DEF Call
  <2> QED BY <2>1, <2>2 DEF AdmitOrder, Invalid
<1>3. /\ o.id = id /\ o.side = call.side /\ o.type = call.type /\ o.price = LimitPrice
      /\ o.remaining = call.qty
  BY <1>1 DEF Act, TakerOrder
<1>4. Active = {} /\ Active' = {o}
  BY <1>1 DEF SeenByEngine
<1>5. Resting = RestSet(orders, DOMAIN orders \ {NoOrder}) /\ Resting' = RestSet(orders', DOMAIN orders)
  BY <1>1 DEF SeenByEngine
<1>6. Resting' = Resting
  <2>1. \A i \in DOMAIN orders : Rest(orders', i) = Rest(orders, i)
    BY <1>1 DEF Rest
  <2> HIDE DEF id
  <2> QED BY <1>1, <1>5, <2>1 DEF RestSet
<1>7. \A r \in Resting : r.id < o.id
  BY <1>1, <1>3, <1>5 DEF RestSet, Rest
<1>8. ASSUME o.type = "FOK"
      PROVE  Engine!Depth(Engine!Matchable(o, Resting)) >= o.remaining
  <2>1. can_fill_fok
    BY <1>3, <1>8 DEF AdmitOrder
  <2>2. call.qty <= SumFunctionOnSet(Remaining(orders), S)
    BY <1>1, <2>1, CanFillMeans
  <2>3. Engine!Matchable(o, Resting) = RestSet(orders, S)
    <3>1. o.side \in Sides
      BY <1>2, <1>3 DEF Call
    <3> HIDE DEF o
    <3> QED BY <1>1, <1>3, <1>5, <3>1, MatchableIsWithin
  <2>4. S \in SUBSET DOMAIN orders
    BY DEF Within
  <2>5. Engine!Depth(RestSet(orders, S)) = SumFunctionOnSet(Remaining(orders), S)
    BY <1>1, <2>4, DepthIsSum
  <2>6. SumFunctionOnSet(Remaining(orders), S) \in Int /\ call.qty \in Int
    <3>1. IsFiniteSet(S)
      BY <1>1, <2>4, FS_Subset DEF MapTyped, Ids
    <3>2. \A i \in S : Remaining(orders)[i] \in Int
      BY <1>1, <2>4 DEF MapTyped, Order, Remaining
    <3> HIDE DEF S
    <3> QED BY <1>2, <3>1, <3>2, SumType, BookAssumption DEF Call
  <2> HIDE DEF S
  <2> QED BY <1>3, <2>2, <2>3, <2>5, <2>6
<1> HIDE DEF o
<1>9. PICK x : x = o
  OBVIOUS
<1>10. Engine!Accept(x)
  BY <1>2, <1>3, <1>4, <1>6, <1>7, <1>8, <1>9 DEF Engine!Accept, Resting, Active
<1> QED BY <1>4, <1>9, <1>10 DEF Engine!EngineNext, Active

\* A fill is a trade with the order of highest priority.
LEMMA FillIsTrade ==
  ASSUME StructureInv, SweepInv, BookInv, WalkInv, SeenByEngine, SeenByEngine', FillMaker
  PROVE  Engine!EngineNext
<1> DEFINE maker == orders[cur]
           o     == Act(orders, taker)
           r     == Rest(orders, cur)
           qty   == Lesser(orders[taker].remaining, maker.remaining)
           D     == DOMAIN orders \ {taker}
<1>1. /\ Out = taker /\ taker \in DOMAIN orders /\ cur \in D /\ Out' = taker /\ taker' = taker
      /\ pc = "walk" /\ pc' = "walk" /\ MapTyped(orders) /\ MakerSide \in Sides
      /\ maker.side = MakerSide /\ maker.price = at /\ CanReach(at) /\ at \in DOMAIN ladder[MakerSide]
      /\ maker.remaining \in Int /\ orders[taker].remaining \in Int
      /\ maker.remaining > 0 /\ orders[taker].remaining > 0
      /\ \A j \in At(orders, taker, MakerSide, at) : cur <= j
      /\ orders[taker] \in Order
  BY MakerFacts, StructureTyped DEF FillMaker, Out, taker, WalkInv
<1>2. qty \in Int /\ qty > 0 /\ qty <= maker.remaining
  BY FillCases
<1>3. /\ o.id = taker /\ o.side = orders[taker].side /\ o.price = orders[taker].price
      /\ o.remaining = orders[taker].remaining /\ o.type = orders[taker].type
      /\ o.side \in Sides
      /\ r.id = cur /\ r.side = MakerSide /\ r.price = at /\ r.remaining = maker.remaining
  BY <1>1 DEF Act, Rest, Order
<1>4. Active = {o} /\ Active' = {Act(orders', taker)}
  BY <1>1 DEF SeenByEngine
<1>5. Resting = RestSet(orders, D) /\ Resting' = RestSet(orders', DOMAIN orders' \ {taker})
  BY <1>1 DEF SeenByEngine
<1>6. Engine!Matchable(o, Resting) = RestSet(orders, Within(orders, taker, o.side, o.price))
  <2> HIDE DEF o
  <2> QED BY <1>1, <1>3, <1>5, MatchableIsWithin
<1>7. r \in Engine!Matchable(o, Resting)
  <2>1. cur \in Within(orders, taker, o.side, o.price)
    BY <1>1, <1>3 DEF Within, CanReach, MakerSide
  <2> QED BY <1>6, <2>1 DEF RestSet
<1>8. ASSUME NEW s \in Engine!Matchable(o, Resting) \ {r} PROVE Engine!Precedes(o.side, r, s)
  <2>1. PICK j \in Within(orders, taker, o.side, o.price) : s = Rest(orders, j)
    BY <1>6, <1>8 DEF RestSet
  <2>2. /\ j \in D /\ orders[j].side = MakerSide /\ j # cur
        /\ s.id = j /\ s.price = orders[j].price
    BY <1>3, <1>8, <2>1 DEF Within, MakerSide, Rest
  <2>3. orders[j].price \in DOMAIN ladder[MakerSide]
    BY <1>1, <2>2 DEF BookInv, LevelsSound, Rests
  <2>4. orders[j].price \in Int /\ at \in Int
    BY <1>1, <2>3, BookAssumption DEF StructureInv, IndexInv, LaddersTyped
  <2>5. j \in Nat /\ cur \in Nat
    BY <1>1, <2>2 DEF MapTyped, Ids
  <2>6. CASE orders[j].price = at
    <3>1. j \in At(orders, taker, MakerSide, at)
      BY <2>2, <2>6 DEF At
    <3>2. cur < j
      BY <1>1, <2>2, <2>5, <3>1
    <3> QED BY <1>3, <2>2, <2>6, <3>2 DEF Engine!Precedes
  <2>7. CASE orders[j].price # at
    <3>1. Better(MakerSide, at, orders[j].price)
      BY <1>1, <2>3, <2>7 DEF WalkInv
    <3>2. Engine!Crosses(o.side, orders[j].price, at)
      BY <1>3, <2>4, <3>1 DEF Better, MakerSide, Opposite, Engine!Crosses, Sides
    <3> QED BY <1>3, <2>2, <2>7, <3>2 DEF Engine!Precedes
  <2> QED BY <2>6, <2>7
<1>9. Engine!Priority(o, r)
  BY <1>8 DEF Engine!Priority, Resting
<1>10. qty = IF o.remaining < r.remaining THEN o.remaining ELSE r.remaining
  BY <1>3 DEF Lesser
<1>11. Act(orders', taker) = Engine!Reduce(o, qty)
  <2>1. /\ orders'[taker].side = orders[taker].side /\ orders'[taker].type = orders[taker].type
        /\ orders'[taker].price = orders[taker].price
        /\ orders'[taker].remaining = orders[taker].remaining - qty
    BY TakerFilled
  <2> HIDE DEF qty
  <2> QED BY <2>1 DEF Act, Engine!Reduce
<1>12. Resting' = (Resting \ {r}) \cup {s \in {Engine!Reduce(r, qty)} : s.remaining > 0}
  <2>1. /\ DOMAIN orders' = IF maker.remaining = qty THEN DOMAIN orders \ {cur} ELSE DOMAIN orders
        /\ \A i \in DOMAIN orders' \ {taker} :
             /\ orders'[i].side = orders[i].side /\ orders'[i].price = orders[i].price
             /\ orders'[i].remaining = IF i = cur THEN maker.remaining - qty
                                       ELSE orders[i].remaining
    BY OthersFilled
  <2>2. Engine!Reduce(r, qty).remaining = maker.remaining - qty
    BY DEF Engine!Reduce, Rest
  <2> HIDE DEF qty
  <2>3. \A i \in DOMAIN orders' \ {taker, cur} : Rest(orders', i) = Rest(orders, i)
    BY <2>1 DEF Rest
  <2>4. Resting \ {r} = RestSet(orders, D \ {cur})
    <3>1. \A i, j : Rest(orders, i) = Rest(orders, j) => i = j
      BY DEF Rest
    <3> QED BY <1>5, <3>1 DEF RestSet
  <2>5. CASE maker.remaining = qty
    <3>1. {s \in {Engine!Reduce(r, qty)} : s.remaining > 0} = {}
      BY <1>2, <2>2, <2>5
    <3>2. DOMAIN orders' \ {taker} = D \ {cur}
      BY <2>1, <2>5
    <3>3. RestSet(orders', D \ {cur}) = RestSet(orders, D \ {cur})
      BY <2>3, <3>2 DEF RestSet
    <3> QED BY <1>5, <2>4, <3>1, <3>2, <3>3
  <2>6. CASE maker.remaining # qty
    <3>1. {s \in {Engine!Reduce(r, qty)} : s.remaining > 0} = {Engine!Reduce(r, qty)}
      BY <1>1, <1>2, <2>2, <2>6
    <3>2. DOMAIN orders' \ {taker} = (D \ {cur}) \cup {cur}
      BY <1>1, <2>1, <2>6
    <3>3. Rest(orders', cur) = Engine!Reduce(r, qty)
      BY <2>1, <3>2 DEF Rest, Engine!Reduce
    <3>4. RestSet(orders', (D \ {cur}) \cup {cur}) = RestSet(orders, D \ {cur}) \cup {Rest(orders', cur)}
      BY <2>3, <3>2 DEF RestSet
    <3> QED BY <1>5, <2>4, <3>1, <3>2, <3>3, <3>4
  <2> QED BY <2>5, <2>6
<1>13. r \in Resting /\ o \in Active
  BY <1>1, <1>4, <1>5 DEF RestSet
<1> HIDE DEF o, r, qty
<1>14. PICK x, y : x = o /\ y = r
  OBVIOUS
<1>15. Engine!Trade(x, y)
  BY <1>1, <1>3, <1>4, <1>7, <1>9, <1>10, <1>11, <1>12, <1>13, <1>14
  DEF Engine!Trade, Resting, Active
<1> QED BY <1>13, <1>14, <1>15 DEF Engine!EngineNext, Resting, Active

\* Once the sweep is over, a taker that is not filled has nothing left to trade
\* with, and a fill-or-kill order is filled.
LEMMA SweptOut ==
  ASSUME StructureInv, SweepInv, BookInv, FokInv, SeenByEngine, pc = "finish"
  PROVE  LET o == Act(orders, taker)
         IN  /\ o.remaining = 0 \/ Engine!Matchable(o, Resting) = {}
             /\ o.type = "FOK" => o.remaining = 0
<1> DEFINE o == Act(orders, taker)
           S == Within(orders, taker, o.side, o.price)
<1>1. /\ Out = taker /\ taker \in DOMAIN orders /\ MapTyped(orders)
      /\ o.side = orders[taker].side /\ o.price = orders[taker].price
      /\ o.remaining = orders[taker].remaining /\ o.type = orders[taker].type
  BY StructureTyped DEF Act
<1>2. o.side \in Sides /\ o.remaining \in Int /\ o.remaining >= 0
  BY <1>1 DEF MapTyped, Order, SweepInv
<1>3. CASE o.remaining = 0
  BY <1>3
<1>4. CASE o.remaining # 0
  <2>1. \A p \in DOMAIN ladder[MakerSide] : ~CanReach(p)
    BY <1>1, <1>4 DEF SweepInv
  <2>2. S = {}
    <3> SUFFICES ASSUME NEW i \in S PROVE FALSE
      OBVIOUS
    <3>1. /\ i \in DOMAIN orders \ {taker} /\ orders[i].side = MakerSide
          /\ CanReach(orders[i].price)
      BY <1>1 DEF Within, MakerSide, CanReach
    <3>2. orders[i].price \in DOMAIN ladder[MakerSide]
      BY <1>1, <3>1 DEF BookInv, LevelsSound, Rests
    <3> QED BY <2>1, <3>1, <3>2
  <2>3. Engine!Matchable(o, Resting) = {}
    <3> HIDE DEF o
    <3>1. Resting = RestSet(orders, DOMAIN orders \ {taker})
      BY <1>1 DEF SeenByEngine
    <3>2. Engine!Matchable(o, Resting) = RestSet(orders, S)
      BY <1>1, <1>2, <3>1, MatchableIsWithin
    <3> QED BY <2>2, <3>2 DEF RestSet
  <2>4. o.type # "FOK"
    <3>1. Within(orders, taker, orders[taker].side, orders[taker].price) = {}
      BY <1>1, <2>2
    <3>2. o.type = "FOK" => o.remaining <= 0
      BY <1>1, <3>1, SumEmpty DEF FokInv
    <3> QED BY <1>2, <1>4, <3>2
  <2> QED BY <2>3, <2>4
<1> QED BY <1>3, <1>4

\* A taker that was filled, or may not rest, leaves.
LEMMA CompleteIsLeave ==
  ASSUME StructureInv, SweepInv, BookInv, FokInv, SeenByEngine, SeenByEngine', CompleteTaker
  PROVE  Engine!EngineNext
<1>1. /\ pc = "finish" /\ pc' = "idle" /\ Out = taker /\ Out' = NoOrder
      /\ NoOrder \notin DOMAIN orders /\ TakerMatchesCall
      /\ orders[taker].remaining = 0 \/ call.type \in {"IOC", "FOK"}
  BY StructureTyped DEF CompleteTaker, Return, Out, StructureInv, CallInv
<1>2. DOMAIN orders' = DOMAIN orders \ {taker} /\ \A i \in DOMAIN orders' : orders'[i] = orders[i]
  BY ErasedFacts DEF CompleteTaker, RetireTaker
<1>3. /\ Active = {Act(orders, taker)} /\ Active' = {}
      /\ Resting = RestSet(orders, DOMAIN orders \ {taker})
      /\ Resting' = RestSet(orders', DOMAIN orders \ {taker})
  BY <1>1, <1>2 DEF SeenByEngine
<1>4. Resting' = Resting
  <2>1. \A i \in DOMAIN orders \ {taker} : Rest(orders', i) = Rest(orders, i)
    BY <1>2 DEF Rest
  <2> QED BY <1>3, <2>1 DEF RestSet
<1>5. PICK o : o = Act(orders, taker)
  OBVIOUS
<1>6. o.remaining = 0 \/ Engine!Matchable(o, Resting) = {}
  BY <1>1, <1>5, SweptOut
<1>7. o.type = "FOK" => o.remaining = 0
  BY <1>1, <1>5, SweptOut
<1>8. ~(o.type = "LIMIT" /\ o.remaining > 0)
  BY <1>1, <1>5 DEF Act, TakerMatchesCall
<1>9. Engine!Leave(o)
  BY <1>3, <1>4, <1>5, <1>6, <1>7, <1>8 DEF Engine!Leave, Resting, Active
<1> QED BY <1>3, <1>5, <1>9 DEF Engine!EngineNext, Active

\* The rest of a LIMIT order leaves into the book.
LEMMA RestIsLeave ==
  ASSUME StructureInv, SweepInv, BookInv, FokInv, SeenByEngine, SeenByEngine', RestTaker
  PROVE  Engine!EngineNext
<1>1. /\ pc = "finish" /\ pc' = "idle" /\ Out = taker /\ Out' = NoOrder
      /\ NoOrder \notin DOMAIN orders /\ TakerMatchesCall /\ MapTyped(orders)
      /\ taker \in DOMAIN orders /\ orders[taker].type = "LIMIT" /\ orders[taker].remaining # 0
  BY StructureTyped DEF RestTaker, Return, Out, StructureInv, CallInv, TakerMatchesCall
<1>2. orders[taker].remaining > 0
  BY <1>1 DEF MapTyped, Order, SweepInv
<1>3. DOMAIN orders' = DOMAIN orders /\ \A i \in DOMAIN orders : Rest(orders', i) = Rest(orders, i)
  <2> DEFINE o   == orders[taker]
             lvl == LevelAt(ladder[o.side], o.price)
  <2>1. orders' = [i \in DOMAIN orders |->
                     IF i = taker THEN [o EXCEPT !.prev = lvl.tail, !.next = NoOrder]
                     ELSE IF i = lvl.tail THEN [orders[i] EXCEPT !.next = taker]
                     ELSE orders[i]]
    BY DEF RestTaker
  <2> HIDE DEF lvl
  <2>2. /\ DOMAIN orders' = DOMAIN orders
        /\ \A i \in DOMAIN orders : /\ orders'[i].side = orders[i].side
                                    /\ orders'[i].price = orders[i].price
                                    /\ orders'[i].remaining = orders[i].remaining
    BY <1>1, <2>1 DEF MapTyped, Order
  <2> QED BY <2>2 DEF Rest
<1>4. /\ Active = {Act(orders, taker)} /\ Active' = {}
      /\ Resting = RestSet(orders, DOMAIN orders \ {taker})
      /\ Resting' = RestSet(orders', DOMAIN orders)
  BY <1>1, <1>3 DEF SeenByEngine
<1>5. Resting' = Resting \cup {Rest(orders, taker)}
  BY <1>1, <1>3, <1>4 DEF RestSet
<1>6. PICK o : o = Act(orders, taker)
  OBVIOUS
<1>7. o.remaining = 0 \/ Engine!Matchable(o, Resting) = {}
  BY <1>1, <1>6, SweptOut
<1>8. o.type = "FOK" => o.remaining = 0
  BY <1>1, <1>6, SweptOut
<1>9. /\ o.type = "LIMIT" /\ o.remaining > 0
      /\ Rest(orders, taker) = [id |-> o.id, side |-> o.side, price |-> o.price,
                                remaining |-> o.remaining]
  BY <1>1, <1>2, <1>6 DEF Act, Rest
<1>10. Engine!Leave(o)
  BY <1>4, <1>5, <1>6, <1>7, <1>8, <1>9 DEF Engine!Leave, Resting, Active
<1> QED BY <1>4, <1>6, <1>10 DEF Engine!EngineNext, Active

\* Every step of the book is one of the engine's, or changes nothing it sees.
LEMMA StepRefines ==
  ASSUME RestingTypes, EngineInv, EngineInv', Next
  PROVE  Engine!EngineNext \/ UNCHANGED Engine!engineVars
<1>1. /\ StructureInv /\ SweepInv /\ BookInv /\ WalkInv /\ FokInv
      /\ SeenByEngine /\ SeenByEngine'
  BY EngineView, EngineViewNext DEF EngineInv, LevelInv
<1>2. ASSUME UNCHANGED orders, pc \in {"idle", "add"}, pc' \in {"idle", "add"}
      PROVE  UNCHANGED Engine!engineVars
  BY <1>1, <1>2, EngineStutters DEF Out
<1>3. CASE CallStart
  <2>1. ASSUME NEW id \in DOMAIN orders, cancel_order(id) PROVE Engine!EngineNext
    BY <1>1, <2>1, WithdrawIsWithdrawn DEF cancel_order
  <2>2. ASSUME NEW id \in DOMAIN orders, NEW price \in Prices, NEW qty \in Quantities,
               modify_order(id, price, qty)
        PROVE  Engine!EngineNext \/ UNCHANGED Engine!engineVars
    BY <1>1, <1>2, <2>2, WithdrawIsWithdrawn DEF modify_order
  <2>3. ASSUME NEW side \in Sides, NEW type \in OrderTypes, NEW price \in Prices,
               NEW qty \in Quantities, add_order(side, type, price, qty)
        PROVE  UNCHANGED Engine!engineVars
    BY <1>2, <2>3 DEF add_order, bookVars
  <2> QED BY <1>1, <1>3, <2>1, <2>2, <2>3, ClearIsEmptied DEF CallStart
<1>4. CASE RejectOrder \/ KillOrder
  BY <1>2, <1>4 DEF RejectOrder, KillOrder, Return, bookVars
<1>5. CASE EnterLevel \/ LeaveLevel \/ EndSweep
  <2>1. /\ UNCHANGED orders /\ taker' = taker /\ Out' = Out
        /\ pc \in {"sweep", "walk"} /\ pc' \in {"sweep", "walk", "finish"}
    BY <1>5 DEF EnterLevel, LeaveLevel, EndSweep, bookVars, taker, Out
  <2> QED BY <1>1, <2>1, EngineStutters
<1>6. CASE RefusePostOnly \/ AbandonTaker
  <2>1. call.type \in OrderTypes
    BY <1>1, <1>6 DEF RefusePostOnly, AbandonTaker, StructureInv, CallInv, Call
  <2>2. call.type \in {"MARKET", "POST_ONLY"}
    BY <1>6 DEF RefusePostOnly, AbandonTaker
  <2> QED BY <2>1, <2>2 DEF RestingTypes
<1> QED
  BY <1>1, <1>3, <1>4, <1>5, <1>6, AdmitIsAccept, FillIsTrade, CompleteIsLeave, RestIsLeave
  DEF Next, CallStep

\* Where LIMIT, IOC and FOK orders are submitted, the book implements the
\* matching engine: a trade is always with the order of highest priority, a
\* fill-or-kill order trades in full or not at all, and what rests is exactly
\* what did not trade and was not withdrawn.
THEOREM BookImplementsEngine ==
  ASSUME RestingTypes
  PROVE  Spec => ImplementsEngine
<1>1. Init => Engine!EngineInit
  <2> SUFFICES ASSUME Init PROVE Engine!EngineInit
    OBVIOUS
  <2>1. DOMAIN orders = {}
    BY DEF Init
  <2>2. Resting = {} /\ Active = {}
    BY <2>1 DEF Resting, Active, RestingIds
  <2> QED BY <2>2 DEF Engine!EngineInit, Resting, Active
<1>2. Init => FokInv
  BY DEF Init, FokInv
<1>3. LevelInv /\ LevelInv' /\ FokInv /\ [Next]_vars => FokInv'
  <2> SUFFICES ASSUME LevelInv, LevelInv', FokInv, [Next]_vars PROVE FokInv'
    OBVIOUS
  <2>1. CASE Next
    BY <2>1, StepFok DEF LevelInv
  <2>2. CASE UNCHANGED vars
    BY <2>2 DEF vars, bookVars, FokInv, taker
  <2> QED BY <2>1, <2>2
<1>4. EngineInv /\ EngineInv' /\ [Next]_vars => [Engine!EngineNext]_Engine!engineVars
  <2> SUFFICES ASSUME EngineInv, EngineInv', [Next]_vars
               PROVE  Engine!EngineNext \/ UNCHANGED Engine!engineVars
    OBVIOUS
  <2>1. CASE Next
    BY <2>1, StepRefines
  <2>2. CASE UNCHANGED vars
    <3>1. UNCHANGED <<orders, pc, order_id_seq>>
      BY <2>2 DEF vars, bookVars
    <3>2. Resting' = Resting /\ Active' = Active
      BY <3>1 DEF Resting, Active, RestingIds, InFlight, taker
    <3> QED BY <3>2 DEF Engine!engineVars, Resting, Active
  <2> QED BY <2>1, <2>2
<1>5. LevelInv /\ FokInv <=> EngineInv
  BY DEF EngineInv
<1> QED BY <1>1, <1>2, <1>3, <1>4, <1>5, LevelsHold, PTL DEF Spec, ImplementsEngine, Engine!EngineSpec

-----------------------------------------------------------------------------
(* Every call is finite *)

\* A bound on the steps that the call in progress may still take.  A walk that has nothing more
\* to trade has a step to go back to the loop over the levels; one that has still trades first.
StepsLeft ==
  IF pc = "idle" THEN 0
  ELSE IF pc = "add" THEN 4 * (IF call.qty > 0 THEN call.qty ELSE 0) + 3
  ELSE IF pc = "finish" THEN 1
  ELSE 4 * orders[taker].remaining
       + (IF pc = "sweep" THEN 2
          ELSE IF cur \in DOMAIN orders /\ orders[taker].remaining > 0 THEN 1 ELSE 3)

\* What it is a number of.
LEMMA StepsTyped ==
  ASSUME LevelInv
  PROVE  /\ StepsLeft \in Nat
         /\ pc \in {"sweep", "walk", "finish"} => orders[taker].remaining \in Nat
         /\ pc = "add" => call.qty \in Int
<1>1. pc \in {"sweep", "walk", "finish"} => orders[taker].remaining \in Nat
  <2> SUFFICES ASSUME pc \in {"sweep", "walk", "finish"} PROVE orders[taker].remaining \in Nat
    OBVIOUS
  <2>1. taker \in DOMAIN orders /\ MapTyped(orders) /\ orders[taker].remaining >= 0
    BY StructureTyped DEF LevelInv, SweepInv
  <2>2. orders[taker].remaining \in Int
    BY <2>1 DEF MapTyped, Order
  <2> QED BY <2>1, <2>2
<1>2. pc = "add" => call.qty \in Int
  BY BookAssumption DEF LevelInv, StructureInv, CallInv, Call
<1>3. pc \in {"idle", "add", "sweep", "walk", "finish"}
  BY DEF LevelInv, StructureInv, CallInv
<1>4. StepsLeft \in Nat
  <2>1. PICK n : n = orders[taker].remaining
    OBVIOUS
  <2>2. PICK q : q = call.qty
    OBVIOUS
  <2> QED BY ONLY <1>1, <1>2, <1>3, <2>1, <2>2 DEF StepsLeft
<1> QED BY <1>1, <1>2, <1>4

\* A step of a call brings its end nearer: a walk begins at an order that can be traded with,
\* and a trade takes at least one from what the taker has left.
LEMMA StepAdvances ==
  ASSUME LevelInv, CallStep
  PROVE  StepsLeft' < StepsLeft
<1>1. /\ StructureInv /\ SweepInv /\ BookInv /\ WalkInv /\ MapTyped(orders)
  BY StructureTyped DEF LevelInv
<1>2. /\ StepsLeft \in Nat
      /\ pc \in {"sweep", "walk", "finish"} => orders[taker].remaining \in Nat
      /\ pc = "add" => call.qty \in Int
  BY StepsTyped
<1>3. CASE RejectOrder \/ KillOrder \/ RefusePostOnly \/ CompleteTaker \/ RestTaker \/ AbandonTaker
  <2>1. pc \in {"add", "finish"} /\ pc' = "idle"
    BY <1>3 DEF RejectOrder, KillOrder, RefusePostOnly, CompleteTaker, RestTaker, AbandonTaker, Return
  <2>2. StepsLeft' = 0
    BY <2>1 DEF StepsLeft
  <2>3. StepsLeft > 0
    BY <1>2, <2>1 DEF StepsLeft
  <2> QED BY <2>2, <2>3
<1>4. CASE AdmitOrder
  <2>1. pc = "add" /\ pc' = "sweep" /\ call.qty > 0 /\ call.qty \in Int
    BY <1>2, <1>4 DEF AdmitOrder, Invalid
  <2>2. orders'[taker'].remaining = call.qty
    BY <1>4 DEF AdmitOrder, TakerOrder, taker
  <2>3. StepsLeft = 4 * call.qty + 3
    BY <2>1 DEF StepsLeft
  <2>4. StepsLeft' = 4 * call.qty + 2
    BY <2>1, <2>2 DEF StepsLeft
  <2> QED BY <2>1, <2>3, <2>4
<1>5. CASE EnterLevel
  <2>1. /\ pc = "sweep" /\ pc' = "walk" /\ orders' = orders /\ taker' = taker
        /\ orders[taker].remaining > 0 /\ ladder' = ladder
    BY <1>5 DEF EnterLevel, bookVars, taker
  <2>2. PICK p \in DOMAIN ladder[MakerSide] : cur' = ladder[MakerSide][p].head
    BY <1>5 DEF EnterLevel
  <2>3. cur' \in DOMAIN orders
    <3> DEFINE R == At(orders, taker, MakerSide, p)
    <3>1. MakerSide \in Sides /\ Out = taker
      BY <1>1, <2>1, StructureTyped DEF MakerSide, Opposite, Sides
    <3>2. LevelSound(ladder[MakerSide][p], orders, R)
      BY <1>1, <3>1 DEF BookInv, LevelsSound
    <3>3. R # {} /\ R \subseteq DOMAIN orders
      BY <3>2 DEF LevelSound, At
    <3>4. IsFirst(ladder[MakerSide][p].head, R)
      BY <3>2 DEF LevelSound, Chained
    <3> QED BY <2>2, <3>3, <3>4 DEF IsFirst
  <2>4. PICK n \in Nat : n = orders[taker].remaining
    BY <1>2, <2>1
  <2>5. StepsLeft = 4 * n + 2
    BY <2>1, <2>4 DEF StepsLeft
  <2>6. StepsLeft' = 4 * n + 1
    BY <2>1, <2>3, <2>4 DEF StepsLeft
  <2> QED BY ONLY <2>4, <2>5, <2>6
<1>6. CASE FillMaker
  <2>1. pc = "walk" /\ pc' = "walk" /\ cur \in DOMAIN orders
    BY <1>6 DEF FillMaker
  <2>2. PICK q : q = Lesser(orders[taker].remaining, orders[cur].remaining)
    OBVIOUS
  <2>3. q \in Int /\ q > 0 /\ q <= orders[taker].remaining
    BY <1>1, <1>6, <2>2, FillCases
  <2>4. taker' = taker /\ orders'[taker].remaining = orders[taker].remaining - q
    BY <1>1, <1>6, <2>2, TakerFilled
  <2>5. PICK n \in Nat : n = orders[taker].remaining
    BY <1>2, <2>1
  <2>6. StepsLeft = 4 * n + 1
    BY <2>1, <2>3, <2>5 DEF StepsLeft
  <2>7. StepsLeft' \in {4 * (n - q) + 1, 4 * (n - q) + 3}
    BY <2>1, <2>4, <2>5 DEF StepsLeft
  <2> QED BY ONLY <2>3, <2>5, <2>6, <2>7
<1>7. CASE LeaveLevel
  <2>1. /\ pc = "walk" /\ pc' = "sweep" /\ orders' = orders /\ taker' = taker
        /\ cur \notin DOMAIN orders \/ orders[taker].remaining = 0
    BY <1>7 DEF LeaveLevel, taker
  <2>2. PICK n \in Nat : n = orders[taker].remaining
    BY <1>2, <2>1
  <2>3. StepsLeft = 4 * n + 3
    BY <2>1, <2>2 DEF StepsLeft
  <2>4. StepsLeft' = 4 * n + 2
    BY <2>1, <2>2 DEF StepsLeft
  <2> QED BY ONLY <2>2, <2>3, <2>4
<1>8. CASE EndSweep
  <2>1. pc = "sweep" /\ pc' = "finish"
    BY <1>8 DEF EndSweep
  <2>2. PICK n \in Nat : n = orders[taker].remaining
    BY <1>2, <2>1
  <2>3. StepsLeft = 4 * n + 2 /\ StepsLeft' = 1
    BY <2>1, <2>2 DEF StepsLeft
  <2> QED BY ONLY <2>2, <2>3
<1> QED BY <1>3, <1>4, <1>5, <1>6, <1>7, <1>8 DEF CallStep

\* add_order and modify_order take no more steps than four for each unit of the
\* quantity and three, however many levels and orders there are: each walk over a
\* level trades, although it takes the list apart as it goes.  With the fairness of
\* FairSpec this is why CallsReturn holds.
THEOREM CallsAreFinite ==
  ASSUME RestingTypes
  PROVE  Spec => [](StepsLeft \in Nat) /\ [][pc # "idle" => StepsLeft' < StepsLeft]_vars
<1>1. LevelInv => StepsLeft \in Nat
  BY StepsTyped
<1>2. LevelInv /\ [Next]_vars => [pc # "idle" => StepsLeft' < StepsLeft]_vars
  <2> SUFFICES ASSUME LevelInv, Next, pc # "idle" PROVE StepsLeft' < StepsLeft
    OBVIOUS
  <2>1. CallStep
    BY DEF Next, CallStart, add_order, cancel_order, modify_order, clear
  <2> QED BY <2>1, StepAdvances
<1> QED BY <1>1, <1>2, LevelsHold, PTL DEF Spec

=============================================================================
