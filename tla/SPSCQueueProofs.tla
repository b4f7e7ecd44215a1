--------------------------- MODULE SPSCQueueProofs --------------------------
(***************************************************************************)
(* For every power-of-two capacity, every width of the indexes and every   *)
(* set of items: with one thread that pushes and one that pops, the ring   *)
(* of utils/spsc.hpp races on no slot and implements BoundedQueue.         *)
(*                                                                         *)
(* The first part is arithmetic modulo the number of index values; from    *)
(* there on only the facts of its lemmas are used.                         *)
(***************************************************************************)
EXTENDS SPSCQueue, TLAPS

(* Arithmetic of indexes *)

\* A positive multiple of n is at least n.
LEMMA NoSmallMultiple ==
  ASSUME NEW n \in Nat \ {0}, NEW m \in Int, 0 < n * m, n * m < n
  PROVE  FALSE
<1>1. CASE m <= 0
  <2>1. n * m <= 0
    BY <1>1
  <2> QED BY <2>1
<1>2. CASE m >= 1
  <2>1. n * m >= n
    BY <1>2
  <2> QED BY <2>1
<1> QED BY <1>1, <1>2

\* Division with remainder.
LEMMA DivisionWithRest ==
  ASSUME NEW n \in Nat \ {0}, NEW x \in Int
  PROVE  x = n * (x \div n) + (x % n) /\ x \div n \in Int /\ x % n \in 0 .. n - 1
OBVIOUS

\* The remainder of numbers less than n away from 0 .. n - 1.
LEMMA NearRest ==
  ASSUME NEW n \in Nat \ {0}, NEW x \in Int, -n <= x, x < n + n
  PROVE  x % n = IF x < 0 THEN x + n ELSE IF x < n THEN x ELSE x - n
<1>1. CASE x < 0
  BY <1>1
<1>2. CASE 0 <= x /\ x < n
  BY <1>2
<1>3. CASE n <= x
  BY <1>3
<1> QED BY <1>1, <1>2, <1>3

\* Indexes as integers.
LEMMA IndexFacts ==
  /\ IndexValues \in Nat \ {0} /\ Capacity \in Nat \ {0} /\ Capacity < IndexValues
  /\ \A a : a \in Index <=> a \in Int /\ 0 <= a /\ a < IndexValues
BY QueueAssumption DEF Index

\* The unsigned difference of two indexes.
LEMMA DistanceCases ==
  ASSUME NEW a \in Index, NEW b \in Index
  PROVE  Distance(a, b) = IF a <= b THEN b - a ELSE b - a + IndexValues
<1>1. b - a \in Int /\ -IndexValues <= b - a /\ b - a < IndexValues
  BY IndexFacts
<1>2. Distance(a, b) = IF b - a < 0 THEN b - a + IndexValues ELSE b - a
  BY <1>1, IndexFacts, NearRest DEF Distance
<1> QED BY <1>2, IndexFacts

\* The index after a given one.
LEMMA SuccCases ==
  ASSUME NEW a \in Index
  PROVE  Succ(a) \in Index /\ Succ(a) = IF a + 1 = IndexValues THEN 0 ELSE a + 1
<1>1. a + 1 \in Int /\ 0 <= a + 1 /\ a + 1 <= IndexValues
  BY IndexFacts
<1>2. Succ(a) = IF a + 1 < IndexValues THEN a + 1 ELSE a + 1 - IndexValues
  BY <1>1, IndexFacts, NearRest DEF Succ
<1> QED BY <1>1, <1>2, IndexFacts

\* How far two indexes are apart.
LEMMA DistanceFacts ==
  ASSUME NEW a \in Index, NEW b \in Index
  PROVE  /\ Distance(a, b) \in Nat /\ Distance(a, b) < IndexValues
         /\ Distance(a, b) = 0 <=> a = b
<1>1. a \in Int /\ b \in Int /\ 0 <= a /\ a < IndexValues /\ 0 <= b /\ b < IndexValues
  BY IndexFacts
<1> QED BY <1>1, IndexFacts, DistanceCases

\* Distances add up as long as they stay below the number of indexes.
LEMMA DistancesAdd ==
  ASSUME NEW a \in Index, NEW b \in Index, NEW c \in Index,
         Distance(a, b) + Distance(b, c) < IndexValues
  PROVE  Distance(a, c) = Distance(a, b) + Distance(b, c)
<1>1. /\ a \in Int /\ b \in Int /\ c \in Int /\ IndexValues \in Int
      /\ 0 <= a /\ a < IndexValues /\ 0 <= b /\ b < IndexValues /\ 0 <= c /\ c < IndexValues
  BY IndexFacts
<1>2. /\ Distance(a, b) = IF a <= b THEN b - a ELSE b - a + IndexValues
      /\ Distance(b, c) = IF b <= c THEN c - b ELSE c - b + IndexValues
      /\ Distance(a, c) = IF a <= c THEN c - a ELSE c - a + IndexValues
  BY DistanceCases
<1> QED BY <1>1, <1>2

\* What is left of a distance after part of it.
LEMMA DistanceRest ==
  ASSUME NEW a \in Index, NEW b \in Index, NEW c \in Index,
         Distance(a, b) <= Distance(a, c)
  PROVE  Distance(a, c) = Distance(a, b) + Distance(b, c)
<1>1. /\ a \in Int /\ b \in Int /\ c \in Int /\ IndexValues \in Int
      /\ 0 <= a /\ a < IndexValues /\ 0 <= b /\ b < IndexValues /\ 0 <= c /\ c < IndexValues
  BY IndexFacts
<1>2. /\ Distance(a, b) = IF a <= b THEN b - a ELSE b - a + IndexValues
      /\ Distance(b, c) = IF b <= c THEN c - b ELSE c - b + IndexValues
      /\ Distance(a, c) = IF a <= c THEN c - a ELSE c - a + IndexValues
  BY DistanceCases
<1> QED BY <1>1, <1>2

\* Moving the far end on by one.
LEMMA DistanceGrows ==
  ASSUME NEW a \in Index, NEW b \in Index, Distance(a, b) + 1 < IndexValues
  PROVE  Distance(a, Succ(b)) = Distance(a, b) + 1
<1>1. /\ a \in Int /\ b \in Int /\ IndexValues \in Int
      /\ 0 <= a /\ a < IndexValues /\ 0 <= b /\ b < IndexValues
  BY IndexFacts
<1>2. /\ Distance(a, b) = IF a <= b THEN b - a ELSE b - a + IndexValues
      /\ Succ(b) = IF b + 1 = IndexValues THEN 0 ELSE b + 1
      /\ Distance(a, Succ(b)) = IF a <= Succ(b) THEN Succ(b) - a ELSE Succ(b) - a + IndexValues
  BY DistanceCases, SuccCases
<1> QED BY <1>1, <1>2

\* Moving the near end on by one.
LEMMA DistanceShrinks ==
  ASSUME NEW a \in Index, NEW b \in Index, a # b
  PROVE  Distance(Succ(a), b) = Distance(a, b) - 1
<1>1. /\ a \in Int /\ b \in Int /\ IndexValues \in Int
      /\ 0 <= a /\ a < IndexValues /\ 0 <= b /\ b < IndexValues
  BY IndexFacts
<1>2. /\ Distance(a, b) = IF a <= b THEN b - a ELSE b - a + IndexValues
      /\ Succ(a) = IF a + 1 = IndexValues THEN 0 ELSE a + 1
      /\ Distance(Succ(a), b) = IF Succ(a) <= b THEN b - Succ(a) ELSE b - Succ(a) + IndexValues
  BY DistanceCases, SuccCases
<1> QED BY <1>1, <1>2

\* A load returns an index between the one seen last and the newest.
LEMMA LoadBetween ==
  ASSUME NEW seen \in Index, NEW now \in Index, NEW x \in Loadable(seen, now)
  PROVE  /\ x \in Index
         /\ Distance(seen, x) + Distance(x, now) = Distance(seen, now)
<1>1. PICK k \in 0 .. Distance(seen, now) : x = (seen + k) % IndexValues
  BY DEF Loadable
<1>2. /\ seen \in Int /\ 0 <= seen /\ seen < IndexValues /\ IndexValues \in Nat \ {0}
      /\ now \in Int /\ 0 <= now /\ now < IndexValues
      /\ Distance(seen, now) \in Int /\ Distance(seen, now) < IndexValues
  BY DistanceFacts, IndexFacts
<1>3. k \in Int /\ 0 <= k /\ k <= Distance(seen, now)
  BY <1>1, <1>2
<1>4. PICK y \in Int : y = seen + k
  BY <1>2, <1>3
<1>5. x = IF y < IndexValues THEN y ELSE y - IndexValues
  <2>1. -IndexValues <= y /\ y < IndexValues + IndexValues /\ ~(y < 0)
    BY <1>2, <1>3, <1>4
  <2>2. y % IndexValues = IF y < IndexValues THEN y ELSE y - IndexValues
    BY <1>2, <2>1, NearRest
  <2>3. x = y % IndexValues
    BY <1>1, <1>4, Zenon
  <2> QED BY <2>2, <2>3, Zenon
<1>6. x \in Int /\ 0 <= x /\ x < IndexValues
  BY <1>2, <1>3, <1>4, <1>5
<1>7. x \in Index
  BY <1>6, IndexFacts
<1>8. /\ Distance(seen, x) = IF seen <= x THEN x - seen ELSE x - seen + IndexValues
      /\ Distance(x, now) = IF x <= now THEN now - x ELSE now - x + IndexValues
      /\ Distance(seen, now) = IF seen <= now THEN now - seen ELSE now - seen + IndexValues
  BY <1>7, DistanceCases
<1>9. Distance(seen, x) + Distance(x, now) = Distance(seen, now)
  BY <1>2, <1>3, <1>4, <1>5, <1>6, <1>8
<1> QED BY <1>7, <1>9

\* The slot of an index does not depend on how often the indexes wrapped.
LEMMA SlotOfWrapped ==
  ASSUME NEW x \in Int
  PROVE  Slot(x) \in Slots /\ Slot(x - IndexValues) = Slot(x)
<1> DEFINE C == Capacity
<1>1. C \in Nat \ {0} /\ IndexValues \in Nat /\ IndexValues % C = 0
  BY QueueAssumption
<1> HIDE DEF C
<1>2. /\ x = C * (x \div C) + (x % C) /\ x \div C \in Int /\ x % C \in 0 .. C - 1
      /\ IndexValues = C * (IndexValues \div C) /\ IndexValues \div C \in Int
  BY <1>1, DivisionWithRest
<1>3. /\ (x - IndexValues) = C * ((x - IndexValues) \div C) + ((x - IndexValues) % C)
      /\ (x - IndexValues) \div C \in Int /\ (x - IndexValues) % C \in 0 .. C - 1
  <2>1. x - IndexValues \in Int
    BY <1>1
  <2> QED BY <1>1, <2>1, DivisionWithRest
<1>4. (x - IndexValues) % C = x % C
  <2> DEFINE q1 == x \div C
             q2 == IndexValues \div C
             q3 == (x - IndexValues) \div C
             r1 == x % C
             r3 == (x - IndexValues) % C
  <2>1. /\ q1 \in Int /\ q2 \in Int /\ q3 \in Int /\ r1 \in 0 .. C - 1 /\ r3 \in 0 .. C - 1
        /\ x = C * q1 + r1 /\ IndexValues = C * q2 /\ x - IndexValues = C * q3 + r3
    BY <1>2, <1>3
  <2> HIDE DEF q1, q2, q3, r1, r3
  <2>2. r3 - r1 = C * (q1 - q2 - q3) /\ r1 - r3 = C * (q3 + q2 - q1)
    BY <1>1, <2>1
  <2>3. q1 - q2 - q3 \in Int /\ q3 + q2 - q1 \in Int
    BY <2>1
  <2>4. ~(r3 - r1 > 0) /\ ~(r1 - r3 > 0)
    BY <1>1, <2>1, <2>2, <2>3, NoSmallMultiple
  <2>5. r1 = r3
    BY <1>1, <2>1, <2>4
  <2> QED BY <2>5 DEF r1, r3
<1> QED BY <1>1, <1>2, <1>4 DEF Slot, Slots, C

\* Fewer than Capacity places apart, two indexes have different slots.
LEMMA SlotsDiffer ==
  ASSUME NEW x \in Int, NEW y \in Int, x < y, y - x < Capacity
  PROVE  Slot(x) # Slot(y)
<1> DEFINE C == Capacity
<1>1. C \in Nat \ {0}
  BY QueueAssumption
<1>2. y - x < C
  OBVIOUS
<1> HIDE DEF C
<1> SUFFICES ASSUME x % C = y % C PROVE FALSE
  BY DEF Slot, C
<1> DEFINE qx == x \div C
           qy == y \div C
           r == x % C
<1>3. /\ x = C * qx + r /\ qx \in Int /\ r \in 0 .. C - 1
      /\ y = C * qy + r /\ qy \in Int
  BY <1>1, DivisionWithRest
<1> HIDE DEF qx, qy, r
<1>4. y - x = C * (qy - qx) /\ qy - qx \in Int
  BY <1>1, <1>3
<1> QED BY <1>1, <1>2, <1>4, NoSmallMultiple

\* The slot of an index is the slot of the place as far behind another one as
\* the index is ahead of it.
LEMMA SlotAhead ==
  ASSUME NEW a \in Index, NEW b \in Index
  PROVE  Slot(a + Distance(a, b)) = Slot(b)
<1>1. a \in Int /\ b \in Int /\ IndexValues \in Int
  BY IndexFacts
<1>2. CASE a <= b
  BY <1>1, <1>2, DistanceCases
<1>3. CASE ~(a <= b)
  <2>1. a + Distance(a, b) = b + IndexValues
    BY <1>1, <1>3, DistanceCases
  <2>2. b + IndexValues \in Int /\ (b + IndexValues) - IndexValues = b
    BY <1>1
  <2> QED BY <2>1, <2>2, SlotOfWrapped
<1> QED BY <1>2, <1>3

\* Counting places from the next index is counting them one further.
LEMMA SlotAfterSucc ==
  ASSUME NEW a \in Index, NEW k \in Int
  PROVE  Slot(Succ(a) + k) = Slot(a + (k + 1))
<1>1. a \in Int /\ IndexValues \in Int
  BY IndexFacts
<1>2. CASE a + 1 = IndexValues
  <2>1. Succ(a) + k = (a + (k + 1)) - IndexValues /\ a + (k + 1) \in Int
    BY <1>1, <1>2, SuccCases
  <2> QED BY <2>1, SlotOfWrapped
<1>3. CASE a + 1 # IndexValues
  <2>1. Succ(a) + k = a + (k + 1)
    BY <1>1, <1>3, SuccCases
  <2> QED BY <2>1
<1> QED BY <1>2, <1>3

\* The places between two indexes less than Capacity apart have other slots
\* than the far index.
LEMMA SlotsBetween ==
  ASSUME NEW a \in Index, NEW b \in Index, Distance(a, b) < Capacity,
         NEW k \in Int, 0 <= k, k < Distance(a, b)
  PROVE  Slot(a + k) # Slot(b)
<1>1. a \in Int /\ Distance(a, b) \in Int /\ Capacity \in Int
  BY IndexFacts, DistanceFacts
<1>2. /\ a + k \in Int /\ a + Distance(a, b) \in Int
      /\ a + k < a + Distance(a, b) /\ (a + Distance(a, b)) - (a + k) < Capacity
  BY <1>1
<1>3. Slot(a + k) # Slot(a + Distance(a, b))
  BY <1>2, SlotsDiffer
<1> QED BY <1>3, SlotAhead

-----------------------------------------------------------------------------
(* The inductive invariant *)

\* The consumer has not seen more than there is, and has seen an item before
\* it reads one.
ConsumerView ==
  /\ Distance(tail, consumer.h) <= Distance(tail, head)
  /\ consumer.pc # "idle" => consumer.h # tail
  /\ consumer.pc = "release" => consumer.item = buffer[Slot(tail)]

\* The tail a producer saw last is behind the real one, and even from there
\* the ring is not over-full; between the test for a full ring and the
\* publication one more item fits.
ProducerView(p) ==
  LET used == Distance(producer[p].t, tail) + Distance(tail, head)
  IN  /\ used < Capacity
      /\ producer[p].pc # "idle" => producer[p].h = head /\ producer[p].item \in Items
      /\ producer[p].pc = "idle" => producer[p].item = NoItem
      /\ producer[p].pc \in {"write", "publish"} => used < Capacity - 1
      /\ producer[p].pc = "publish" => buffer[Slot(head)] = producer[p].item

RingInv == TypeOK /\ ConsumerView /\ \A p \in Producers : ProducerView(p)

\* Nothing depends on the variables but through the state of the threads.
LEMMA RingUnchanged ==
  ASSUME RingInv, UNCHANGED vars
  PROVE  RingInv'
BY DEF RingInv, TypeOK, ConsumerView, ProducerView, vars

\* Producer states after an update of one of them.
LEMMA ProducerUpdated ==
  ASSUME TypeOK, NEW w \in Producers, NEW s \in Producer,
         producer' = [producer EXCEPT ![w] = s]
  PROVE  /\ producer' \in [Producers -> Producer]
         /\ producer'[w] = s
BY DEF TypeOK

\* The constructor.
LEMMA RingStart ==
  ASSUME Init
  PROVE  RingInv
<1>1. 0 \in Index /\ Distance(0, 0) = 0
  BY IndexFacts, DistanceFacts
<1>2. TypeOK
  BY <1>1, IndexFacts DEF Init, TypeOK, Producer, Consumer
<1>3. ConsumerView
  BY <1>1 DEF Init, ConsumerView
<1>4. ASSUME NEW p \in Producers PROVE ProducerView(p)
  <2>1. producer[p] = [pc |-> "idle", item |-> NoItem, h |-> 0, t |-> 0, pushed |-> FALSE]
    BY DEF Init
  <2>2. producer[p].pc = "idle" /\ producer[p].item = NoItem /\ producer[p].t = 0
    BY <2>1
  <2>3. Distance(0, 0) + Distance(0, 0) < Capacity
    BY <1>1, IndexFacts
  <2> QED BY <2>2, <2>3 DEF Init, ProducerView
<1> QED BY <1>2, <1>3, <1>4 DEF RingInv

\* A push starts with the head that only this thread writes.
LEMMA PushKeepsRing ==
  ASSUME NEW w, Producers = {w}, RingInv, NEW item \in Items, push(w, item)
  PROVE  RingInv'
<1> DEFINE s == [producer[w] EXCEPT !.pc = "load", !.item = item, !.h = head]
<1>1. s \in Producer /\ s.pc = "load" /\ s.item = item /\ s.h = head /\ s.t = producer[w].t
  BY DEF RingInv, TypeOK, Producer
<1>2. producer' = [producer EXCEPT ![w] = s] /\ UNCHANGED <<head, tail, buffer, consumer>>
  BY DEF push
<1> HIDE DEF s
<1>3. producer' \in [Producers -> Producer] /\ producer'[w] = s
  BY <1>1, <1>2, ProducerUpdated DEF RingInv
<1>4. TypeOK' /\ ConsumerView'
  BY <1>2, <1>3 DEF RingInv, TypeOK, ConsumerView
<1>5. ProducerView(w)'
  BY <1>1, <1>2, <1>3 DEF RingInv, ProducerView
<1> QED BY <1>4, <1>5 DEF RingInv

\* Loading a newer tail leaves more room, and passing the test for a full
\* ring leaves room for one item more.
LEMMA LoadTailKeepsRing ==
  ASSUME NEW w, Producers = {w}, RingInv, LoadTail(w)
  PROVE  RingInv'
<1> DEFINE P == producer[w]
<1>1. P \in Producer /\ P.t \in Index /\ P.h \in Index /\ tail \in Index /\ head \in Index
  BY DEF RingInv, TypeOK, Producer
<1>2. P.pc = "load" /\ P.h = head /\ P.item \in Items
      /\ Distance(P.t, tail) + Distance(tail, head) < Capacity
  BY DEF LoadTail, RingInv, ProducerView
<1>3. PICK t \in Loadable(P.t, tail) :
        producer' = [producer EXCEPT ![w] =
          IF Full(P.h, t)
          THEN [P EXCEPT !.pc = "idle", !.t = t, !.item = NoItem, !.pushed = FALSE]
          ELSE [P EXCEPT !.pc = "write", !.t = t]]
  BY DEF LoadTail, RingInv, TypeOK
<1>4. UNCHANGED <<head, tail, buffer, consumer>>
  BY DEF LoadTail
<1> HIDE DEF P
<1>5. t \in Index /\ Distance(P.t, t) + Distance(t, tail) = Distance(P.t, tail)
  BY <1>1, <1>3, LoadBetween
<1>6. /\ Distance(t, tail) \in Nat /\ Distance(tail, head) \in Nat /\ Distance(P.t, t) \in Nat
      /\ Capacity \in Nat /\ IndexValues \in Nat /\ Capacity < IndexValues
  BY <1>1, <1>5, DistanceFacts, IndexFacts
<1>7. /\ Distance(t, tail) + Distance(tail, head) < Capacity
      /\ Distance(t, head) = Distance(t, tail) + Distance(tail, head)
  <2>1. Distance(t, tail) + Distance(tail, head) < Capacity
    BY <1>2, <1>5, <1>6
  <2>2. Distance(t, tail) + Distance(tail, head) < IndexValues
    BY <1>6, <2>1
  <2> QED BY <1>1, <1>5, <2>1, <2>2, DistancesAdd
<1>8. PICK s \in Producer :
        /\ producer' = [producer EXCEPT ![w] = s]
        /\ s.t = t
        /\ \/ s.pc = "idle" /\ s.item = NoItem
           \/ s.pc = "write" /\ s.item = P.item /\ s.h = P.h /\ ~Full(P.h, t)
  <2>1. CASE Full(P.h, t)
    <3> DEFINE s == [P EXCEPT !.pc = "idle", !.t = t, !.item = NoItem, !.pushed = FALSE]
    <3>1. s \in Producer /\ s.t = t /\ s.pc = "idle" /\ s.item = NoItem
      BY <1>1, <1>5 DEF Producer
    <3>2. producer' = [producer EXCEPT ![w] = s]
      BY <1>3, <2>1
    <3> HIDE DEF s
    <3> QED BY <3>1, <3>2
  <2>2. CASE ~Full(P.h, t)
    <3> DEFINE s == [P EXCEPT !.pc = "write", !.t = t]
    <3>1. s \in Producer /\ s.t = t /\ s.pc = "write" /\ s.item = P.item /\ s.h = P.h
      BY <1>1, <1>5 DEF Producer
    <3>2. producer' = [producer EXCEPT ![w] = s]
      BY <1>3, <2>2
    <3> HIDE DEF s
    <3> QED BY <2>2, <3>1, <3>2
  <2> QED BY <2>1, <2>2
<1>9. producer' \in [Producers -> Producer] /\ producer'[w] = s
  BY <1>8, ProducerUpdated DEF RingInv
<1>10. TypeOK' /\ ConsumerView'
  BY <1>4, <1>9 DEF RingInv, TypeOK, ConsumerView
<1>11. s.pc = "write" => Distance(t, tail) + Distance(tail, head) < Capacity - 1
  BY <1>2, <1>6, <1>7, <1>8 DEF Full
<1>12. ProducerView(w)'
  BY <1>2, <1>4, <1>7, <1>8, <1>9, <1>11 DEF ProducerView
<1> QED BY <1>10, <1>12 DEF RingInv

\* The slot at head is not one of those in use.
LEMMA SlotAtHeadFree ==
  ASSUME RingInv, NEW k \in Int, 0 <= k, k < Distance(tail, head)
  PROVE  Slot(tail + k) # Slot(head)
BY SlotsBetween DEF RingInv, TypeOK

\* The slot written is not one that holds an item.
LEMMA WriteSlotKeepsRing ==
  ASSUME NEW w, Producers = {w}, RingInv, WriteSlot(w)
  PROVE  RingInv'
<1> DEFINE s == [producer[w] EXCEPT !.pc = "publish"]
<1>1. /\ s \in Producer /\ s.pc = "publish"
      /\ s.item = producer[w].item /\ s.h = producer[w].h /\ s.t = producer[w].t
  BY DEF RingInv, TypeOK, Producer
<1>2. producer' = [producer EXCEPT ![w] = s] /\ UNCHANGED <<head, tail, consumer>>
  BY DEF WriteSlot
<1> HIDE DEF s
<1>3. producer' \in [Producers -> Producer] /\ producer'[w] = s
  BY <1>1, <1>2, ProducerUpdated DEF RingInv
<1>4. /\ producer[w].pc = "write" /\ producer[w].h = head /\ producer[w].item \in Items
      /\ head \in Index /\ tail \in Index /\ buffer \in [Slots -> Items \cup {NoItem}]
  BY DEF WriteSlot, RingInv, TypeOK, ProducerView
<1>5. Slot(head) \in Slots
  BY <1>4, IndexFacts, SlotOfWrapped
<1>6. /\ buffer' \in [Slots -> Items \cup {NoItem}] /\ buffer'[Slot(head)] = producer[w].item
      /\ \A j \in Slots : j # Slot(head) => buffer'[j] = buffer[j]
  BY <1>4, <1>5 DEF WriteSlot
<1>7. TypeOK'
  BY <1>2, <1>3, <1>6 DEF RingInv, TypeOK
<1>8. ConsumerView'
  <2>1. CASE consumer.pc # "release"
    BY <1>2, <2>1 DEF RingInv, ConsumerView
  <2>2. CASE consumer.pc = "release"
    <3>1. Distance(tail, consumer.h) # 0 /\ consumer.h \in Index
      BY <1>4, <2>2, DistanceFacts DEF RingInv, TypeOK, Consumer, ConsumerView
    <3>2. 0 < Distance(tail, head)
      BY <1>4, <3>1, DistanceFacts DEF RingInv, ConsumerView
    <3>3. Slot(tail + 0) # Slot(head) /\ tail + 0 = tail
      BY <1>4, <3>2, SlotAtHeadFree, IndexFacts
    <3>4. Slot(tail) \in Slots
      BY <1>4, IndexFacts, SlotOfWrapped
    <3>5. buffer'[Slot(tail)] = buffer[Slot(tail)]
      BY <1>6, <3>3, <3>4
    <3> QED BY <1>2, <3>5 DEF RingInv, ConsumerView
  <2> QED BY <2>1, <2>2
<1>9. ProducerView(w)'
  BY <1>1, <1>2, <1>3, <1>4, <1>6 DEF RingInv, ProducerView
<1> QED BY <1>7, <1>8, <1>9 DEF RingInv

\* The ring has room for the item published.
LEMMA PublishKeepsRing ==
  ASSUME NEW w, Producers = {w}, RingInv, Publish(w)
  PROVE  RingInv' /\ Distance(tail, head)' = Distance(tail, head) + 1
<1> DEFINE s == [producer[w] EXCEPT !.pc = "idle", !.item = NoItem, !.pushed = TRUE]
<1>1. s \in Producer /\ s.pc = "idle" /\ s.item = NoItem /\ s.t = producer[w].t
  BY DEF RingInv, TypeOK, Producer
<1>2. producer' = [producer EXCEPT ![w] = s] /\ UNCHANGED <<tail, buffer, consumer>>
  BY DEF Publish
<1> HIDE DEF s
<1>3. producer' \in [Producers -> Producer] /\ producer'[w] = s
  BY <1>1, <1>2, ProducerUpdated DEF RingInv
<1>4. /\ producer[w].pc = "publish" /\ producer[w].h = head /\ producer[w].t \in Index
      /\ Distance(producer[w].t, tail) + Distance(tail, head) < Capacity - 1
      /\ head \in Index /\ tail \in Index /\ consumer.h \in Index
      /\ Distance(tail, consumer.h) <= Distance(tail, head)
  BY DEF Publish, RingInv, TypeOK, ProducerView, ConsumerView, Producer, Consumer
<1>5. head' = Succ(head) /\ head' \in Index
  BY <1>4, SuccCases DEF Publish
<1>6. /\ Distance(producer[w].t, tail) \in Nat /\ Distance(tail, head) \in Nat
      /\ Distance(tail, consumer.h) \in Nat
      /\ Capacity \in Nat /\ IndexValues \in Nat /\ Capacity < IndexValues
  BY <1>4, DistanceFacts, IndexFacts
<1>7. Distance(tail, head') = Distance(tail, head) + 1
  BY <1>4, <1>5, <1>6, DistanceGrows
<1>8. TypeOK'
  <2>1. Distance(tail, head)' < Capacity
    BY <1>2, <1>4, <1>6, <1>7
  <2> QED BY <1>2, <1>3, <1>5, <2>1 DEF RingInv, TypeOK
<1>9. ConsumerView'
  <2>1. Distance(tail, consumer.h) <= Distance(tail, head')
    BY <1>4, <1>6, <1>7
  <2> QED BY <1>2, <2>1 DEF RingInv, ConsumerView
<1>10. ProducerView(w)'
  <2>1. Distance(producer[w].t, tail) + Distance(tail, head') < Capacity
    BY <1>4, <1>6, <1>7
  <2> QED BY <1>1, <1>2, <1>3, <2>1 DEF ProducerView
<1> QED BY <1>2, <1>7, <1>8, <1>9, <1>10 DEF RingInv

\* The consumer sees a head between the one it saw last and the real one.
LEMMA PopKeepsRing ==
  ASSUME RingInv, NEW h \in Loadable(consumer.h, head), pop(h)
  PROVE  RingInv'
<1>1. consumer \in Consumer /\ consumer.h \in Index /\ tail \in Index /\ head \in Index
  BY DEF RingInv, TypeOK, Consumer
<1>2. h \in Index /\ Distance(consumer.h, h) + Distance(h, head) = Distance(consumer.h, head)
  BY <1>1, LoadBetween
<1>3. /\ consumer' \in Consumer /\ consumer'.h = h
      /\ consumer'.pc \in {"idle", "read"} /\ (consumer'.pc = "read" => h # tail)
  BY <1>1, <1>2 DEF pop, Consumer
<1>4. UNCHANGED <<head, tail, buffer, producer>>
  BY DEF pop
<1>5. Distance(tail, h) <= Distance(tail, head)
  <2>1. /\ Distance(tail, consumer.h) \in Nat /\ Distance(consumer.h, head) \in Nat
        /\ Distance(tail, head) \in Nat /\ Distance(consumer.h, h) \in Nat
        /\ Distance(h, head) \in Nat /\ Distance(tail, h) \in Nat
        /\ Distance(tail, consumer.h) <= Distance(tail, head)
    BY <1>1, <1>2, DistanceFacts DEF RingInv, ConsumerView
  <2>2. Distance(tail, head) = Distance(tail, consumer.h) + Distance(consumer.h, head)
    BY <1>1, <2>1, DistanceRest
  <2>3. Distance(tail, consumer.h) + Distance(consumer.h, h) < IndexValues
    BY <1>1, <1>2, <2>1, <2>2, DistanceFacts, IndexFacts
  <2>4. Distance(tail, h) = Distance(tail, consumer.h) + Distance(consumer.h, h)
    BY <1>1, <1>2, <2>3, DistancesAdd
  <2> QED BY <1>2, <2>1, <2>2, <2>4
<1>6. ConsumerView'
  BY <1>3, <1>4, <1>5 DEF ConsumerView
<1>7. TypeOK'
  BY <1>3, <1>4 DEF RingInv, TypeOK
<1>8. \A p \in Producers : ProducerView(p)'
  BY <1>4 DEF RingInv, ProducerView
<1> QED BY <1>6, <1>7, <1>8 DEF RingInv

\* The item read is the one at tail.
LEMMA ReadSlotKeepsRing ==
  ASSUME RingInv, ReadSlot
  PROVE  RingInv'
<1>1. consumer \in Consumer /\ tail \in Index /\ buffer \in [Slots -> Items \cup {NoItem}]
  BY DEF RingInv, TypeOK
<1>2. Slot(tail) \in Slots
  BY <1>1, IndexFacts, SlotOfWrapped
<1>3. /\ consumer' \in Consumer /\ consumer'.h = consumer.h /\ consumer'.pc = "release"
      /\ consumer'.item = buffer[Slot(tail)]
  BY <1>1, <1>2 DEF ReadSlot, Consumer
<1>4. UNCHANGED <<head, tail, buffer, producer>> /\ consumer.pc = "read"
  BY DEF ReadSlot
<1>5. TypeOK' /\ ConsumerView'
  BY <1>3, <1>4 DEF RingInv, TypeOK, ConsumerView
<1>6. \A p \in Producers : ProducerView(p)'
  BY <1>4 DEF RingInv, ProducerView
<1> QED BY <1>5, <1>6 DEF RingInv

\* Giving up a slot moves the tail towards the head and away from what the
\* producer saw.
LEMMA ReleaseKeepsRing ==
  ASSUME NEW w, Producers = {w}, RingInv, Release
  PROVE  /\ RingInv'
         /\ 0 < Distance(tail, head)
         /\ Distance(tail, head)' = Distance(tail, head) - 1
<1>1. /\ consumer \in Consumer /\ consumer.h \in Index /\ tail \in Index /\ head \in Index
      /\ producer[w].t \in Index
  BY DEF RingInv, TypeOK, Consumer, Producer
<1>2. /\ consumer.pc = "release" /\ consumer.h # tail
      /\ Distance(tail, consumer.h) <= Distance(tail, head)
      /\ Distance(tail, head) < Capacity
  BY DEF Release, RingInv, TypeOK, ConsumerView
<1>3. /\ tail' = Succ(tail) /\ tail' \in Index /\ UNCHANGED <<head, buffer, producer>>
      /\ consumer' \in Consumer /\ consumer'.pc = "idle" /\ consumer'.h = consumer.h
  BY <1>1, SuccCases DEF Release, Consumer
<1>4. /\ Distance(tail, consumer.h) \in Nat /\ Distance(tail, head) \in Nat
      /\ Distance(producer[w].t, tail) \in Nat /\ Distance(tail, consumer.h) # 0
      /\ Capacity \in Nat /\ IndexValues \in Nat /\ Capacity < IndexValues
  BY <1>1, <1>2, DistanceFacts, IndexFacts
<1>5. 0 < Distance(tail, head) /\ tail # head
  BY <1>1, <1>2, <1>4, DistanceFacts
<1>6. /\ Distance(tail', head) = Distance(tail, head) - 1
      /\ Distance(tail', consumer.h) = Distance(tail, consumer.h) - 1
  BY <1>1, <1>2, <1>3, <1>5, DistanceShrinks
<1>7. Distance(producer[w].t, tail) + Distance(tail, head) < Capacity
  BY DEF RingInv, ProducerView
<1>8. Distance(producer[w].t, tail') = Distance(producer[w].t, tail) + 1
  <2>1. Distance(producer[w].t, tail) + 1 < IndexValues
    BY <1>4, <1>5, <1>7
  <2> QED BY <1>1, <1>3, <2>1, DistanceGrows
<1>9. Distance(producer[w].t, tail') + Distance(tail', head)
        = Distance(producer[w].t, tail) + Distance(tail, head)
  BY <1>4, <1>6, <1>8
<1>10. TypeOK'
  <2>1. Distance(tail', head) < Capacity
    BY <1>2, <1>4, <1>6
  <2> QED BY <1>3, <2>1 DEF RingInv, TypeOK
<1>11. ConsumerView'
  <2>1. Distance(tail', consumer.h) <= Distance(tail', head)
    BY <1>2, <1>4, <1>6
  <2> QED BY <1>3, <2>1 DEF ConsumerView
<1>12. ProducerView(w)'
  <2>1. Distance(producer'[w].t, tail') + Distance(tail', head')
          = Distance(producer[w].t, tail) + Distance(tail, head)
    BY <1>3, <1>9
  <2> QED BY <1>3, <2>1 DEF RingInv, ProducerView
<1> QED BY <1>3, <1>5, <1>6, <1>10, <1>11, <1>12 DEF RingInv

\* With one producer, every step keeps the invariant.
LEMMA StepKeepsRing ==
  ASSUME NEW w, Producers = {w}, RingInv, [Next]_vars
  PROVE  RingInv'
<1>1. ASSUME NEW item \in Items, push(w, item) PROVE RingInv'
  BY <1>1, PushKeepsRing
<1>2. CASE PushStep(w)
  BY <1>2, LoadTailKeepsRing, WriteSlotKeepsRing, PublishKeepsRing DEF PushStep
<1>3. CASE PopStep
  BY <1>3, PopKeepsRing, ReadSlotKeepsRing, ReleaseKeepsRing DEF PopStep
<1>4. CASE UNCHANGED vars
  BY <1>4, RingUnchanged
<1> QED BY <1>1, <1>2, <1>3, <1>4 DEF Next

\* The inductive invariant of the ring, for one thread that pushes and one that pops.
THEOREM RingHolds ==
  ASSUME NEW w, Producers = {w}
  PROVE  Spec => []RingInv
<1>1. Init => RingInv
  BY RingStart
<1>2. RingInv /\ [Next]_vars => RingInv'
  BY StepKeepsRing
<1> QED BY <1>1, <1>2, PTL DEF Spec

\* The types of the state, and that one slot of the ring always stays free.
THEOREM RingTyped ==
  ASSUME NEW w, Producers = {w}
  PROVE  Spec => []TypeOK
<1>1. RingInv => TypeOK
  BY DEF RingInv
<1> QED BY <1>1, RingHolds, PTL

\* push() never writes the slot that pop() reads, although buffer_ is not atomic.
THEOREM NoDataRace ==
  ASSUME NEW w, Producers = {w}
  PROVE  Spec => []NoSlotRace
<1>1. ASSUME RingInv PROVE NoSlotRace
  <2> SUFFICES ASSUME producer[w].pc = "write", consumer.pc = "read"
               PROVE  Slot(producer[w].h) # Slot(tail)
    BY DEF NoSlotRace
  <2>1. /\ producer[w].h = head /\ consumer.h # tail /\ tail \in Index /\ consumer.h \in Index
        /\ head \in Index /\ Distance(tail, consumer.h) <= Distance(tail, head)
    BY <1>1 DEF RingInv, TypeOK, Consumer, ConsumerView, ProducerView
  <2>2. 0 < Distance(tail, head)
    BY <2>1, DistanceFacts
  <2>3. Slot(tail + 0) # Slot(head) /\ tail + 0 = tail
    BY <1>1, <2>1, <2>2, SlotAtHeadFree, IndexFacts
  <2> QED BY <2>1, <2>3
<1> QED BY <1>1, RingHolds, PTL

-----------------------------------------------------------------------------
(* The ring implements the bounded queue *)

\* The contents of the ring, as a sequence and item by item.
ContentsRead ==
  /\ Contents \in Seq(Items \cup {NoItem})
  /\ Len(Contents) = Distance(tail, head)
  /\ \A i \in 1 .. Distance(tail, head) : Contents[i] = buffer[Slot(tail + (i - 1))]

\* They are a sequence of items as long as the indexes are apart.
LEMMA ContentsFacts == TypeOK => ContentsRead
<1> SUFFICES ASSUME TypeOK PROVE ContentsRead
  OBVIOUS
<1>1. Distance(tail, head) \in Nat /\ tail \in Int
  BY DistanceFacts, IndexFacts DEF TypeOK
<1>2. \A i \in 1 .. Distance(tail, head) : tail + i - 1 = tail + (i - 1) /\ tail + (i - 1) \in Int
  BY <1>1
<1>3. \A i \in 1 .. Distance(tail, head) :
        Slot(tail + i - 1) \in Slots /\ buffer[Slot(tail + i - 1)] \in Items \cup {NoItem}
  BY <1>2, SlotOfWrapped DEF TypeOK
<1>4. Contents \in Seq(Items \cup {NoItem}) /\ Len(Contents) = Distance(tail, head)
  BY <1>1, <1>3 DEF Contents
<1>5. \A i \in 1 .. Distance(tail, head) : Contents[i] = buffer[Slot(tail + (i - 1))]
  BY <1>1, <1>2 DEF Contents
<1> QED BY <1>4, <1>5 DEF ContentsRead

\* So they are after a step.
LEMMA ContentsFactsPrimed == TypeOK' => ContentsRead'
BY ContentsFacts, PTL

\* Steps that leave the indexes and the used slots alone leave the contents alone.
LEMMA SameContents ==
  ASSUME RingInv, UNCHANGED <<head, tail>>,
         \A k \in Int : 0 <= k /\ k < Distance(tail, head)
           => buffer'[Slot(tail + k)] = buffer[Slot(tail + k)]
  PROVE  Contents' = Contents
<1>1. Distance(tail, head) \in Nat /\ tail \in Int
  BY DistanceFacts, IndexFacts DEF RingInv, TypeOK
<1>2. ASSUME NEW i \in 1 .. Distance(tail, head)
      PROVE  buffer'[Slot(tail + i - 1)] = buffer[Slot(tail + i - 1)]
  <2>1. i - 1 \in Int /\ 0 <= i - 1 /\ i - 1 < Distance(tail, head) /\ tail + i - 1 = tail + (i - 1)
    BY <1>1
  <2> QED BY <2>1
<1> QED BY <1>2 DEF Contents

\* The items being pushed and the answers, after an update of one producer's state.
LEMMA MappedProducers ==
  ASSUME NEW w, Producers = {w}, TypeOK, TypeOK'
  PROVE  /\ \A x, y : producer[w].item = x /\ producer'[w].item = y =>
              /\ [p \in Producers |-> producer[p].item] [w] = x
              /\ [p \in Producers |-> producer[p].item]'
                   = [[p \in Producers |-> producer[p].item] EXCEPT ![w] = y]
         /\ \A y : producer'[w].pushed = y =>
              [p \in Producers |-> producer[p].pushed]'
                = [[p \in Producers |-> producer[p].pushed] EXCEPT ![w] = y]
OBVIOUS

\* The beginning of a push is that of the abstract one.
LEMMA PushBegins ==
  ASSUME NEW w, Producers = {w}, RingInv, NEW item \in Items, push(w, item)
  PROVE  Queue!BeginPush(w, item)
<1>1. producer[w] \in Producer /\ producer[w].item = NoItem
  BY DEF RingInv, TypeOK, ProducerView, push
<1>2. Contents' = Contents
  BY SameContents DEF push
<1>3. producer'[w].item = item /\ producer'[w].pushed = producer[w].pushed
  BY DEF push, RingInv, TypeOK, Producer
<1>4. UNCHANGED consumer
  BY DEF push
<1> QED BY <1>1, <1>2, <1>3, <1>4 DEF Queue!BeginPush

\* The test for a full ring refuses the push or decides nothing yet.
LEMMA LoadTailRefuses ==
  ASSUME NEW w, Producers = {w}, RingInv, LoadTail(w)
  PROVE  Queue!Refuse(w) \/ UNCHANGED Queue!queueVars
<1>1. producer[w] \in Producer /\ producer[w].item # NoItem
  BY QueueAssumption DEF RingInv, TypeOK, ProducerView, LoadTail
<1>2. Contents' = Contents /\ UNCHANGED consumer
  BY SameContents DEF LoadTail
<1>3. \/ producer'[w].item = NoItem /\ producer'[w].pushed = FALSE
      \/ producer'[w].item = producer[w].item /\ producer'[w].pushed = producer[w].pushed
  BY DEF LoadTail, RingInv, TypeOK, Producer
<1>4. CASE producer'[w].item = NoItem /\ producer'[w].pushed = FALSE
  BY <1>1, <1>2, <1>4 DEF Queue!Refuse
<1>5. CASE producer'[w].item = producer[w].item /\ producer'[w].pushed = producer[w].pushed
  BY <1>2, <1>5 DEF Queue!queueVars
<1> QED BY <1>3, <1>4, <1>5

\* Writing the slot is not seen yet.
LEMMA WriteSlotUnseen ==
  ASSUME NEW w, Producers = {w}, RingInv, WriteSlot(w)
  PROVE  UNCHANGED Queue!queueVars
<1>1. producer[w].h = head /\ tail \in Index /\ head \in Index /\ tail \in Int
  BY IndexFacts DEF WriteSlot, RingInv, TypeOK, ProducerView
<1>2. ASSUME NEW k \in Int, 0 <= k, k < Distance(tail, head)
      PROVE  buffer'[Slot(tail + k)] = buffer[Slot(tail + k)]
  <2>1. Slot(tail + k) # Slot(head)
    BY <1>2, SlotAtHeadFree
  <2>2. tail + k \in Int
    BY <1>1
  <2>3. Slot(tail + k) \in Slots
    BY <2>2, SlotOfWrapped
  <2> QED BY <1>1, <2>1, <2>3 DEF WriteSlot, RingInv, TypeOK
<1>3. Contents' = Contents
  BY <1>2, SameContents DEF WriteSlot
<1>4. producer'[w].item = producer[w].item /\ producer'[w].pushed = producer[w].pushed
  BY DEF WriteSlot, RingInv, TypeOK, Producer
<1>5. UNCHANGED consumer
  BY DEF WriteSlot
<1> QED BY <1>3, <1>4, <1>5 DEF Queue!queueVars

\* Publishing the index appends the item.
LEMMA PublishAccepts ==
  ASSUME NEW w, Producers = {w}, RingInv, Publish(w)
  PROVE  Queue!Accept(w)
<1> DEFINE d == Distance(tail, head)
           item == producer[w].item
<1>1. RingInv' /\ Distance(tail, head)' = d + 1
  BY PublishKeepsRing
<1>2. /\ item \in Items /\ buffer[Slot(head)] = item
      /\ Distance(producer[w].t, tail) + d < Capacity - 1
      /\ producer[w].t \in Index /\ tail \in Index /\ head \in Index
  BY DEF Publish, RingInv, TypeOK, ProducerView, Producer
<1>3. d \in Nat /\ d < Capacity - 1
  <2>1. Distance(producer[w].t, tail) \in Nat /\ d \in Nat /\ Capacity \in Nat
    BY <1>2, DistanceFacts, IndexFacts
  <2> QED BY <1>2, <2>1
<1>4. /\ Contents \in Seq(Items \cup {NoItem}) /\ Len(Contents) = d
      /\ \A i \in 1 .. d : Contents[i] = buffer[Slot(tail + (i - 1))]
  BY ContentsFacts DEF RingInv, ContentsRead
<1>5. UNCHANGED <<tail, buffer, consumer>>
  BY DEF Publish
<1>6. /\ Contents' \in Seq(Items \cup {NoItem}) /\ Len(Contents)' = d + 1
      /\ \A i \in 1 .. d + 1 : Contents'[i] = buffer[Slot(tail + (i - 1))]
  <2>1. TypeOK'
    BY <1>1 DEF RingInv
  <2>2. /\ Contents' \in Seq(Items \cup {NoItem}) /\ Len(Contents)' = Distance(tail, head)'
        /\ \A i \in 1 .. Distance(tail, head)' : Contents'[i] = buffer'[Slot(tail' + (i - 1))]
    BY <2>1, ContentsFactsPrimed DEF ContentsRead
  <2> QED BY <1>1, <1>5, <2>2
<1>7. Contents'[d + 1] = item
  <2>1. d + 1 \in 1 .. d + 1 /\ (d + 1) - 1 = d
    BY <1>3
  <2>2. Slot(tail + d) = Slot(head)
    BY <1>2, SlotAhead
  <2> QED BY <1>2, <1>6, <2>1, <2>2
<1> HIDE DEF d, item
<1>8. Contents' = Append(Contents, item)
  BY <1>2, <1>3, <1>4, <1>6, <1>7
<1>9. producer'[w].item = NoItem /\ producer'[w].pushed = TRUE
  BY DEF Publish, RingInv, TypeOK, Producer
<1>10. producer[w].item # NoItem
  BY <1>2, QueueAssumption DEF item
<1> QED BY <1>3, <1>4, <1>5, <1>8, <1>9, <1>10 DEF Queue!Accept, item

\* Loading head and reading the slot are not seen.
LEMMA PopUnseen ==
  ASSUME RingInv, (\E h \in Loadable(consumer.h, head) : pop(h)) \/ ReadSlot
  PROVE  UNCHANGED Queue!queueVars
<1>1. Contents' = Contents /\ UNCHANGED producer
  BY SameContents DEF pop, ReadSlot
<1>2. consumer'.popped = consumer.popped
  BY DEF pop, ReadSlot, RingInv, TypeOK, Consumer
<1> QED BY <1>1, <1>2 DEF Queue!queueVars

\* Giving up the slot takes the oldest item.
LEMMA ReleaseTakes ==
  ASSUME NEW w, Producers = {w}, RingInv, Release
  PROVE  Queue!Take
<1> DEFINE d == Distance(tail, head)
<1>1. RingInv' /\ 0 < d /\ Distance(tail, head)' = d - 1
  BY ReleaseKeepsRing
<1>2. /\ consumer.item = buffer[Slot(tail)] /\ tail \in Index /\ head \in Index /\ tail \in Int
      /\ tail' = Succ(tail)
  BY IndexFacts DEF Release, RingInv, TypeOK, ConsumerView
<1>3. d \in Nat
  BY <1>2, DistanceFacts
<1>4. /\ Contents \in Seq(Items \cup {NoItem}) /\ Len(Contents) = d
      /\ \A i \in 1 .. d : Contents[i] = buffer[Slot(tail + (i - 1))]
  BY ContentsFacts DEF RingInv, ContentsRead
<1>5. UNCHANGED <<buffer, producer>>
  BY DEF Release
<1>6. /\ Contents' \in Seq(Items \cup {NoItem}) /\ Len(Contents)' = d - 1
      /\ \A i \in 1 .. d - 1 : Contents'[i] = buffer[Slot(Succ(tail) + (i - 1))]
  <2>1. TypeOK'
    BY <1>1 DEF RingInv
  <2>2. /\ Contents' \in Seq(Items \cup {NoItem}) /\ Len(Contents)' = Distance(tail, head)'
        /\ \A i \in 1 .. Distance(tail, head)' : Contents'[i] = buffer'[Slot(tail' + (i - 1))]
    BY <2>1, ContentsFactsPrimed DEF ContentsRead
  <2> QED BY <1>1, <1>2, <1>5, <2>2
<1>7. ASSUME NEW i \in 1 .. d - 1 PROVE Contents'[i] = Contents[i + 1]
  <2>1. i - 1 \in Int /\ (i - 1) + 1 = (i + 1) - 1 /\ i + 1 \in 1 .. d
    BY <1>3
  <2>2. Slot(Succ(tail) + (i - 1)) = Slot(tail + ((i + 1) - 1))
    BY <1>2, <2>1, SlotAfterSucc
  <2> QED BY <1>4, <1>6, <2>1, <2>2
<1>8. Contents[1] = consumer.item
  <2>1. 1 \in 1 .. d /\ tail + (1 - 1) = tail
    BY <1>1, <1>2, <1>3
  <2> QED BY <1>2, <1>4, <2>1
<1> HIDE DEF d
<1>9. Contents' = Tail(Contents) /\ Contents # << >> /\ Head(Contents) = consumer.item
  BY <1>1, <1>3, <1>4, <1>6, <1>7, <1>8
<1>10. consumer'.popped = consumer.item
  BY DEF Release, RingInv, TypeOK, Consumer
<1> QED BY <1>5, <1>9, <1>10 DEF Queue!Take

\* Initially the mapped state is that of an empty queue.
LEMMA QueueStart ==
  ASSUME Init
  PROVE  Queue!QueueInit
<1>1. Distance(0, 0) = 0
  BY IndexFacts, DistanceFacts
<1>2. Contents = << >>
  BY <1>1 DEF Init, Contents
<1>3. /\ [p \in Producers |-> producer[p].item] = [p \in Producers |-> NoItem]
      /\ [p \in Producers |-> producer[p].pushed] = [p \in Producers |-> FALSE]
      /\ consumer.popped = NoItem
  BY DEF Init
<1> QED BY <1>2, <1>3 DEF Queue!QueueInit

\* Every step of the ring is a step of the bounded queue or is not seen.
LEMMA StepImplementsQueue ==
  ASSUME NEW w, Producers = {w}, RingInv, [Next]_vars
  PROVE  [Queue!QueueNext]_Queue!queueVars
<1>1. ASSUME NEW item \in Items, push(w, item) PROVE Queue!QueueNext
  BY <1>1, PushBegins DEF Queue!QueueNext
<1>2. CASE LoadTail(w)
  BY <1>2, LoadTailRefuses DEF Queue!QueueNext
<1>3. CASE WriteSlot(w)
  BY <1>3, WriteSlotUnseen
<1>4. CASE Publish(w)
  BY <1>4, PublishAccepts DEF Queue!QueueNext
<1>5. CASE (\E h \in Loadable(consumer.h, head) : pop(h)) \/ ReadSlot
  BY <1>5, PopUnseen
<1>6. CASE Release
  BY <1>6, ReleaseTakes DEF Queue!QueueNext
<1>7. CASE UNCHANGED vars
  BY <1>7 DEF vars, Queue!queueVars, Contents
<1> QED BY <1>1, <1>2, <1>3, <1>4, <1>5, <1>6, <1>7 DEF Next, PushStep, PopStep

\* push() and pop() together are a FIFO queue of at most Capacity - 1 items:
\* none is lost, duplicated or overtaken, whatever the threads interleave and
\* however often the indexes wrap around.
THEOREM RingIsQueue ==
  ASSUME NEW w, Producers = {w}
  PROVE  Spec => ImplementsQueue
<1>1. Init => Queue!QueueInit
  BY QueueStart
<1>2. RingInv /\ [Next]_vars => [Queue!QueueNext]_Queue!queueVars
  BY StepImplementsQueue
<1>3. Spec => []RingInv
  BY RingHolds
<1> QED BY <1>1, <1>2, <1>3, PTL DEF Spec, ImplementsQueue, Queue!QueueSpec

=============================================================================
