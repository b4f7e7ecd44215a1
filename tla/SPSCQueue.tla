------------------------------ MODULE SPSCQueue -----------------------------
(***************************************************************************)
(* SPSCQueue<T, Capacity> of utils/spsc.hpp, the lock-free ring that       *)
(* carries packets between the feed threads.                               *)
(*                                                                         *)
(* Each load and store of push() and pop() that another thread can see is  *)
(* a step of its own.  The acquire loads need not return the newest value: *)
(* they return the one this thread saw last or any later one.  The         *)
(* release store makes the slot visible together with the index that       *)
(* publishes it, so the slots themselves need no such treatment as long    *)
(* as no slot is written while it is read (NoSlotRace).                    *)
(*                                                                         *)
(* What a thread pushes, and whether it tries again after FALSE, is left   *)
(* open: the callers do both.  Producers is a set because the program      *)
(* declares queues that more than one thread pushes into.                  *)
(***************************************************************************)
EXTENDS Integers, Sequences

CONSTANTS
  Producers,      \* threads that call push()
  Items,          \* values of T
  NoItem,         \* the initial value of a slot or of a caller's variable
  Capacity,       \* the template argument
  IndexValues     \* number of values of size_t, 2^64 in the code

\* Capacity is a power of two (static_assert), hence a divisor of 2^64.
ASSUME QueueAssumption ==
  /\ Capacity \in Nat \ {0}
  /\ IndexValues \in Nat
  /\ IndexValues > Capacity
  /\ IndexValues % Capacity = 0
  /\ NoItem \notin Items

VARIABLES
  head,           \* head_
  tail,           \* tail_
  buffer,         \* buffer_
  producer,       \* the local state of each producer
  consumer        \* the local state of the thread that calls pop()

vars == <<head, tail, buffer, producer, consumer>>

-----------------------------------------------------------------------------
Index == 0 .. IndexValues - 1
Slots == 0 .. Capacity - 1

Slot(i) == i % Capacity
Succ(i) == (i + 1) % IndexValues
Distance(from, to) == (to - from) % IndexValues     \* unsigned subtraction

\* An acquire load of a counter that this thread last saw at `seen`.
Loadable(seen, now) == {(seen + k) % IndexValues : k \in 0 .. Distance(seen, now)}

\* h is the local h and t the last tail_ seen; item is the argument, pushed the last answer.
Producer == [pc : {"idle", "load", "write", "publish"}, item : Items \cup {NoItem},
             h : Index, t : Index, pushed : BOOLEAN]

\* h is the last head_ seen; item is the caller's variable, popped what the
\* last successful pop returned in it.
Consumer == [pc : {"idle", "read", "release"}, h : Index,
             item : Items \cup {NoItem}, popped : Items \cup {NoItem}]

Init ==
  /\ head = 0 /\ tail = 0
  /\ buffer = [s \in Slots |-> NoItem]
  /\ producer = [p \in Producers |->
                   [pc |-> "idle", item |-> NoItem, h |-> 0, t |-> 0, pushed |-> FALSE]]
  /\ consumer = [pc |-> "idle", h |-> 0, item |-> NoItem, popped |-> NoItem]

-----------------------------------------------------------------------------
\* push(): h = head_.load(relaxed).
push(p, item) ==
  /\ producer[p].pc = "idle"
  /\ producer' = [producer EXCEPT ![p].pc = "load", ![p].item = item, ![p].h = head]
  /\ UNCHANGED <<head, tail, buffer, consumer>>

\* Mutant of Full: every slot may be used.
FullAtCapacity(h, t) == Distance(t, h) = Capacity

\* Mutant of Full: the test is for more items than there are slots.
FullTooLate(h, t) == Distance(t, h) = Capacity + 1

Full(h, t) == Distance(t, h) = Capacity - 1

\* t = tail_.load(acquire), and the test for a full queue.
LoadTail(p) ==
  /\ producer[p].pc = "load"
  /\ \E t \in Loadable(producer[p].t, tail) :
       producer' = [producer EXCEPT ![p] =
         IF Full(@.h, t)
         THEN [@ EXCEPT !.pc = "idle", !.t = t, !.item = NoItem, !.pushed = FALSE]
         ELSE [@ EXCEPT !.pc = "write", !.t = t]]
  /\ UNCHANGED <<head, tail, buffer, consumer>>

\* buffer_[h & MASK] = item.
WriteSlot(p) ==
  /\ producer[p].pc = "write"
  /\ buffer' = [buffer EXCEPT ![Slot(producer[p].h)] = producer[p].item]
  /\ producer' = [producer EXCEPT ![p].pc = "publish"]
  /\ UNCHANGED <<head, tail, consumer>>

\* head_.store(h + 1, release); return true.
Publish(p) ==
  /\ producer[p].pc = "publish"
  /\ head' = Succ(producer[p].h)
  /\ producer' = [producer EXCEPT ![p].pc = "idle", ![p].item = NoItem, ![p].pushed = TRUE]
  /\ UNCHANGED <<tail, buffer, consumer>>

\* Mutant of pop: one item left counts as an empty queue.
popAllButLast(h) ==
  /\ consumer.pc = "idle"
  /\ consumer' = [consumer EXCEPT !.pc = IF h \in {tail, Succ(tail)} THEN "idle" ELSE "read",
                                !.h = h]
  /\ UNCHANGED <<head, tail, buffer, producer>>

\* pop(): t = tail_ is this thread's own; h is what head_.load(acquire)
\* returns.  An empty queue ends the call.
pop(h) ==
  /\ consumer.pc = "idle"
  /\ consumer' = [consumer EXCEPT !.pc = IF h = tail THEN "idle" ELSE "read", !.h = h]
  /\ UNCHANGED <<head, tail, buffer, producer>>

\* item = buffer_[t & MASK].
ReadSlot ==
  /\ consumer.pc = "read"
  /\ consumer' = [consumer EXCEPT !.pc = "release", !.item = buffer[Slot(tail)]]
  /\ UNCHANGED <<head, tail, buffer, producer>>

\* Mutant of Release: everything seen is released, not only the item read.
ReleaseAll ==
  /\ consumer.pc = "release"
  /\ tail' = consumer.h
  /\ consumer' = [consumer EXCEPT !.pc = "idle", !.popped = consumer.item]
  /\ UNCHANGED <<head, buffer, producer>>

\* tail_.store(t + 1, release); return true.
Release ==
  /\ consumer.pc = "release"
  /\ tail' = Succ(tail)
  /\ consumer' = [consumer EXCEPT !.pc = "idle", !.popped = consumer.item]
  /\ UNCHANGED <<head, buffer, producer>>

-----------------------------------------------------------------------------
PushStep(p) == LoadTail(p) \/ WriteSlot(p) \/ Publish(p)
PopStep == (\E h \in Loadable(consumer.h, head) : pop(h)) \/ ReadSlot \/ Release

Next == (\E p \in Producers : (\E item \in Items : push(p, item)) \/ PushStep(p)) \/ PopStep

Spec == Init /\ [][Next]_vars

\* A store becomes visible in finite time, and the threads that pop do it in
\* a loop: a queue that stays non-empty is seen to be so, and the call goes on.
FairSpec ==
  /\ Spec
  /\ WF_vars(pop(head)) /\ WF_vars(ReadSlot) /\ WF_vars(Release)

-----------------------------------------------------------------------------
(* Properties *)

\* Types of the state; one slot of the ring always stays free.
TypeOK ==
  /\ head \in Index /\ tail \in Index
  /\ Distance(tail, head) < Capacity
  /\ buffer \in [Slots -> Items \cup {NoItem}]
  /\ producer \in [Producers -> Producer]
  /\ consumer \in Consumer

\* buffer_ is not atomic: no thread writes a slot that another one writes or reads.
NoSlotRace ==
  \A p \in Producers : producer[p].pc = "write" =>
    /\ consumer.pc = "read" => Slot(producer[p].h) # Slot(tail)
    /\ \A q \in Producers \ {p} :
         producer[q].pc = "write" => Slot(producer[q].h) # Slot(producer[p].h)

\* What is in the ring, oldest first.
Contents == [i \in 1 .. Distance(tail, head) |-> buffer[Slot(tail + i - 1)]]

\* Whatever two threads do to head_, tail_ and the slots in between, and
\* however often the indexes wrap around, they see a FIFO queue of at most
\* Capacity - 1 items: a push that answers TRUE has queued its item, no item is
\* lost, duplicated or overtaken, and a refused push leaves no trace.
Queue == INSTANCE BoundedQueue WITH
  Bound   <- Capacity - 1,
  queue   <- Contents,
  pushing <- [p \in Producers |-> producer[p].item],
  pushed  <- [p \in Producers |-> producer[p].pushed],
  popped  <- consumer.popped
ImplementsQueue == Queue!QueueSpec

\* A push that answers TRUE has put its item behind everything the queue held.
PushQueues ==
  [][\A p \in Producers :
       (producer[p].pc = "publish" /\ producer'[p].pc = "idle") =>
         Contents' = Append(Contents, producer[p].item)]_vars

\* Every item in the ring reaches the thread that pops.
ItemsArrive ==
  \A item \in Items :
    (\E i \in 1 .. Distance(tail, head) : Contents[i] = item) ~> (consumer.popped = item)

=============================================================================
