----------------------------- MODULE MemoryPool -----------------------------
(***************************************************************************)
(* Book::MemoryPool, the fixed-capacity slab allocator of                  *)
(* hft_clean/include/memory_pool.hpp.  A slot is its index in storage_.    *)
(* free_list is a stack of slot indices: entries 0 .. free_top-1 are the   *)
(* free slots, the entries above are stale leftovers that a later          *)
(* deallocation overwrites.  The operations are actions on the two         *)
(* variables; the caller keeps the slot it was given.                      *)
(***************************************************************************)
EXTENDS Integers

CONSTANT CAPACITY      \* template parameter CAPACITY

ASSUME CapacityAssumption == CAPACITY \in Nat \ {0}

VARIABLES
  free_list,           \* free_list_ : array of slot indices
  free_top             \* free_top_  : number of free slots

poolVars == <<free_list, free_top>>

Slots == 0 .. CAPACITY - 1

\* The constructor, and reset(): every slot is free, in index order.
PoolInit ==
  /\ free_list = [i \in Slots |-> i]
  /\ free_top = CAPACITY

\* allocate() returns nullptr when nothing is free.
PoolExhausted == free_top = 0

\* The slot the next successful allocate() hands out (last freed, first reused).
NextSlot == free_list[free_top - 1]

Allocate ==
  /\ ~PoolExhausted
  /\ free_top' = free_top - 1
  /\ UNCHANGED free_list

Deallocate(slot) ==
  /\ free_list' = [free_list EXCEPT ![free_top] = slot]
  /\ free_top' = free_top + 1

PoolReset ==
  /\ free_list' = [i \in Slots |-> i]
  /\ free_top' = CAPACITY

-----------------------------------------------------------------------------
FreeSlots == {free_list[i] : i \in 0 .. free_top - 1}

PoolTypeOK ==
  /\ free_list \in [Slots -> Slots]
  /\ free_top \in 0 .. CAPACITY

\* The pool is sound for callers that hold the given slots: every slot is held
\* or free, never both, and no slot is twice on the stack of free slots.
PoolSound(held) ==
  /\ \A i, j \in 0 .. free_top - 1 : free_list[i] = free_list[j] => i = j
  /\ FreeSlots \cap held = {}
  /\ FreeSlots \cup held = Slots

=============================================================================
