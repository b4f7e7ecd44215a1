---------------------------- MODULE BoundedQueue ----------------------------
(***************************************************************************)
(* What the ring buffer of utils/spsc.hpp promises to its threads: a FIFO  *)
(* queue of at most Bound items.  A push either appends its item and       *)
(* answers TRUE, or answers FALSE and leaves no trace; a pop takes the     *)
(* oldest item.                                                            *)
(***************************************************************************)
EXTENDS Naturals, Sequences

CONSTANTS Producers, Items, NoItem, Bound

VARIABLES
  queue,     \* the items pushed and not popped
  pushing,   \* for each producer, the item of its push in progress, or NoItem
  pushed,    \* for each producer, the answer of its last push
  popped     \* the item of the last pop

queueVars == <<queue, pushing, pushed, popped>>

QueueInit ==
  /\ queue = << >>
  /\ pushing = [p \in Producers |-> NoItem]
  /\ pushed \in [Producers -> BOOLEAN]
  /\ popped = NoItem

BeginPush(p, item) ==
  /\ pushing[p] = NoItem
  /\ pushing' = [pushing EXCEPT ![p] = item]
  /\ UNCHANGED <<queue, pushed, popped>>

Accept(p) ==
  /\ pushing[p] # NoItem
  /\ Len(queue) < Bound
  /\ queue' = Append(queue, pushing[p])
  /\ pushing' = [pushing EXCEPT ![p] = NoItem]
  /\ pushed' = [pushed EXCEPT ![p] = TRUE]
  /\ UNCHANGED popped

Refuse(p) ==
  /\ pushing[p] # NoItem
  /\ pushing' = [pushing EXCEPT ![p] = NoItem]
  /\ pushed' = [pushed EXCEPT ![p] = FALSE]
  /\ UNCHANGED <<queue, popped>>

Take ==
  /\ queue # << >>
  /\ popped' = Head(queue)
  /\ queue' = Tail(queue)
  /\ UNCHANGED <<pushing, pushed>>

QueueNext ==
  \/ \E p \in Producers : (\E item \in Items : BeginPush(p, item)) \/ Accept(p) \/ Refuse(p)
  \/ Take

QueueSpec == QueueInit /\ [][QueueNext]_queueVars

=============================================================================
