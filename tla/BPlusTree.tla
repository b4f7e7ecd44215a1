----------------------------- MODULE BPlusTree -----------------------------
(***************************************************************************)
(* The index of a column, storageTree.hpp.  INSERT, UPDATE and DELETE hold *)
(* the mutex of the table (generator.hpp:127, 216, 355) around every       *)
(* change of its trees, so a tree has one writer; a statistics statement   *)
(* scans it without that mutex (SQL_PARSER.hpp:1382, utility.hpp:487), so  *)
(* it meets the writer at the locks of the tree only.  A call is a         *)
(* sequence of steps, one for each stretch of it under one lock; the       *)
(* levels of a split or of a merge are steps too.                          *)
(*                                                                         *)
(* A recursive lock of a shared_mutex is undefined: glibc answers EDEADLK, *)
(* which libstdc++ throws, other libraries wait for ever.  Both are here.  *)
(***************************************************************************)
EXTENDS Naturals, Sequences, FiniteSets, SequencesExt, Functions

CONSTANTS
  Key,       \* the keys, ordered
  Value,     \* what is stored under a key
  Entries,   \* the pairs of both that the statements insert
  Nodes,     \* bound on the addresses, numbers so that the least is allocated
  MaxKeys,   \* MAX_KEYS, 2 * DEGREE - 1 in the source
  MinKeys,   \* MIN_KEYS, DEGREE - 1 in the source
  Scanner,   \* threads that run statistics statements
  Null       \* nullptr

ASSUME TreeConstants ==
  /\ Key \subseteq Nat /\ Nodes \subseteq Nat /\ Nodes # {} /\ Null \notin Nodes
  /\ Entries \subseteq Key \X Value
  /\ MinKeys \in Nat /\ MaxKeys \in Nat /\ 0 < MinKeys /\ 2 * MinKeys <= MaxKeys

VARIABLES
  node,      \* the nodes that are allocated, with their fields
  root,      \* the root pointer
  call,      \* the writer's call in progress
  scan,      \* for each scanner the leaf it reads next, the keys it has met,
             \* and those stored all the time and at some time since it began
  stored     \* what the calls have put in and not taken out

vars == <<node, root, call, scan, stored>>

-----------------------------------------------------------------------------
(* Nodes and the order of keys *)

Leaf(keys, values, next, parent) ==
  [is_leaf |-> TRUE, keys |-> keys, values |-> values, next |-> next, parent |-> parent]

Internal(keys, children, parent) ==
  [is_leaf |-> FALSE, keys |-> keys, children |-> children, parent |-> parent]

\* The place of the first key that is not less than k.
LowerBound(keys, k) ==
  CHOOSE i \in 1 .. Len(keys) + 1 :
    (\A j \in 1 .. i - 1 : keys[j] < k) /\ (i <= Len(keys) => keys[i] >= k)

FirstGreater(keys, k) ==
  CHOOSE i \in 1 .. Len(keys) + 1 :
    (\A j \in 1 .. i - 1 : keys[j] <= k) /\ (i <= Len(keys) => keys[i] > k)

\* The place where x is first; 0 if it is nowhere.
Find(q, x) ==
  IF \E i \in DOMAIN q : q[i] = x
  THEN CHOOSE i \in DOMAIN q : q[i] = x /\ \A j \in 1 .. i - 1 : q[j] # x
  ELSE 0

find_leaf(k) ==
  LET below[n \in DOMAIN node] ==
        IF node[n].is_leaf THEN n
        ELSE below[node[n].children[FirstGreater(node[n].keys, k)]]
  IN  below[root]

FirstLeaf ==
  LET leftmost[n \in DOMAIN node] ==
        IF node[n].is_leaf THEN n ELSE leftmost[node[n].children[1]]
  IN  leftmost[root]

Unused == Nodes \ DOMAIN node
Fresh == CHOOSE n \in Unused : \A m \in Unused : n <= m

\* The function f, with e at x.
With(f, x, e) == [y \in DOMAIN f \cup {x} |-> IF y = x THEN e ELSE f[y]]

Freed(ns) == Restrict(node, DOMAIN node \ ns)

\* Mutant of AdoptedBy: the moved children keep their parent.
LeftWithParent(p, cs) == node

AdoptedBy(p, cs) ==
  [n \in DOMAIN node |-> IF n \in Range(cs) THEN [node[n] EXCEPT !.parent = p] ELSE node[n]]

-----------------------------------------------------------------------------
(* Locks: the writer has tree_mutex for itself during a split or a merge,  *)
(* a scan shares it from its first leaf to its last.                       *)

Idle == [at |-> "idle"]
NoScan == [leaf |-> Null, met |-> {}, always |-> {}, ever |-> {}]

Scanning == {s \in Scanner : scan[s].leaf # Null}
TreeLocked == call.at \in {"promote", "split_internal", "underflow", "relock", "hung"}

\* After the root is gone, or past the end of children, nothing is defined.
Intact == root \in DOMAIN node /\ call.at # "broken"

Noted(entries) ==
  [s \in Scanner |-> IF s \notin Scanning THEN scan[s]
                     ELSE [scan[s] EXCEPT !.always = @ \cap DOMAIN entries,
                                          !.ever = @ \cup DOMAIN entries]]

Init ==
  /\ root = CHOOSE n \in Nodes : \A m \in Nodes : n <= m
  /\ node = [n \in {root} |-> Leaf(<< >>, << >>, Null, Null)]
  /\ call = Idle
  /\ scan = [s \in Scanner |-> NoScan]
  /\ stored = << >>

-----------------------------------------------------------------------------
(* insert *)

insert(k, v) ==
  /\ call = Idle /\ Intact
  /\ call' = [at |-> "put", leaf |-> find_leaf(k), key |-> k, value |-> v]
  /\ UNCHANGED <<node, root, scan, stored>>

\* Mutant of WithEntry: a new key goes to the end.
WithEntryLast(n, k, v) == [n EXCEPT !.keys = Append(@, k), !.values = Append(@, v)]

WithEntry(n, k, v) ==
  LET i == LowerBound(n.keys, k)
  IN  IF i <= Len(n.keys) /\ n.keys[i] = k
      THEN [n EXCEPT !.values[i] = v]
      ELSE [n EXCEPT !.keys = InsertAt(@, i, k), !.values = InsertAt(@, i, v)]

insert_into_leaf ==
  /\ call.at = "put"
  /\ LET n == WithEntry(node[call.leaf], call.key, call.value) IN
     /\ node' = [node EXCEPT ![call.leaf] = n]
     /\ call' = IF Len(n.keys) > MaxKeys THEN [at |-> "split", leaf |-> call.leaf] ELSE Idle
  /\ stored' = With(stored, call.key, call.value)
  /\ scan' = Noted(stored')
  /\ UNCHANGED root

Promote(left, key, right) == [at |-> "promote", left |-> left, key |-> key, right |-> right]

HalfOf(keys) == (Len(keys) + 1) \div 2

\* Mutant of RightHalf: the new leaf does not lead to the leaf that followed.
RightHalfUnlinked(n) ==
  Leaf(SubSeq(n.keys, HalfOf(n.keys) + 1, Len(n.keys)),
       SubSeq(n.values, HalfOf(n.keys) + 1, Len(n.keys)), Null, n.parent)

RightHalf(n) ==
  Leaf(SubSeq(n.keys, HalfOf(n.keys) + 1, Len(n.keys)),
       SubSeq(n.values, HalfOf(n.keys) + 1, Len(n.keys)), n.next, n.parent)

\* Mutant of LeftHalf: the values are not cut.
LeftHalfUncut(n, right) == [n EXCEPT !.keys = SubSeq(@, 1, HalfOf(n.keys)), !.next = right]

LeftHalf(n, right) ==
  [n EXCEPT !.keys = SubSeq(@, 1, HalfOf(n.keys)), !.values = SubSeq(@, 1, HalfOf(n.keys)),
            !.next = right]

split_leaf ==
  /\ call.at = "split" /\ Scanning = {} /\ Unused # {}
  /\ LET n == node[call.leaf] IN
     /\ node' = With([node EXCEPT ![call.leaf] = LeftHalf(n, Fresh)], Fresh, RightHalf(n))
     /\ call' = Promote(call.leaf, RightHalf(n).keys[1], Fresh)
  /\ UNCHANGED <<root, scan, stored>>

NewRoot ==
  /\ call.at = "promote" /\ call.left = root /\ Unused # {}
  /\ root' = Fresh
  /\ node' = With([node EXCEPT ![call.left].parent = Fresh, ![call.right].parent = Fresh],
                  Fresh, Internal(<<call.key>>, <<call.left, call.right>>, Null))
  /\ call' = Idle
  /\ UNCHANGED <<scan, stored>>

insert_into_parent ==
  /\ call.at = "promote" /\ call.left # root
  /\ LET p == node[call.left].parent
         i == LowerBound(node[p].keys, call.key)
     IN  /\ node' = [node EXCEPT ![p].keys = InsertAt(@, i, call.key),
                                 ![p].children = InsertAt(@, i + 1, call.right),
                                 ![call.right].parent = p]
         /\ call' = IF Len(node'[p].keys) > MaxKeys
                    THEN [at |-> "split_internal", node |-> p] ELSE Idle
  /\ UNCHANGED <<root, scan, stored>>

split_internal ==
  /\ call.at = "split_internal" /\ Unused # {}
  /\ LET n == node[call.node]
         mid == Len(n.keys) \div 2 + 1
         right == Internal(SubSeq(n.keys, mid + 1, Len(n.keys)),
                           SubSeq(n.children, mid + 1, Len(n.children)), n.parent)
         left == [n EXCEPT !.keys = SubSeq(@, 1, mid - 1), !.children = SubSeq(@, 1, mid)]
     IN  /\ node' = With(With(AdoptedBy(Fresh, right.children), call.node, left), Fresh, right)
         /\ call' = Promote(call.node, n.keys[mid], Fresh)
  /\ UNCHANGED <<root, scan, stored>>

-----------------------------------------------------------------------------
(* remove *)

remove(k) ==
  /\ call = Idle /\ Intact
  /\ call' = [at |-> "erase", leaf |-> find_leaf(k), key |-> k]
  /\ UNCHANGED <<node, root, scan, stored>>

delete_from_leaf ==
  /\ call.at = "erase"
  /\ LET n == node[call.leaf]
         i == Find(n.keys, call.key)
     IN  IF i = 0 THEN call' = Idle /\ UNCHANGED <<node, stored>>
         ELSE /\ node' = [node EXCEPT ![call.leaf].keys = RemoveAt(@, i),
                                      ![call.leaf].values = RemoveAt(@, i)]
              /\ stored' = Restrict(stored, DOMAIN stored \ {call.key})
              /\ call' = IF call.leaf # root /\ Len(n.keys) - 1 < MinKeys
                         THEN [at |-> "rebalance", leaf |-> call.leaf] ELSE Idle
  /\ scan' = Noted(stored')
  /\ UNCHANGED root

\* The writer gets tree_mutex; a root has no parent and returns at once.
rebalance ==
  /\ call.at = "rebalance" /\ Scanning = {}
  /\ call' = IF node[call.leaf].parent = Null THEN Idle
             ELSE [at |-> "underflow", leaf |-> call.leaf]
  /\ UNCHANGED <<node, root, scan, stored>>

\* The leaf that runs short, its parent, and the leaf's place there.
Parent == node[call.leaf].parent
Siblings == node[Parent].children
Pos == Find(Siblings, call.leaf)

LeftCanLend == Pos > 1 /\ Len(node[Siblings[Pos - 1]].keys) > MinKeys
RightCanLend == Pos < Len(Siblings) /\ Len(node[Siblings[Pos + 1]].keys) > MinKeys

borrow_from_left ==
  /\ call.at = "underflow" /\ LeftCanLend
  /\ LET l == Siblings[Pos - 1] IN
     node' = [node EXCEPT ![l].keys = Front(@), ![l].values = Front(@),
                          ![call.leaf].keys = <<Last(node[l].keys)>> \o @,
                          ![call.leaf].values = <<Last(node[l].values)>> \o @,
                          ![Parent].keys[Pos - 1] = Last(node[l].keys)]
  /\ call' = Idle
  /\ UNCHANGED <<root, scan, stored>>

borrow_from_right ==
  /\ call.at = "underflow" /\ ~LeftCanLend /\ RightCanLend
  /\ LET r == Siblings[Pos + 1] IN
     node' = [node EXCEPT ![r].keys = Tail(@), ![r].values = Tail(@),
                          ![call.leaf].keys = Append(@, Head(node[r].keys)),
                          ![call.leaf].values = Append(@, Head(node[r].values)),
                          ![Parent].keys[Pos] = node[r].keys[2]]
  /\ call' = Idle
  /\ UNCHANGED <<root, scan, stored>>

\* Leaf r becomes part of leaf l; i is the place of the key between them.  An
\* empty root is deleted, and its destructor deletes the child it still lists.
Merge(l, r, i) ==
  LET p == [node[Parent] EXCEPT !.keys = RemoveAt(@, i), !.children = RemoveAt(@, i + 1)]
      merged == [node[l] EXCEPT !.keys = @ \o node[r].keys, !.values = @ \o node[r].values,
                                !.next = node[r].next]
      collapse == Parent = root /\ p.keys = << >>
  IN  /\ node' = IF collapse THEN Freed({l, r, Parent})
                 ELSE [Freed({r}) EXCEPT ![l] = merged, ![Parent] = p]
      /\ root' = IF collapse THEN l ELSE root
      /\ call' = IF Parent # root /\ Len(p.keys) < MinKeys THEN [at |-> "relock"] ELSE Idle
      /\ UNCHANGED <<scan, stored>>

NoLender == call.at = "underflow" /\ ~LeftCanLend /\ ~RightCanLend

merge_with_left == NoLender /\ Pos > 1 /\ Merge(Siblings[Pos - 1], call.leaf, Pos - 1)

merge_with_right == NoLender /\ Pos = 1 /\ Len(Siblings) > 1 /\ Merge(call.leaf, Siblings[2], 1)

\* An only child has no sibling: children is read past its end.
MergeWithNone ==
  /\ NoLender /\ Len(Siblings) = 1
  /\ call' = [at |-> "broken"]
  /\ UNCHANGED <<node, root, scan, stored>>

\* The merge runs under the parent's mutex and calls handle_underflow for the parent,
\* where borrowing and merging begin by locking that mutex again (storageTree.hpp:228,
\* 263, 298, 335).
Relock ==
  /\ call.at = "relock"
  /\ call' \in {Idle, [at |-> "hung"]}
  /\ UNCHANGED <<node, root, scan, stored>>

-----------------------------------------------------------------------------
(* forEachKey, one step for a leaf under its lock *)

forEachKey(s) ==
  /\ s \notin Scanning /\ ~TreeLocked /\ Intact
  /\ scan' = [scan EXCEPT ![s] = [leaf |-> FirstLeaf, met |-> {}, always |-> DOMAIN stored,
                                  ever |-> DOMAIN stored]]
  /\ UNCHANGED <<node, root, call, stored>>

Met(s) == scan[s].met \cup Range(node[scan[s].leaf].keys)

ScanLeaf(s) ==
  /\ s \in Scanning
  /\ LET next == node[scan[s].leaf].next IN
     scan' = [scan EXCEPT ![s] = IF next = Null THEN NoScan
                                 ELSE [@ EXCEPT !.leaf = next, !.met = Met(s)]]
  /\ UNCHANGED <<node, root, call, stored>>

-----------------------------------------------------------------------------
Step ==
  \/ insert_into_leaf \/ split_leaf \/ NewRoot \/ insert_into_parent \/ split_internal
  \/ delete_from_leaf \/ rebalance \/ borrow_from_left \/ borrow_from_right
  \/ merge_with_left \/ merge_with_right \/ MergeWithNone \/ Relock

Next ==
  \/ \E k \in Key : remove(k)
  \/ \E e \in Entries : insert(e[1], e[2])
  \/ Step
  \/ \E s \in Scanner : forEachKey(s) \/ ScanLeaf(s)

Spec == Init /\ [][Next]_vars

-----------------------------------------------------------------------------
(* Properties *)

search(k) ==
  LET n == node[find_leaf(k)]
      i == Find(n.keys, k)
  IN  IF i = 0 THEN Null ELSE n.values[i]

ChainKeys ==
  LET chain[n \in {m \in DOMAIN node : node[m].is_leaf}] ==
        node[n].keys \o (IF node[n].next = Null THEN << >> ELSE chain[node[n].next])
  IN  chain[FirstLeaf]

Depths ==
  LET depths[n \in DOMAIN node] ==
        IF node[n].is_leaf THEN {0}
        ELSE {d + 1 : d \in UNION {depths[c] : c \in Range(node[n].children)}}
  IN  depths[root]

\* Types; the nodes of the tree have the fields of their kind.
TypeOK ==
  /\ DOMAIN node \subseteq Nodes /\ root \in Nodes
  /\ \A n \in DOMAIN node :
       IF node[n].is_leaf
       THEN /\ node[n].keys \in Seq(Key) /\ node[n].values \in Seq(Value)
            /\ Len(node[n].values) = Len(node[n].keys)
            /\ node[n].next \in DOMAIN node \cup {Null}
       ELSE /\ node[n].keys \in Seq(Key) /\ node[n].children \in Seq(Nodes)
            /\ Len(node[n].children) = Len(node[n].keys) + 1
  /\ stored \in UNION {[ks -> Value] : ks \in SUBSET Key}
  /\ \A s \in Scanner : scan[s].leaf \in DOMAIN node \cup {Null}

\* Whenever a thread may descend (tree_mutex is free), find_leaf and the leaf
\* it ends in give for every key exactly what the calls have left there: the
\* separators that splits promote and that borrowing replaces still divide the
\* keys, whatever stale separators removals have left.
SearchFinds ==
  Intact /\ ~TreeLocked =>
    \A k \in Key : search(k) = IF k \in DOMAIN stored THEN stored[k] ELSE Null

\* The next pointers lead through all keys in increasing order, also while a
\* split has linked the new leaf and not yet told the parent.
ChainInOrder ==
  Intact => LET keys == ChainKeys
            IN  /\ \A i, j \in 1 .. Len(keys) : i < j => keys[i] < keys[j]
                /\ Range(keys) = DOMAIN stored

\* Between calls parent pointers agree with the children lists, where
\* handle_underflow looks for the node (also after splits that move half of the
\* children), every leaf is as deep as every other, none but a root is below
\* MIN_KEYS and no node is above MAX_KEYS.
WellFormed ==
  Intact /\ call = Idle =>
    /\ Cardinality(Depths) = 1
    /\ \A n \in DOMAIN node :
         /\ IF n = root THEN node[n].parent = Null
            ELSE /\ node[n].parent \in DOMAIN node
                 /\ Cardinality({i \in DOMAIN node[node[n].parent].children :
                                   node[node[n].parent].children[i] = n}) = 1
         /\ Len(node[n].keys) <= MaxKeys
         /\ node[n].is_leaf /\ n # root => Len(node[n].keys) >= MinKeys

\* A scan that ends has met every key that was stored all the time since it
\* began and none that was stored at no time, whatever the writer did beside it.
ScanComplete ==
  [][\A s \in Scanning : scan'[s].leaf = Null =>
       scan[s].always \subseteq Met(s) /\ Met(s) \subseteq scan[s].ever]_vars

\* README.md:197: updates and deletions maintain structural integrity.  The root
\* is a node, and between calls no node but the root is below MIN_KEYS.
StructuralIntegrity ==
  /\ root \in DOMAIN node
  /\ call = Idle => \A n \in DOMAIN node \ {root} : Len(node[n].keys) >= MinKeys

=============================================================================
