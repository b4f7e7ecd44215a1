--------------------------- MODULE BPlusTreeProofs ---------------------------
(***************************************************************************)
(* For every set of keys and values, every MAX_KEYS and MIN_KEYS that      *)
(* agree, and any number of scans: the tree of storageTree.hpp stays a     *)
(* search tree that holds what the calls have stored.                      *)
(***************************************************************************)
EXTENDS BPlusTreeShapeProofs

-----------------------------------------------------------------------------
(* The inductive invariant.  What a call has still to do is part of it: the    *)
(* new node of a split, the node with a key too many, the leaf with one too    *)
(* few, and the leaf that a key has been sought in.                            *)

Left(c) == IF c.at = "promote" THEN c.left ELSE Null
Right(c) == IF c.at = "promote" THEN c.right ELSE Null
Middle(c) == IF c.at = "promote" THEN c.key ELSE 0

Over(c) == IF c.at = "split" THEN c.leaf ELSE IF c.at = "split_internal" THEN c.node ELSE Null
Short(c) == IF c.at \in {"rebalance", "underflow"} THEN c.leaf ELSE Null

Full(nd, over) ==
  \A n \in DOMAIN nd :
    IF n = over THEN Len(nd[n].keys) = MaxKeys + 1 ELSE Len(nd[n].keys) <= MaxKeys

Filled(nd, r, short) ==
  \A n \in DOMAIN nd : nd[n] \in LeafNodes /\ n # r =>
    IF n = short THEN Len(nd[n].keys) + 1 = MinKeys ELSE Len(nd[n].keys) >= MinKeys

\* The leaf n has the entries of its range.
Holds(nd, lo, hi, st, n) ==
  /\ \A i \in 1 .. Len(nd[n].keys) :
       nd[n].keys[i] \in DOMAIN st /\ st[nd[n].keys[i]] = nd[n].values[i]
  /\ \A k \in DOMAIN st : lo[n] <= k /\ Below(k, hi[n]) =>
       \E i \in 1 .. Len(nd[n].keys) : nd[n].keys[i] = k

Held(nd, lo, hi, st) == \A n \in DOMAIN nd : nd[n] \in LeafNodes => Holds(nd, lo, hi, st, n)

CallFits(nd, r, lo, hi, c) ==
  /\ c.at \in {"put", "erase", "split", "rebalance", "underflow"} =>
       c.leaf \in DOMAIN nd /\ nd[c.leaf] \in LeafNodes
  /\ c.at \in {"put", "erase"} => c.key \in Key /\ lo[c.leaf] <= c.key /\ Below(c.key, hi[c.leaf])
  /\ c.at = "put" => c.value \in Value
  /\ c.at \in {"rebalance", "underflow"} => c.leaf # r
  /\ c.at = "split_internal" => c.node \in DOMAIN nd /\ nd[c.node] \in InnerNodes
  /\ c.at = "promote" => /\ c.left \in DOMAIN nd
                         /\ nd[c.left] \in LeafNodes => Len(nd[c.left].keys) >= MinKeys

Sound(nd, r, st, c, h, lo, hi) ==
  /\ Tree(nd, r, h, lo, hi, Left(c), Middle(c), Right(c))
  /\ Full(nd, Over(c)) /\ (c.at # "broken" => Filled(nd, r, Short(c)))
  /\ Held(nd, lo, hi, st) /\ CallFits(nd, r, lo, hi, c)

\* The keys of the leaves that a scan has passed are met.
Scanned(nd, lo, sc, st) ==
  \A s \in Scanner : sc[s].leaf # Null =>
    /\ sc[s].leaf \in DOMAIN nd /\ nd[sc[s].leaf] \in LeafNodes
    /\ sc[s].always \subseteq DOMAIN st /\ DOMAIN st \subseteq sc[s].ever
    /\ sc[s].met \subseteq sc[s].ever
    /\ \A k \in sc[s].always : k < lo[sc[s].leaf] => k \in sc[s].met

Kept(st) == st \in [DOMAIN st -> Value] /\ DOMAIN st \subseteq Key

ScanRecords ==
  [leaf : Nodes \cup {Null}, met : SUBSET Key, always : SUBSET Key, ever : SUBSET Key]

Live(h, lo, hi) ==
  /\ Sound(node, root, stored, call, h, lo, hi)
  /\ Scanned(node, lo, scan, stored)
  /\ TreeLocked => Scanning = {}

\* After the last merge has deleted the root.
Gone == DOMAIN node = {} /\ root \in Nodes /\ call = Idle /\ Scanning = {}

IndexInv ==
  /\ Kept(stored) /\ scan \in [Scanner -> ScanRecords]
  /\ Gone \/ \E h, lo, hi : Live(h, lo, hi)

-----------------------------------------------------------------------------
(* Steps of the calls that leave the tree as it is *)

\* Nothing but the call changes, and no node waits for its parent.
LEMMA OnlyCall ==
  ASSUME NEW h, NEW lo, NEW hi, Live(h, lo, hi), Kept(stored), scan \in [Scanner -> ScanRecords],
         UNCHANGED <<node, root, scan, stored>>,
         call.at # "promote", call'.at # "promote",
         Over(call) = Null, Over(call') = Null,
         call'.at # "broken" => call.at # "broken" /\ Short(call') = Short(call),
         CallFits(node, root, lo, hi, call'),
         TreeLocked' => Scanning = {}
  PROVE  IndexInv'
<1>1. Sound(node, root, stored, call, h, lo, hi) /\ Scanned(node, lo, scan, stored)
  BY DEF Live
<1>2. /\ Tree(node, root, h, lo, hi, Left(call), Middle(call), Right(call))
      /\ Full(node, Over(call)) /\ (call.at # "broken" => Filled(node, root, Short(call)))
      /\ Held(node, lo, hi, stored)
  BY <1>1 DEF Sound
<1>3. Left(call') = Left(call) /\ Middle(call') = Middle(call) /\ Right(call') = Right(call)
  BY DEF Left, Middle, Right
<1>4. /\ Tree(node, root, h, lo, hi, Left(call'), Middle(call'), Right(call'))
      /\ Full(node, Over(call')) /\ (call'.at # "broken" => Filled(node, root, Short(call')))
  BY <1>2, <1>3
<1>5. Sound(node, root, stored, call', h, lo, hi)
  BY <1>2, <1>4 DEF Sound
<1>6. node' = node /\ root' = root /\ scan' = scan /\ stored' = stored
  OBVIOUS
<1>7. Sound(node, root, stored, call, h, lo, hi)'
  BY <1>5, <1>6
<1>8. Scanned(node, lo, scan, stored)'
  BY <1>1, <1>6
<1>9. Scanning' = Scanning
  BY <1>6 DEF Scanning
<1>10. Live(h, lo, hi)'
  BY <1>7, <1>8, <1>9 DEF Live
<1> QED BY <1>6, <1>10 DEF IndexInv, Kept

\* No call is at work on the tree.
LEMMA QuietTree ==
  ASSUME NEW h, NEW lo, NEW hi, Live(h, lo, hi), call.at # "promote"
  PROVE  Tree(node, root, h, lo, hi, Null, 0, Null)
BY DEF Live, Sound, Left, Middle, Right

\* insert's descent.
LEMMA InsertKeeps ==
  ASSUME NEW h, NEW lo, NEW hi, Live(h, lo, hi), Kept(stored), scan \in [Scanner -> ScanRecords],
         NEW k \in Key, NEW v \in Value, insert(k, v)
  PROVE  IndexInv'
<1>1. /\ call.at = "idle" /\ UNCHANGED <<node, root, scan, stored>>
      /\ call'.at = "put" /\ call'.leaf = find_leaf(k) /\ call'.key = k /\ call'.value = v
  BY DEF insert, Idle
<1>2. Tree(node, root, h, lo, hi, Null, 0, Null)
  BY <1>1, QuietTree
<1>3. /\ find_leaf(k) \in DOMAIN node /\ node[find_leaf(k)] \in LeafNodes
      /\ lo[find_leaf(k)] <= k /\ Below(k, hi[find_leaf(k)])
  BY <1>2, FindLeafFacts, TreeFacts
<1>4. CallFits(node, root, lo, hi, call')
  BY <1>1, <1>3 DEF CallFits
<1>5. ~TreeLocked' /\ Over(call) = Null /\ Over(call') = Null /\ Short(call') = Short(call)
  BY <1>1 DEF TreeLocked, Over, Short
<1> QED BY <1>1, <1>4, <1>5, OnlyCall

\* remove's descent.
LEMMA RemoveKeeps ==
  ASSUME NEW h, NEW lo, NEW hi, Live(h, lo, hi), Kept(stored), scan \in [Scanner -> ScanRecords],
         NEW k \in Key, remove(k)
  PROVE  IndexInv'
<1>1. /\ call.at = "idle" /\ UNCHANGED <<node, root, scan, stored>>
      /\ call'.at = "erase" /\ call'.leaf = find_leaf(k) /\ call'.key = k
  BY DEF remove, Idle
<1>2. Tree(node, root, h, lo, hi, Null, 0, Null)
  BY <1>1, QuietTree
<1>3. /\ find_leaf(k) \in DOMAIN node /\ node[find_leaf(k)] \in LeafNodes
      /\ lo[find_leaf(k)] <= k /\ Below(k, hi[find_leaf(k)])
  BY <1>2, FindLeafFacts, TreeFacts
<1>4. CallFits(node, root, lo, hi, call')
  BY <1>1, <1>3 DEF CallFits
<1>5. ~TreeLocked' /\ Over(call) = Null /\ Over(call') = Null /\ Short(call') = Short(call)
  BY <1>1 DEF TreeLocked, Over, Short
<1> QED BY <1>1, <1>4, <1>5, OnlyCall

\* The leaf of a rebalancing has a parent.
LEMMA ShortHasParent ==
  ASSUME NEW h, NEW lo, NEW hi, Live(h, lo, hi), call.at \in {"rebalance", "underflow"}
  PROVE  /\ call.leaf \in DOMAIN node /\ node[call.leaf] \in LeafNodes
         /\ Parent \in DOMAIN node /\ node[Parent] \in InnerNodes /\ h[Parent] = 1
         /\ \E i \in 1 .. Len(Siblings) : Siblings[i] = call.leaf
<1>1. Tree(node, root, h, lo, hi, Null, 0, Null) /\ CallFits(node, root, lo, hi, call)
  BY QuietTree DEF Live, Sound
<1>2. /\ Typed(node) /\ Levels(node, root, h) /\ Kids(node, h, lo, hi, Null, Null)
      /\ Listed(node, root, Null)
  BY <1>1 DEF Tree
<1>3. call.leaf \in DOMAIN node /\ node[call.leaf] \in LeafNodes /\ call.leaf # root
  BY <1>1 DEF CallFits
<1>4. call.leaf # Null
  BY <1>2, <1>3, NodeFacts
<1>5. PICK p \in DOMAIN node : p = node[call.leaf].parent /\ node[p] \in InnerNodes
                          /\ \E i \in 1 .. Len(node[p].children) : node[p].children[i] = call.leaf
  BY <1>2, <1>3, <1>4 DEF Listed
<1>6. PICK i \in 1 .. Len(node[p].children) : node[p].children[i] = call.leaf
  BY <1>5
<1>7. Child(node, h, lo, hi, Null, Null, p, i)
  BY <1>2, <1>5, ChildFacts
<1>8. h[call.leaf] + 1 = h[p] /\ h[call.leaf] = 0
  BY <1>2, <1>3, <1>6, <1>7 DEF Child, Levels
<1> QED BY <1>3, <1>5, <1>8 DEF Parent, Siblings

\* rebalance_after_deletion's early return or its choice to go on.
LEMMA RebalanceKeeps ==
  ASSUME NEW h, NEW lo, NEW hi, Live(h, lo, hi), Kept(stored), scan \in [Scanner -> ScanRecords],
         rebalance
  PROVE  IndexInv'
<1>1. /\ call.at = "rebalance" /\ Scanning = {} /\ UNCHANGED <<node, root, scan, stored>>
      /\ call' = IF node[call.leaf].parent = Null THEN Idle ELSE [at |-> "underflow", leaf |-> call.leaf]
  BY DEF rebalance
<1>2. Parent \in DOMAIN node /\ Typed(node)
  BY <1>1, ShortHasParent, QuietTree DEF Tree
<1>3. node[call.leaf].parent # Null
  BY <1>2, NodeFacts DEF Parent
<1>4. call'.at = "underflow" /\ call'.leaf = call.leaf
  BY <1>1, <1>3
<1>5. CallFits(node, root, lo, hi, call')
  BY <1>1, <1>4 DEF CallFits, Live, Sound
<1>6. Over(call) = Null /\ Over(call') = Null /\ Short(call') = Short(call)
  BY <1>1, <1>4 DEF Over, Short
<1> QED BY <1>1, <1>4, <1>5, <1>6, OnlyCall

\* An only child has no sibling: children is read past its end, and the tree is broken.
LEMMA MergeWithNoneKeeps ==
  ASSUME NEW h, NEW lo, NEW hi, Live(h, lo, hi), Kept(stored), scan \in [Scanner -> ScanRecords],
         MergeWithNone
  PROVE  IndexInv'
<1>1. /\ call.at = "underflow" /\ call'.at = "broken" /\ UNCHANGED <<node, root, scan, stored>>
  BY DEF MergeWithNone, NoLender
<1>2. CallFits(node, root, lo, hi, call') /\ ~TreeLocked' /\ Over(call) = Null /\ Over(call') = Null
  BY <1>1 DEF CallFits, TreeLocked, Over
<1> QED BY <1>1, <1>2, OnlyCall

\* The mutex locked by the thread that holds it: undefined, so the call goes on or hangs.
LEMMA RelockKeeps ==
  ASSUME NEW h, NEW lo, NEW hi, Live(h, lo, hi), Kept(stored), scan \in [Scanner -> ScanRecords],
         Relock
  PROVE  IndexInv'
<1>1. /\ call.at = "relock" /\ call'.at \in {"idle", "hung"} /\ UNCHANGED <<node, root, scan, stored>>
  BY DEF Relock, Idle
<1>2. /\ CallFits(node, root, lo, hi, call') /\ Scanning = {} /\ Over(call) = Null
      /\ Over(call') = Null /\ Short(call') = Short(call)
  BY <1>1 DEF CallFits, TreeLocked, Over, Short, Live
<1> QED BY <1>1, <1>2, OnlyCall

-----------------------------------------------------------------------------
(* Entries that come and go *)

\* e is the leaf x with v under k.
EntryPut(x, e, k, v) ==
  /\ e \in LeafNodes /\ e.parent = x.parent /\ e.next = x.next
  /\ Len(e.values) = Len(e.keys) /\ Sorted(e.keys)
  /\ Len(e.keys) = Len(x.keys) \/ Len(e.keys) = Len(x.keys) + 1
  /\ \A i \in 1 .. Len(e.keys) :
       \/ e.keys[i] = k /\ e.values[i] = v
       \/ /\ e.keys[i] # k
          /\ \E j \in 1 .. Len(x.keys) : e.keys[i] = x.keys[j] /\ e.values[i] = x.values[j]
  /\ \E i \in 1 .. Len(e.keys) : e.keys[i] = k
  /\ \A j \in 1 .. Len(x.keys) : \E i \in 1 .. Len(e.keys) : e.keys[i] = x.keys[j]

\* What insert_into_leaf makes of a leaf.
LEMMA WithEntryFacts ==
  ASSUME NEW x \in LeafNodes, Len(x.values) = Len(x.keys), Sorted(x.keys),
         NEW k \in Key, NEW v \in Value
  PROVE  EntryPut(x, WithEntry(x, k, v), k, v)
<1>1. PICK i, q, w, n : i = LowerBound(x.keys, k) /\ q = x.keys /\ w = x.values /\ n = Len(q)
  OBVIOUS
<1>2. /\ q \in Seq(Key) /\ q \in Seq(Nat) /\ w \in Seq(Value) /\ n \in Nat /\ k \in Nat /\ Len(w) = n
      /\ Sorted(q)
  <2>1. x.keys \in Seq(Key) /\ x.values \in Seq(Value)
    BY DEF LeafNodes
  <2>2. q \in Seq(Nat)
    BY <1>1, <2>1, KeySeq
  <2> QED BY <1>1, <2>1, <2>2, TreeFacts
<1>3. i \in 1 .. n + 1 /\ (\A j \in 1 .. i - 1 : q[j] < k) /\ (i <= n => q[i] >= k)
  BY <1>1, <1>2, LowerBoundFacts DEF IsLowerBound
<1>4. PICK e : e = WithEntry(x, k, v)
  OBVIOUS
<1>5. CASE i <= n /\ q[i] = k
  <2>1. e = [x EXCEPT !.values[i] = v]
    BY <1>1, <1>4, <1>5 DEF WithEntry
  <2>2. PICK w2 : w2 = [w EXCEPT ![i] = v]
    OBVIOUS
  <2>3. w2 \in Seq(Value) /\ Len(w2) = n /\ w2[i] = v /\ \A j \in 1 .. n : j # i => w2[j] = w[j]
    BY <1>2, <1>3, <1>5, <2>2
  <2>4. e = [x EXCEPT !.values = w2]
    BY <1>1, <2>1, <2>2 DEF LeafNodes
  <2>5. e \in LeafNodes /\ e.parent = x.parent /\ e.next = x.next /\ e.keys = q /\ e.values = w2
    BY <1>1, <2>3, <2>4 DEF LeafNodes
  <2>6. i \in 1 .. n /\ q[i] \in Nat
    BY <1>1, <1>2, <1>3, <1>5
  <2>7. ASSUME NEW j \in 1 .. n, j # i PROVE q[j] # k
    <3>1. q[j] \in Nat /\ (j < i => q[j] < q[i]) /\ (i < j => q[i] < q[j])
      BY <1>1, <1>2, <2>6 DEF Sorted
    <3> QED BY <1>2, <1>5, <2>6, <2>7, <3>1
  <2>8. ASSUME NEW j \in 1 .. n
        PROVE  (q[j] = k /\ w2[j] = v) \/ (q[j] # k /\ \E y \in 1 .. n : q[j] = q[y] /\ w2[j] = w[y])
    BY <1>5, <2>3, <2>7
  <2>9. EntryPut(x, e, k, v)
    <3>1. /\ \A j \in 1 .. Len(q) :
               \/ q[j] = k /\ w2[j] = v
               \/ q[j] # k /\ \E y \in 1 .. Len(x.keys) : q[j] = x.keys[y] /\ w2[j] = x.values[y]
          /\ \E j \in 1 .. Len(q) : q[j] = k
      BY <1>1, <1>5, <2>6, <2>8
    <3>2. /\ Len(w2) = Len(q) /\ Sorted(q) /\ Len(q) = Len(x.keys)
          /\ \A j \in 1 .. Len(x.keys) : \E y \in 1 .. Len(q) : q[y] = x.keys[j]
      BY <1>1, <1>2, <2>3
    <3> QED BY <2>5, <3>1, <3>2 DEF EntryPut
  <2> QED BY <1>4, <2>9
<1>6. CASE ~(i <= n /\ q[i] = k)
  <2>1. e = [x EXCEPT !.keys = InsertAt(@, i, k), !.values = InsertAt(@, i, v)]
    BY <1>1, <1>4, <1>6 DEF WithEntry
  <2>2. PICK q2, w2 : q2 = InsertAt(q, i, k) /\ w2 = InsertAt(w, i, v)
    OBVIOUS
  <2>3. q2 \in Seq(Key) /\ Inserted(q, i, k, q2) /\ w2 \in Seq(Value) /\ Inserted(w, i, v, w2)
    BY <1>1, <1>2, <1>3, <2>2, InsertAtFacts
  <2>4. e = [x EXCEPT !.keys = q2, !.values = w2]
    BY <1>1, <2>1, <2>2 DEF LeafNodes
  <2>5. e \in LeafNodes /\ e.parent = x.parent /\ e.next = x.next /\ e.keys = q2 /\ e.values = w2
    BY <1>1, <2>3, <2>4 DEF LeafNodes
  <2>6. q2 \in Seq(Nat)
    BY <2>3, KeySeq
  <2>7. i <= n => q[i] > k
    <3>1. i <= n => q[i] \in Nat
      BY <1>1, <1>2, <1>3
    <3> QED BY <1>2, <1>3, <1>6, <3>1
  <2>8. Sorted(q2)
    BY <1>1, <1>2, <1>3, <2>3, <2>6, <2>7, InsertedSorted
  <2>9. /\ Len(q2) = n + 1 /\ Len(w2) = n + 1
        /\ \A j \in 1 .. n + 1 : q2[j] = IF j < i THEN q[j] ELSE IF j = i THEN k ELSE q[j - 1]
        /\ \A j \in 1 .. n + 1 : w2[j] = IF j < i THEN w[j] ELSE IF j = i THEN v ELSE w[j - 1]
    BY <1>1, <1>2, <2>3 DEF Inserted
  <2>10. ASSUME NEW j \in 1 .. n PROVE q[j] # k
    <3>1. CASE j < i
      BY <1>2, <1>3, <3>1
    <3>2. CASE i <= j
      <4>1. i \in 1 .. n /\ q[i] > k /\ q[i] <= q[j] /\ q[i] \in Nat /\ q[j] \in Nat
        BY <1>1, <1>2, <1>3, <2>7, <3>2, SortedStep
      <4> QED BY <1>2, <4>1
    <3> QED BY <1>2, <1>3, <3>1, <3>2
  <2>11. ASSUME NEW j \in 1 .. n + 1
         PROVE  \/ q2[j] = k /\ w2[j] = v
                \/ q2[j] # k /\ \E y \in 1 .. n : q2[j] = q[y] /\ w2[j] = w[y]
    <3>1. CASE j < i
      <4>1. j \in 1 .. n /\ q2[j] = q[j] /\ w2[j] = w[j]
        BY <1>2, <1>3, <2>9, <3>1
      <4> QED BY <2>10, <4>1
    <3>2. CASE j = i
      BY <2>9, <3>2
    <3>3. CASE j > i
      <4>1. j - 1 \in 1 .. n /\ q2[j] = q[j - 1] /\ w2[j] = w[j - 1]
        BY <1>2, <1>3, <2>9, <3>3
      <4> QED BY <2>10, <4>1
    <3> QED BY <1>3, <3>1, <3>2, <3>3
  <2>12. \E j \in 1 .. n + 1 : q2[j] = k
    BY <1>3, <2>9
  <2>13. ASSUME NEW j \in 1 .. n PROVE \E y \in 1 .. n + 1 : q2[y] = q[j]
    <3>1. CASE j < i
      <4>1. j \in 1 .. n + 1
        BY <1>2
      <4> QED BY <2>9, <3>1, <4>1
    <3>2. CASE ~(j < i)
      <4>1. j + 1 \in 1 .. n + 1 /\ ~(j + 1 < i) /\ j + 1 # i /\ (j + 1) - 1 = j
        BY <1>2, <1>3, <3>2
      <4> QED BY <2>9, <4>1
    <3> QED BY <3>1, <3>2
  <2>14. EntryPut(x, e, k, v)
    BY <1>1, <2>5, <2>8, <2>9, <2>11, <2>12, <2>13 DEF EntryPut
  <2> QED BY <1>4, <2>14
<1> QED BY <1>5, <1>6

\* e is the leaf x without k.
EntryTaken(x, e, k) ==
  /\ e \in LeafNodes /\ e.parent = x.parent /\ e.next = x.next
  /\ Len(e.values) = Len(e.keys) /\ Sorted(e.keys) /\ Len(e.keys) + 1 = Len(x.keys)
  /\ \A i \in 1 .. Len(e.keys) :
       /\ e.keys[i] # k
       /\ \E j \in 1 .. Len(x.keys) : e.keys[i] = x.keys[j] /\ e.values[i] = x.values[j]
  /\ \A j \in 1 .. Len(x.keys) : x.keys[j] # k => \E i \in 1 .. Len(e.keys) : e.keys[i] = x.keys[j]

\* What delete_from_leaf makes of a leaf.
LEMMA TakingFacts ==
  ASSUME NEW x \in LeafNodes, Len(x.values) = Len(x.keys), Sorted(x.keys), NEW k,
         NEW i \in 1 .. Len(x.keys), x.keys[i] = k
  PROVE  EntryTaken(x, [x EXCEPT !.keys = RemoveAt(x.keys, i), !.values = RemoveAt(x.values, i)], k)
<1>1. PICK q, w, n : q = x.keys /\ w = x.values /\ n = Len(q)
  OBVIOUS
<1>2. /\ q \in Seq(Key) /\ q \in Seq(Nat) /\ w \in Seq(Value) /\ n \in Nat /\ Len(w) = n
      /\ Sorted(q) /\ i \in 1 .. n /\ q[i] = k
  <2>1. x.keys \in Seq(Key) /\ x.values \in Seq(Value)
    BY DEF LeafNodes
  <2>2. q \in Seq(Nat)
    BY <1>1, <2>1, KeySeq
  <2> QED BY <1>1, <2>1, <2>2
<1>3. PICK q2, w2 : q2 = RemoveAt(q, i) /\ w2 = RemoveAt(w, i)
  OBVIOUS
<1>4. q2 \in Seq(Key) /\ Removed(q, i, q2) /\ w2 \in Seq(Value) /\ Removed(w, i, w2)
  BY <1>1, <1>2, <1>3, RemoveAtFacts
<1>5. PICK e : e = [x EXCEPT !.keys = q2, !.values = w2]
  OBVIOUS
<1>6. e \in LeafNodes /\ e.parent = x.parent /\ e.next = x.next /\ e.keys = q2 /\ e.values = w2
  BY <1>4, <1>5 DEF LeafNodes
<1>7. /\ Len(q2) = n - 1 /\ Len(w2) = n - 1
      /\ \A j \in 1 .. n - 1 : q2[j] = IF j < i THEN q[j] ELSE q[j + 1]
      /\ \A j \in 1 .. n - 1 : w2[j] = IF j < i THEN w[j] ELSE w[j + 1]
  BY <1>1, <1>2, <1>4 DEF Removed
<1>8. \A y, z \in 1 .. n : y < z => q[y] < q[z]
  BY <1>1, <1>2 DEF Sorted
<1>9. \A y \in 1 .. n : q[y] \in Nat
  BY <1>1, <1>2
<1>10. Sorted(q2)
  <2> SUFFICES ASSUME NEW y \in 1 .. n - 1, NEW z \in 1 .. n - 1, y < z PROVE q2[y] < q2[z]
    BY <1>7 DEF Sorted
  <2>1. y \in 1 .. n /\ z \in 1 .. n /\ y + 1 \in 1 .. n /\ z + 1 \in 1 .. n
    BY <1>2
  <2>2. CASE z < i
    <3>1. q2[y] = q[y] /\ q2[z] = q[z]
      BY <1>2, <1>7, <2>2
    <3> QED BY <1>8, <2>1, <3>1
  <2>3. CASE y < i /\ ~(z < i)
    <3>1. y < z + 1 /\ q2[y] = q[y] /\ q2[z] = q[z + 1]
      BY <1>7, <2>3
    <3> QED BY <1>8, <2>1, <3>1
  <2>4. CASE ~(y < i)
    <3>1. y + 1 < z + 1 /\ q2[y] = q[y + 1] /\ q2[z] = q[z + 1]
      BY <1>2, <1>7, <2>4
    <3> QED BY <1>8, <2>1, <3>1
  <2> QED BY <2>2, <2>3, <2>4
<1>11. ASSUME NEW j \in 1 .. n, j # i PROVE q[j] # k
  BY <1>2, <1>8, <1>9, <1>11
<1>12. ASSUME NEW j \in 1 .. n - 1
       PROVE  q2[j] # k /\ \E y \in 1 .. n : q2[j] = q[y] /\ w2[j] = w[y]
  <2>1. CASE j < i
    <3>1. j \in 1 .. n /\ j # i /\ q2[j] = q[j] /\ w2[j] = w[j]
      BY <1>2, <1>7, <2>1
    <3> QED BY <1>11, <3>1
  <2>2. CASE ~(j < i)
    <3>1. j + 1 \in 1 .. n /\ j + 1 # i /\ q2[j] = q[j + 1] /\ w2[j] = w[j + 1]
      BY <1>2, <1>7, <2>2
    <3> QED BY <1>11, <3>1
  <2> QED BY <2>1, <2>2
<1>13. ASSUME NEW j \in 1 .. n, q[j] # k PROVE \E y \in 1 .. n - 1 : q2[y] = q[j]
  <2>1. j # i
    BY <1>2, <1>13
  <2>2. CASE j < i
    <3>1. j \in 1 .. n - 1
      BY <1>2, <2>2
    <3> QED BY <1>7, <2>2, <3>1
  <2>3. CASE ~(j < i)
    <3>1. j - 1 \in 1 .. n - 1 /\ ~(j - 1 < i) /\ (j - 1) + 1 = j
      BY <1>2, <2>1, <2>3
    <3> QED BY <1>7, <3>1
  <2> QED BY <2>2, <2>3
<1>14. Len(q2) + 1 = n
  BY <1>2, <1>7
<1>15. EntryTaken(x, e, k)
  <2>1. \A j \in 1 .. Len(q2) : q2[j] # k /\ \E y \in 1 .. n : q2[j] = q[y] /\ w2[j] = w[y]
    BY <1>7, <1>12
  <2>2. \A j \in 1 .. n : q[j] # k => \E y \in 1 .. Len(q2) : q2[y] = q[j]
    BY <1>7, <1>13
  <2>3. /\ Len(w2) = Len(q2) /\ Sorted(q2) /\ Len(q2) + 1 = Len(x.keys)
        /\ \A j \in 1 .. Len(q2) :
             /\ q2[j] # k
             /\ \E y \in 1 .. Len(x.keys) : q2[j] = x.keys[y] /\ w2[j] = x.values[y]
        /\ \A j \in 1 .. Len(x.keys) : x.keys[j] # k => \E y \in 1 .. Len(q2) : q2[y] = x.keys[j]
    BY <1>1, <1>7, <1>10, <1>14, <2>1, <2>2
  <2> QED BY <1>6, <2>3 DEF EntryTaken
<1> QED BY <1>1, <1>3, <1>5, <1>15

-----------------------------------------------------------------------------
(* insert_into_leaf and delete_from_leaf *)

\* A scan beside a step that changes what is stored but no bound of a leaf.
LEMMA NotedKeeps ==
  ASSUME NEW lo, scan \in [Scanner -> ScanRecords], Scanned(node, lo, scan, stored),
         NEW st, Kept(st), scan' = Noted(st), NEW nd2,
         \A n \in DOMAIN node : node[n] \in LeafNodes => n \in DOMAIN nd2 /\ nd2[n] \in LeafNodes
  PROVE  /\ scan' \in [Scanner -> ScanRecords] /\ Scanned(nd2, lo, scan', st)
         /\ Scanning' = Scanning
<1>1. ASSUME NEW s \in Scanner
      PROVE  /\ scan'[s] \in ScanRecords /\ scan'[s].leaf = scan[s].leaf
             /\ scan[s].leaf # Null =>
                  /\ scan'[s].met = scan[s].met /\ scan'[s].always = scan[s].always \cap DOMAIN st
                  /\ scan'[s].ever = scan[s].ever \cup DOMAIN st
  <2>1. scan[s] \in ScanRecords
    OBVIOUS
  <2>2. CASE scan[s].leaf = Null
    <3>1. scan'[s] = scan[s]
      BY <2>2 DEF Noted, Scanning
    <3> QED BY <2>1, <2>2, <3>1
  <2>3. CASE scan[s].leaf # Null
    <3>1. scan'[s] = [scan[s] EXCEPT !.always = @ \cap DOMAIN st, !.ever = @ \cup DOMAIN st]
      BY <2>3 DEF Noted, Scanning
    <3>2. DOMAIN st \subseteq Key
      BY DEF Kept
    <3> QED BY <2>1, <3>1, <3>2 DEF ScanRecords
  <2> QED BY <2>2, <2>3
<1>2. scan' \in [Scanner -> ScanRecords]
  <2>1. DOMAIN scan' = Scanner
    BY DEF Noted
  <2>2. \A s \in Scanner : scan'[s] \in ScanRecords
    BY <1>1
  <2>3. scan' = [s \in Scanner |-> scan'[s]]
    BY <2>1 DEF Noted
  <2> QED BY <2>2, <2>3
<1>3. Scanning' = Scanning
  BY <1>1 DEF Scanning
<1>4. Scanned(nd2, lo, scan', st)
  <2> SUFFICES ASSUME NEW s \in Scanner, scan'[s].leaf # Null
               PROVE  /\ scan'[s].leaf \in DOMAIN nd2 /\ nd2[scan'[s].leaf] \in LeafNodes
                      /\ scan'[s].always \subseteq DOMAIN st /\ DOMAIN st \subseteq scan'[s].ever
                      /\ scan'[s].met \subseteq scan'[s].ever
                      /\ \A k \in scan'[s].always : k < lo[scan'[s].leaf] => k \in scan'[s].met
    BY DEF Scanned
  <2>1. scan[s].leaf # Null
    BY <1>1
  <2>2. /\ scan[s].leaf \in DOMAIN node /\ node[scan[s].leaf] \in LeafNodes
        /\ scan[s].met \subseteq scan[s].ever
        /\ \A k \in scan[s].always : k < lo[scan[s].leaf] => k \in scan[s].met
    BY <2>1 DEF Scanned
  <2> QED BY <1>1, <2>1, <2>2
<1> QED BY <1>2, <1>3, <1>4

\* A leaf that takes no k is not the leaf l that takes it.
LEMMA TakesOther ==
  ASSUME NEW nd, NEW r, NEW h, NEW lo, NEW hi, Tree(nd, r, h, lo, hi, Null, 0, Null),
         NEW l \in DOMAIN nd, nd[l] \in LeafNodes, NEW n \in DOMAIN nd, nd[n] \in LeafNodes, n # l,
         NEW k \in Key, lo[l] <= k, Below(k, hi[l])
  PROVE  ~(lo[n] <= k /\ Below(k, hi[n])) /\ \A i \in 1 .. Len(nd[n].keys) : nd[n].keys[i] # k
<1>1. /\ Apart(nd, h, lo, hi) /\ lo \in [DOMAIN nd -> Nat] /\ hi \in [DOMAIN nd -> Nat]
      /\ h[l] = h[n] /\ k \in Nat /\ Keyed(nd, lo, hi)
  BY TreeFacts DEF Tree, Bounds, Levels
<1>2. ~(lo[n] <= k /\ Below(k, hi[n]))
  BY <1>1, OneTaker
<1>3. \A i \in 1 .. Len(nd[n].keys) : lo[n] <= nd[n].keys[i] /\ Below(nd[n].keys[i], hi[n])
  BY <1>1 DEF Keyed
<1> QED BY <1>2, <1>3

\* The leaf l gets the entry of k and v.
LEMMA PutHeld ==
  ASSUME NEW nd, NEW r, NEW h, NEW lo, NEW hi, Tree(nd, r, h, lo, hi, Null, 0, Null),
         NEW st, Held(nd, lo, hi, st),
         NEW l \in DOMAIN nd, nd[l] \in LeafNodes,
         NEW k \in Key, NEW v \in Value, lo[l] <= k, Below(k, hi[l]),
         NEW e, EntryPut(nd[l], e, k, v),
         NEW nd2, DOMAIN nd2 = DOMAIN nd, nd2[l] = e, \A n \in DOMAIN nd : n # l => nd2[n] = nd[n],
         NEW st2, st2 = With(st, k, v)
  PROVE  Held(nd2, lo, hi, st2)
<1>1. DOMAIN st2 = DOMAIN st \cup {k} /\ st2[k] = v /\ \A x \in DOMAIN st : x # k => st2[x] = st[x]
  BY DEF With
<1>2. ASSUME NEW n \in DOMAIN nd, nd2[n] \in LeafNodes PROVE Holds(nd2, lo, hi, st2, n)
  <2>1. CASE n = l
    <3>1. /\ \A i \in 1 .. Len(nd[l].keys) :
               nd[l].keys[i] \in DOMAIN st /\ st[nd[l].keys[i]] = nd[l].values[i]
          /\ \A x \in DOMAIN st : lo[l] <= x /\ Below(x, hi[l]) =>
               \E i \in 1 .. Len(nd[l].keys) : nd[l].keys[i] = x
      BY DEF Held, Holds
    <3>2. ASSUME NEW i \in 1 .. Len(e.keys) PROVE e.keys[i] \in DOMAIN st2 /\ st2[e.keys[i]] = e.values[i]
      <4>1. \/ e.keys[i] = k /\ e.values[i] = v
            \/ /\ e.keys[i] # k
               /\ \E j \in 1 .. Len(nd[l].keys) : e.keys[i] = nd[l].keys[j] /\ e.values[i] = nd[l].values[j]
        BY DEF EntryPut
      <4> QED BY <1>1, <3>1, <4>1
    <3>3. ASSUME NEW x \in DOMAIN st2, lo[l] <= x, Below(x, hi[l]) PROVE \E i \in 1 .. Len(e.keys) : e.keys[i] = x
      <4>1. CASE x = k
        BY <4>1 DEF EntryPut
      <4>2. CASE x # k
        <5>1. PICK j \in 1 .. Len(nd[l].keys) : nd[l].keys[j] = x
          BY <1>1, <3>1, <3>3, <4>2
        <5> QED BY <5>1 DEF EntryPut
      <4> QED BY <4>1, <4>2
    <3> QED BY <2>1, <3>2, <3>3 DEF Holds
  <2>2. CASE n # l
    <3>1. nd2[n] = nd[n] /\ nd[n] \in LeafNodes
      BY <1>2, <2>2
    <3>2. ~(lo[n] <= k /\ Below(k, hi[n])) /\ \A i \in 1 .. Len(nd[n].keys) : nd[n].keys[i] # k
      BY <2>2, <3>1, TakesOther
    <3>3. Holds(nd, lo, hi, st, n)
      BY <3>1 DEF Held
    <3> QED BY <1>1, <3>1, <3>2, <3>3 DEF Holds
  <2> QED BY <2>1, <2>2
<1> QED BY <1>2 DEF Held

\* The leaf l loses the entry of k.
LEMMA TakenHeld ==
  ASSUME NEW nd, NEW r, NEW h, NEW lo, NEW hi, Tree(nd, r, h, lo, hi, Null, 0, Null),
         NEW st, Held(nd, lo, hi, st),
         NEW l \in DOMAIN nd, nd[l] \in LeafNodes,
         NEW k \in Key, lo[l] <= k, Below(k, hi[l]),
         NEW e, EntryTaken(nd[l], e, k),
         NEW nd2, DOMAIN nd2 = DOMAIN nd, nd2[l] = e, \A n \in DOMAIN nd : n # l => nd2[n] = nd[n],
         NEW st2, DOMAIN st2 = DOMAIN st \ {k}, \A x \in DOMAIN st : x # k => st2[x] = st[x]
  PROVE  Held(nd2, lo, hi, st2)
<1>2. ASSUME NEW n \in DOMAIN nd, nd2[n] \in LeafNodes PROVE Holds(nd2, lo, hi, st2, n)
  <2>1. CASE n = l
    <3>1. /\ \A i \in 1 .. Len(nd[l].keys) :
               nd[l].keys[i] \in DOMAIN st /\ st[nd[l].keys[i]] = nd[l].values[i]
          /\ \A x \in DOMAIN st : lo[l] <= x /\ Below(x, hi[l]) =>
               \E i \in 1 .. Len(nd[l].keys) : nd[l].keys[i] = x
      BY DEF Held, Holds
    <3>2. ASSUME NEW i \in 1 .. Len(e.keys) PROVE e.keys[i] \in DOMAIN st2 /\ st2[e.keys[i]] = e.values[i]
      <4>1. /\ e.keys[i] # k
            /\ \E j \in 1 .. Len(nd[l].keys) : e.keys[i] = nd[l].keys[j] /\ e.values[i] = nd[l].values[j]
        BY DEF EntryTaken
      <4> QED BY <3>1, <4>1
    <3>3. ASSUME NEW x \in DOMAIN st2, lo[l] <= x, Below(x, hi[l]) PROVE \E i \in 1 .. Len(e.keys) : e.keys[i] = x
      <4>1. x # k /\ x \in DOMAIN st
        OBVIOUS
      <4>2. PICK j \in 1 .. Len(nd[l].keys) : nd[l].keys[j] = x
        BY <3>1, <3>3, <4>1
      <4> QED BY <4>1, <4>2 DEF EntryTaken
    <3> QED BY <2>1, <3>2, <3>3 DEF Holds
  <2>2. CASE n # l
    <3>1. nd2[n] = nd[n] /\ nd[n] \in LeafNodes
      BY <1>2, <2>2
    <3>2. \A i \in 1 .. Len(nd[n].keys) : nd[n].keys[i] # k
      BY <2>2, <3>1, TakesOther
    <3>3. Holds(nd, lo, hi, st, n)
      BY <3>1 DEF Held
    <3> QED BY <3>1, <3>2, <3>3 DEF Holds
  <2> QED BY <2>1, <2>2
<1> QED BY <1>2 DEF Held

\* What the step of a call has to show.
LEMMA LiveAgain ==
  ASSUME NEW h2, NEW lo2, NEW hi2, Kept(stored'), scan' \in [Scanner -> ScanRecords],
         Tree(node', root', h2, lo2, hi2, Left(call'), Middle(call'), Right(call')),
         Full(node', Over(call')), Filled(node', root', Short(call')),
         Held(node', lo2, hi2, stored'), CallFits(node', root', lo2, hi2, call'),
         Scanned(node', lo2, scan', stored'), TreeLocked' => Scanning' = {}
  PROVE  IndexInv'
<1>1. Sound(node, root, stored, call, h2, lo2, hi2)'
  BY DEF Sound
<1>2. Live(h2, lo2, hi2)'
  BY <1>1 DEF Live
<1> QED BY <1>2 DEF IndexInv, Kept

\* insert_into_leaf.
LEMMA InsertIntoLeafKeeps ==
  ASSUME NEW h, NEW lo, NEW hi, Live(h, lo, hi), Kept(stored), scan \in [Scanner -> ScanRecords],
         insert_into_leaf
  PROVE  IndexInv'
<1>1. PICK l, k, v, e : l = call.leaf /\ k = call.key /\ v = call.value /\ e = WithEntry(node[l], k, v)
  OBVIOUS
<1>2. /\ call.at = "put" /\ root' = root /\ node' = [node EXCEPT ![l] = e]
      /\ call' = IF Len(e.keys) > MaxKeys THEN [at |-> "split", leaf |-> l] ELSE Idle
      /\ stored' = With(stored, k, v) /\ scan' = Noted(stored')
  BY <1>1 DEF insert_into_leaf
<1>3. Tree(node, root, h, lo, hi, Null, 0, Null)
  BY <1>2, QuietTree
<1>4. /\ l \in DOMAIN node /\ node[l] \in LeafNodes /\ k \in Key /\ v \in Value
      /\ lo[l] <= k /\ Below(k, hi[l])
      /\ Full(node, Null) /\ Filled(node, root, Null) /\ Held(node, lo, hi, stored)
      /\ Scanned(node, lo, scan, stored)
  BY <1>1, <1>2 DEF Live, Sound, CallFits, Over, Short
<1>5. Typed(node) /\ Keyed(node, lo, hi)
  BY <1>3 DEF Tree
<1>6. Len(node[l].values) = Len(node[l].keys) /\ Sorted(node[l].keys) /\ Len(node[l].keys) \in Nat
  BY <1>4, <1>5, LeafFacts, NodeFacts DEF Keyed
<1>7. EntryPut(node[l], e, k, v)
  BY <1>1, <1>4, <1>6, WithEntryFacts
<1>8. DOMAIN node' = DOMAIN node /\ node'[l] = e /\ \A n \in DOMAIN node : n # l => node'[n] = node[n]
  BY <1>2, <1>4
<1>9. /\ e \in LeafNodes /\ e.parent = node[l].parent /\ e.next = node[l].next
      /\ Len(e.values) = Len(e.keys) /\ Sorted(e.keys)
      /\ (Len(e.keys) = Len(node[l].keys) \/ Len(e.keys) = Len(node[l].keys) + 1)
  BY <1>7 DEF EntryPut
<1>10. \A i \in 1 .. Len(e.keys) : lo[l] <= e.keys[i] /\ Below(e.keys[i], hi[l])
  BY <1>4, <1>5, <1>7 DEF EntryPut, Keyed
<1>11. Tree(node', root, h, lo, hi, Null, 0, Null)
  BY <1>3, <1>4, <1>8, <1>9, <1>10, LeafEdited
<1>12. Held(node', lo, hi, stored')
  BY <1>2, <1>3, <1>4, <1>7, <1>8, PutHeld
<1>13. Kept(stored')
  BY <1>2, <1>4 DEF Kept, With
<1>14. /\ scan' \in [Scanner -> ScanRecords] /\ Scanned(node', lo, scan', stored')
       /\ Scanning' = Scanning
  <2>1. \A n \in DOMAIN node : node[n] \in LeafNodes => n \in DOMAIN node' /\ node'[n] \in LeafNodes
    BY <1>8, <1>9
  <2> QED BY <1>2, <1>4, <1>13, <2>1, NotedKeeps
<1>15. Null \notin DOMAIN node
  BY <1>5, NodeFacts
<1>16. \A n \in DOMAIN node : Len(node[n].keys) <= MaxKeys
  BY <1>4, <1>15 DEF Full
<1>17. Filled(node', root, Null)
  BY <1>4, <1>6, <1>8, <1>9, <1>15, TreeFacts DEF Filled
<1>18. ~TreeLocked' /\ Short(call') = Null /\ Left(call') = Null /\ Middle(call') = 0 /\ Right(call') = Null
       /\ CallFits(node', root, lo, hi, call')
  BY <1>2, <1>4, <1>8, <1>9 DEF TreeLocked, Short, Left, Middle, Right, CallFits, Idle
<1>19. Full(node', Over(call'))
  <2>1. CASE Len(e.keys) > MaxKeys
    <3>1. Len(e.keys) = MaxKeys + 1
      BY <1>4, <1>6, <1>9, <1>16, <2>1, TreeFacts
    <3>2. Over(call') = l
      BY <1>2, <2>1 DEF Over
    <3> QED BY <1>8, <1>16, <3>1, <3>2 DEF Full
  <2>2. CASE ~(Len(e.keys) > MaxKeys)
    <3>1. Len(e.keys) <= MaxKeys
      BY <1>6, <1>9, <2>2, TreeFacts
    <3>2. Over(call') = Null
      BY <1>2, <2>2 DEF Over, Idle
    <3> QED BY <1>8, <1>15, <1>16, <3>1, <3>2 DEF Full
  <2> QED BY <2>1, <2>2
<1> QED BY <1>2, <1>11, <1>12, <1>13, <1>14, <1>17, <1>18, <1>19, LiveAgain

\* delete_from_leaf.
LEMMA DeleteFromLeafKeeps ==
  ASSUME NEW h, NEW lo, NEW hi, Live(h, lo, hi), Kept(stored), scan \in [Scanner -> ScanRecords],
         delete_from_leaf
  PROVE  IndexInv'
<1>1. PICK l, k, i : l = call.leaf /\ k = call.key /\ i = Find(node[l].keys, k)
  OBVIOUS
<1>2. call.at = "erase" /\ root' = root /\ scan' = Noted(stored')
  BY DEF delete_from_leaf
<1>3. Tree(node, root, h, lo, hi, Null, 0, Null)
  BY <1>2, QuietTree
<1>4. /\ l \in DOMAIN node /\ node[l] \in LeafNodes /\ k \in Key
      /\ lo[l] <= k /\ Below(k, hi[l])
      /\ Full(node, Null) /\ Filled(node, root, Null) /\ Held(node, lo, hi, stored)
      /\ Scanned(node, lo, scan, stored)
  BY <1>1, <1>2 DEF Live, Sound, CallFits, Over, Short
<1>5. Typed(node) /\ Keyed(node, lo, hi) /\ Null \notin DOMAIN node
  BY <1>3, NodeFacts DEF Tree
<1>6. Len(node[l].values) = Len(node[l].keys) /\ Sorted(node[l].keys) /\ Len(node[l].keys) \in Nat
      /\ node[l].keys \in Seq(Key)
  BY <1>4, <1>5, LeafFacts, NodeFacts DEF Keyed
<1>7. CASE i = 0
  <2>1. call' = Idle /\ node' = node /\ stored' = stored
    BY <1>1, <1>7 DEF delete_from_leaf
  <2>2. /\ scan' \in [Scanner -> ScanRecords] /\ Scanned(node', lo, scan', stored')
        /\ Scanning' = Scanning
    BY <1>2, <1>4, <2>1, NotedKeeps
  <2>3. /\ ~TreeLocked' /\ Short(call') = Null /\ Left(call') = Null /\ Middle(call') = 0
        /\ Right(call') = Null /\ Over(call') = Null /\ CallFits(node', root, lo, hi, call')
    BY <2>1 DEF TreeLocked, Short, Left, Middle, Right, CallFits, Idle, Over
  <2> QED BY <1>2, <1>3, <1>4, <2>1, <2>2, <2>3, LiveAgain
<1>8. CASE i # 0
  <2>1. i \in 1 .. Len(node[l].keys) /\ node[l].keys[i] = k
    BY <1>1, <1>6, <1>8, FindFacts
  <2>2. PICK e : e = [node[l] EXCEPT !.keys = RemoveAt(node[l].keys, i), !.values = RemoveAt(node[l].values, i)]
    OBVIOUS
  <2>3. /\ node' = [node EXCEPT ![l] = e]
        /\ stored' = Restrict(stored, DOMAIN stored \ {k})
        /\ call' = IF l # root /\ Len(node[l].keys) - 1 < MinKeys
                   THEN [at |-> "rebalance", leaf |-> l] ELSE Idle
    BY <1>1, <1>4, <1>8, <2>2 DEF delete_from_leaf
  <2>4. EntryTaken(node[l], e, k)
    BY <1>4, <1>6, <2>1, <2>2, TakingFacts
  <2>5. DOMAIN node' = DOMAIN node /\ node'[l] = e /\ \A n \in DOMAIN node : n # l => node'[n] = node[n]
    BY <1>4, <2>3
  <2>6. /\ e \in LeafNodes /\ e.parent = node[l].parent /\ e.next = node[l].next
        /\ Len(e.values) = Len(e.keys) /\ Sorted(e.keys) /\ Len(e.keys) + 1 = Len(node[l].keys)
    BY <2>4 DEF EntryTaken
  <2>7. \A j \in 1 .. Len(e.keys) : lo[l] <= e.keys[j] /\ Below(e.keys[j], hi[l])
    BY <1>4, <1>5, <2>4 DEF EntryTaken, Keyed
  <2>8. Tree(node', root, h, lo, hi, Null, 0, Null)
    BY <1>3, <1>4, <2>5, <2>6, <2>7, LeafEdited
  <2>9. DOMAIN stored' = DOMAIN stored \ {k} /\ \A x \in DOMAIN stored : x # k => stored'[x] = stored[x]
    BY <2>3 DEF Restrict
  <2>10. Kept(stored')
    BY <2>3, <2>9 DEF Kept, Restrict
  <2>11. Held(node', lo, hi, stored')
    BY <1>3, <1>4, <2>4, <2>5, <2>9, TakenHeld, SMTT(30)
  <2>12. /\ scan' \in [Scanner -> ScanRecords] /\ Scanned(node', lo, scan', stored')
         /\ Scanning' = Scanning
    <3>1. \A n \in DOMAIN node : node[n] \in LeafNodes => n \in DOMAIN node' /\ node'[n] \in LeafNodes
      BY <2>5, <2>6
    <3> QED BY <1>2, <1>4, <2>10, <3>1, NotedKeeps
  <2>13. /\ ~TreeLocked' /\ Left(call') = Null /\ Middle(call') = 0
         /\ Right(call') = Null /\ Over(call') = Null /\ CallFits(node', root, lo, hi, call')
    BY <2>3, <2>5, <2>6, <1>4 DEF TreeLocked, Left, Middle, Right, CallFits, Idle, Over
  <2>14. Full(node', Null)
    <3>1. \A n \in DOMAIN node : Len(node[n].keys) <= MaxKeys /\ Len(node[n].keys) \in Nat
      BY <1>4, <1>5, NodeFacts DEF Full
    <3>2. Len(e.keys) \in Nat
      BY <2>6 DEF LeafNodes
    <3>3. Len(e.keys) <= MaxKeys
      BY <1>4, <2>6, <3>1, <3>2, TreeFacts
    <3> QED BY <1>5, <2>5, <3>1, <3>3 DEF Full
  <2>15. Filled(node', root, Short(call'))
    <3>1. Len(e.keys) \in Nat /\ MinKeys \in Nat
      BY <2>6, TreeFacts DEF LeafNodes
    <3>2. \A n \in DOMAIN node : node[n] \in LeafNodes /\ n # root => Len(node[n].keys) >= MinKeys
      BY <1>4, <1>5 DEF Filled
    <3>3. CASE l # root /\ Len(node[l].keys) - 1 < MinKeys
      <4>1. Len(e.keys) + 1 = MinKeys
        BY <1>4, <1>6, <2>6, <3>1, <3>2, <3>3
      <4>2. Short(call') = l
        BY <2>3, <3>3 DEF Short
      <4> QED BY <2>5, <3>2, <4>1, <4>2 DEF Filled
    <3>4. CASE ~(l # root /\ Len(node[l].keys) - 1 < MinKeys)
      <4>1. l # root => Len(e.keys) >= MinKeys
        BY <1>6, <2>6, <3>1, <3>4
      <4>2. Short(call') = Null
        BY <2>3, <3>4 DEF Short, Idle
      <4> QED BY <1>5, <2>5, <3>2, <4>1, <4>2 DEF Filled
    <3> QED BY <3>3, <3>4
  <2> QED BY <1>2, <2>8, <2>10, <2>11, <2>12, <2>13, <2>14, <2>15, LiveAgain
<1> QED BY <1>7, <1>8

-----------------------------------------------------------------------------
(* split_leaf *)

\* An allocated node is none of those in use.
LEMMA FreshFacts ==
  ASSUME Unused # {}
  PROVE  Fresh \in Nodes /\ Fresh \notin DOMAIN node
<1>1. Unused \in SUBSET Nat
  BY TreeFacts DEF Unused
<1>2. \E n \in Unused : \A m \in Unused : n <= m
  BY <1>1, Least
<1>3. Fresh \in Unused
  BY <1>2 DEF Fresh
<1> QED BY <1>3 DEF Unused

\* a and b are the halves of the leaf x, up to the place c and after it.
Halves(x, a, b, c) ==
  /\ a \in LeafNodes /\ a.parent = x.parent
  /\ b \in LeafNodes /\ b.parent = x.parent /\ b.next = x.next
  /\ c \in 1 .. Len(x.keys) - 1 /\ Len(a.keys) = c /\ Len(b.keys) = Len(x.keys) - c
  /\ Len(a.values) = Len(a.keys) /\ Len(b.values) = Len(b.keys)
  /\ \A i \in 1 .. c : a.keys[i] = x.keys[i] /\ a.values[i] = x.values[i]
  /\ \A i \in 1 .. Len(x.keys) - c :
       b.keys[i] = x.keys[i + c] /\ b.values[i] = x.values[i + c]

\* The halves of a leaf with one key too many: linked, and neither too small nor too large.
LEMMA HalvesFacts ==
  ASSUME NEW x \in LeafNodes, Len(x.values) = Len(x.keys), Len(x.keys) = MaxKeys + 1,
         NEW F \in Nodes
  PROVE  /\ Halves(x, LeftHalf(x, F), RightHalf(x), HalfOf(x.keys))
         /\ LeftHalf(x, F).next = F
         /\ Len(LeftHalf(x, F).keys) >= MinKeys /\ Len(LeftHalf(x, F).keys) <= MaxKeys
         /\ Len(RightHalf(x).keys) >= MinKeys /\ Len(RightHalf(x).keys) <= MaxKeys
<1>1. PICK q, w, n, c : q = x.keys /\ w = x.values /\ n = Len(q) /\ c = HalfOf(x.keys)
  OBVIOUS
<1>2. q \in Seq(Key) /\ w \in Seq(Value) /\ n = MaxKeys + 1 /\ Len(q) = n /\ Len(w) = n
  BY <1>1 DEF LeafNodes
<1>3. /\ c = (n + 1) \div 2 /\ c \in Nat /\ n \in Nat /\ MinKeys <= c /\ c <= MaxKeys
      /\ MinKeys <= n - c /\ n - c <= MaxKeys /\ 1 <= c /\ c <= n - 1
  <2>1. c = (n + 1) \div 2
    BY <1>1 DEF HalfOf
  <2>2. MaxKeys \in Nat /\ MinKeys \in Nat /\ 0 < MinKeys /\ 2 * MinKeys <= MaxKeys
    BY TreeFacts
  <2> QED BY <1>2, <2>1, <2>2
<1>4. PICK q1, q2, w1, w2 : /\ q1 = SubSeq(q, 1, c) /\ q2 = SubSeq(q, c + 1, n)
                           /\ w1 = SubSeq(w, 1, c) /\ w2 = SubSeq(w, c + 1, n)
  OBVIOUS
<1>5. q1 \in Seq(Key) /\ Part(q, 1, c, q1) /\ w1 \in Seq(Value) /\ Part(w, 1, c, w1)
  <2>1. 1 <= 1 /\ 1 <= c + 1 /\ c <= n /\ 1 \in Nat
    BY <1>3
  <2> QED BY <1>2, <1>3, <1>4, <2>1, PartFacts
<1>6. q2 \in Seq(Key) /\ Part(q, c + 1, n, q2) /\ w2 \in Seq(Value) /\ Part(w, c + 1, n, w2)
  <2>1. 1 <= c + 1 /\ c + 1 <= n + 1 /\ n <= n /\ c + 1 \in Nat
    BY <1>3
  <2> QED BY <1>2, <1>3, <1>4, <2>1, PartFacts
<1>7. PICK a, b : a = LeftHalf(x, F) /\ b = RightHalf(x)
  OBVIOUS
<1>8. a = [x EXCEPT !.keys = q1, !.values = w1, !.next = F]
  <2>1. a = [x EXCEPT !.keys = SubSeq(@, 1, HalfOf(x.keys)), !.values = SubSeq(@, 1, HalfOf(x.keys)), !.next = F]
    BY <1>7 DEF LeftHalf
  <2> QED BY <1>1, <1>4, <2>1 DEF LeafNodes
<1>9. b = Leaf(q2, w2, x.next, x.parent)
  BY <1>1, <1>4, <1>7 DEF RightHalf
<1>10. /\ a \in LeafNodes /\ a.parent = x.parent /\ a.next = F /\ a.keys = q1 /\ a.values = w1
       /\ b \in LeafNodes /\ b.parent = x.parent /\ b.next = x.next /\ b.keys = q2 /\ b.values = w2
  BY <1>5, <1>6, <1>8, <1>9 DEF LeafNodes, Leaf
<1>11. /\ Len(q1) = c /\ Len(w1) = c /\ Len(q2) = n - c /\ Len(w2) = n - c
       /\ \A i \in 1 .. c : q1[i] = q[i] /\ w1[i] = w[i]
       /\ \A i \in 1 .. n - c : q2[i] = q[i + c] /\ w2[i] = w[i + c]
  <2>1. c - 1 + 1 = c /\ n - (c + 1) + 1 = n - c /\ (c + 1) - 1 = c /\ 1 - 1 = 0
    BY <1>3
  <2>2. \A i \in 1 .. c : i + (1 - 1) = i
    BY <1>3
  <2> QED BY <1>5, <1>6, <2>1, <2>2 DEF Part
<1>12. Halves(x, a, b, c)
  <2>1. c \in 1 .. n - 1
    BY <1>3
  <2>2. /\ c \in 1 .. Len(x.keys) - 1 /\ Len(a.keys) = c /\ Len(b.keys) = Len(x.keys) - c
        /\ Len(a.values) = Len(a.keys) /\ Len(b.values) = Len(b.keys)
    BY <1>1, <1>10, <1>11, <2>1
  <2>3. /\ \A i \in 1 .. c : a.keys[i] = x.keys[i] /\ a.values[i] = x.values[i]
        /\ \A i \in 1 .. Len(x.keys) - c : b.keys[i] = x.keys[i + c] /\ b.values[i] = x.values[i + c]
    BY <1>1, <1>10, <1>11
  <2> QED BY <1>10, <2>2, <2>3 DEF Halves
<1> QED BY <1>1, <1>3, <1>7, <1>10, <1>11, <1>12

\* The key k between the halves divides their keys.
Divided(a, b, k, lower, upper) ==
  /\ k \in Key /\ k \in Nat /\ lower < k /\ Below(k, upper)
  /\ Sorted(a.keys) /\ Sorted(b.keys)
  /\ \A i \in 1 .. Len(a.keys) : lower <= a.keys[i] /\ a.keys[i] < k
  /\ \A i \in 1 .. Len(b.keys) : k <= b.keys[i] /\ Below(b.keys[i], upper)

\* The halves of a leaf divide its range at the first key of the right one.
LEMMA HalvesDivide ==
  ASSUME NEW lower \in Nat, NEW upper \in Nat, NEW x, Within(x, lower, upper),
         NEW a, NEW b, NEW c, Halves(x, a, b, c)
  PROVE  Divided(a, b, b.keys[1], lower, upper)
<1>1. PICK q, n, k : q = x.keys /\ n = Len(q) /\ k = b.keys[1]
  OBVIOUS
<1>2. /\ q \in Seq(Key) /\ q \in Seq(Nat) /\ n \in Nat /\ n = Len(q) /\ Sorted(q)
      /\ \A i \in 1 .. n : lower <= q[i] /\ Below(q[i], upper) /\ q[i] \in Nat /\ q[i] \in Key
  <2>1. x.keys \in Seq(Key)
    BY DEF Within, LeafNodes
  <2> QED BY <1>1, <2>1, KeySeq DEF Within
<1>3. /\ c \in Nat /\ 1 <= c /\ c <= n - 1 /\ Len(a.keys) = c /\ Len(b.keys) = n - c
      /\ \A i \in 1 .. c : a.keys[i] = q[i]
      /\ \A i \in 1 .. n - c : b.keys[i] = q[i + c]
  BY <1>1, <1>2 DEF Halves
<1>4. c \in 1 .. n /\ c + 1 \in 1 .. n /\ 1 \in 1 .. n - c /\ 1 + c = c + 1
  BY <1>2, <1>3
<1>5. k = q[c + 1]
  BY <1>1, <1>3, <1>4
<1>6. \A i, j \in 1 .. n : i < j => q[i] < q[j]
  BY <1>2 DEF Sorted
<1>7. q[c] < k /\ lower <= q[c] /\ q[c] \in Nat
  BY <1>2, <1>3, <1>4, <1>5, <1>6
<1>8. lower < k /\ k \in Key /\ k \in Nat /\ Below(k, upper)
  BY <1>2, <1>4, <1>5, <1>7
<1>9. ASSUME NEW i \in 1 .. c PROVE lower <= a.keys[i] /\ a.keys[i] < k
  <2>1. i \in 1 .. n /\ i < c + 1
    BY <1>2, <1>3
  <2> QED BY <1>2, <1>3, <1>4, <1>5, <1>6, <2>1
<1>10. ASSUME NEW i \in 1 .. n - c PROVE k <= b.keys[i] /\ Below(b.keys[i], upper)
  <2>1. i + c \in 1 .. n /\ (i + c = c + 1 \/ c + 1 < i + c)
    BY <1>2, <1>3
  <2>2. b.keys[i] = q[i + c] /\ q[i + c] \in Nat
    BY <1>2, <1>3, <2>1
  <2>3. k <= q[i + c]
    BY <1>4, <1>5, <1>6, <1>8, <2>1, <2>2
  <2> QED BY <1>2, <2>1, <2>2, <2>3
<1>11. Sorted(a.keys)
  <2> SUFFICES ASSUME NEW i \in 1 .. c, NEW j \in 1 .. c, i < j PROVE a.keys[i] < a.keys[j]
    BY <1>3 DEF Sorted
  <2>1. i \in 1 .. n /\ j \in 1 .. n
    BY <1>2, <1>3
  <2> QED BY <1>3, <1>6, <2>1
<1>12. Sorted(b.keys)
  <2> SUFFICES ASSUME NEW i \in 1 .. n - c, NEW j \in 1 .. n - c, i < j PROVE b.keys[i] < b.keys[j]
    BY <1>3 DEF Sorted
  <2>1. i \in Nat /\ j \in Nat /\ 1 <= i /\ 1 <= j /\ i <= n - c /\ j <= n - c
    BY <1>2, <1>3
  <2>2. i + c \in 1 .. n /\ j + c \in 1 .. n
    BY <1>2, <1>3, <2>1
  <2>3. i + c < j + c
    BY <1>3, <2>1
  <2> QED BY <1>3, <1>6, <2>2, <2>3
<1> QED BY <1>1, <1>3, <1>8, <1>9, <1>10, <1>11, <1>12 DEF Divided

\* The halves hold what the leaf held.
LEMMA HalvesHold ==
  ASSUME NEW nd, NEW st, NEW lo, NEW hi, NEW h, NEW n \in DOMAIN nd, nd[n] \in LeafNodes,
         Sorted(nd[n].keys), lo[n] \in Nat, hi[n] \in Nat,
         Held(nd, lo, hi, st), NEW F, F \notin DOMAIN nd,
         NEW a, NEW b, NEW c, Halves(nd[n], a, b, c), NEW k \in Nat, k = b.keys[1],
         lo[n] < k, Below(k, hi[n]), DOMAIN st \subseteq Nat,
         NEW nd2, DOMAIN nd2 = DOMAIN nd \cup {F}, nd2[n] = a, nd2[F] = b,
         \A m \in DOMAIN nd : m # n => nd2[m] = nd[m],
         NEW h2, NEW lo2, NEW hi2, Cut(DOMAIN nd, n, k, F, h, lo, hi, h2, lo2, hi2)
  PROVE  Held(nd2, lo2, hi2, st)
<1>1. PICK q, w, N : q = nd[n].keys /\ w = nd[n].values /\ N = Len(q)
  OBVIOUS
<1>2. /\ q \in Seq(Nat) /\ N \in Nat /\ N = Len(q) /\ Sorted(q)
      /\ \A i \in 1 .. N : q[i] \in DOMAIN st /\ st[q[i]] = w[i] /\ q[i] \in Nat
      /\ \A x \in DOMAIN st : lo[n] <= x /\ Below(x, hi[n]) => \E i \in 1 .. N : q[i] = x
  <2>1. nd[n].keys \in Seq(Key)
    BY DEF LeafNodes
  <2> QED BY <1>1, <2>1, KeySeq DEF Held, Holds
<1>3. /\ c \in Nat /\ 1 <= c /\ c <= N - 1 /\ Len(a.keys) = c /\ Len(b.keys) = N - c
      /\ \A i \in 1 .. c : a.keys[i] = q[i] /\ a.values[i] = w[i]
      /\ \A i \in 1 .. N - c : b.keys[i] = q[i + c] /\ b.values[i] = w[i + c]
  BY <1>1, <1>2 DEF Halves
<1>4. /\ lo2[n] = lo[n] /\ hi2[n] = k /\ lo2[F] = k /\ hi2[F] = hi[n]
      /\ \A m \in DOMAIN nd : m # n => lo2[m] = lo[m] /\ hi2[m] = hi[m]
  BY DEF Cut
<1>5. \A i, j \in 1 .. N : i < j => q[i] < q[j]
  BY <1>2 DEF Sorted
<1>6. c + 1 \in 1 .. N /\ q[c + 1] = k
  <2>1. c + 1 \in 1 .. N /\ 1 \in 1 .. N - c /\ 1 + c = c + 1
    BY <1>2, <1>3
  <2> QED BY <1>3, <2>1
<1>7. Holds(nd2, lo2, hi2, st, n)
  <2>1. ASSUME NEW i \in 1 .. c PROVE a.keys[i] \in DOMAIN st /\ st[a.keys[i]] = a.values[i]
    <3>1. i \in 1 .. N
      BY <1>2, <1>3
    <3> QED BY <1>2, <1>3, <3>1
  <2>2. ASSUME NEW x \in DOMAIN st, lo[n] <= x, Below(x, k) PROVE \E i \in 1 .. c : a.keys[i] = x
    <3>1. x < k /\ x \in Nat
      BY <2>2 DEF Below
    <3>2. Below(x, hi[n])
      BY <3>1 DEF Below
    <3>3. PICK i \in 1 .. N : q[i] = x
      BY <1>2, <2>2, <3>2
    <3>4. ~(c + 1 <= i)
      <4> SUFFICES ASSUME c + 1 <= i PROVE FALSE
        OBVIOUS
      <4>1. c + 1 = i \/ c + 1 < i
        BY <1>3
      <4>2. q[c + 1] <= q[i]
        BY <1>2, <1>5, <1>6, <4>1, <3>3
      <4> QED BY <1>6, <3>1, <3>3, <4>2
    <3>5. i \in 1 .. c
      BY <1>3, <3>4
    <3> QED BY <1>3, <3>3, <3>5
  <2> QED BY <1>3, <1>4, <2>1, <2>2 DEF Holds
<1>8. Holds(nd2, lo2, hi2, st, F)
  <2>1. ASSUME NEW i \in 1 .. N - c PROVE b.keys[i] \in DOMAIN st /\ st[b.keys[i]] = b.values[i]
    <3>1. i + c \in 1 .. N
      BY <1>2, <1>3
    <3> QED BY <1>2, <1>3, <3>1
  <2>2. ASSUME NEW x \in DOMAIN st, k <= x, Below(x, hi[n]) PROVE \E i \in 1 .. N - c : b.keys[i] = x
    <3>1. x \in Nat /\ lo[n] <= x
      <4>1. x \in Nat
        OBVIOUS
      <4> QED BY <2>2, <4>1
    <3>2. PICK i \in 1 .. N : q[i] = x
      BY <1>2, <2>2, <3>1
    <3>3. ~(i < c + 1)
      <4> SUFFICES ASSUME i < c + 1 PROVE FALSE
        OBVIOUS
      <4>1. q[i] < q[c + 1]
        BY <1>5, <1>6
      <4> QED BY <1>6, <2>2, <3>1, <3>2, <4>1
    <3>4. i - c \in 1 .. N - c /\ (i - c) + c = i
      BY <1>2, <1>3, <3>3
    <3> QED BY <1>3, <3>2, <3>4, SMTT(30)
  <2> QED BY <1>3, <1>4, <2>1, <2>2 DEF Holds
<1>9. ASSUME NEW m \in DOMAIN nd, m # n, nd2[m] \in LeafNodes PROVE Holds(nd2, lo2, hi2, st, m)
  <2>1. nd2[m] = nd[m] /\ lo2[m] = lo[m] /\ hi2[m] = hi[m]
    BY <1>4, <1>9
  <2>2. Holds(nd, lo, hi, st, m)
    BY <1>9, <2>1 DEF Held
  <2> QED BY <2>1, <2>2 DEF Holds
<1> QED BY <1>7, <1>8, <1>9 DEF Held

\* Without a scan at work nothing of the scans can go wrong.
LEMMA NoScanner ==
  ASSUME Scanning = {}, scan' = scan, NEW nd2, NEW lo2, NEW st
  PROVE  Scanned(nd2, lo2, scan', st) /\ Scanning' = {}
BY DEF Scanning, Scanned

\* split_leaf.
LEMMA SplitLeafKeeps ==
  ASSUME NEW h, NEW lo, NEW hi, Live(h, lo, hi), Kept(stored), scan \in [Scanner -> ScanRecords],
         split_leaf
  PROVE  IndexInv'
<1>1. PICK l, F, x, a, b, k, c : /\ l = call.leaf /\ F = Fresh /\ x = node[l]
                                /\ a = LeftHalf(x, F) /\ b = RightHalf(x) /\ k = b.keys[1]
                                /\ c = HalfOf(x.keys)
  OBVIOUS
<1>2. /\ call.at = "split" /\ Scanning = {} /\ root' = root /\ scan' = scan /\ stored' = stored
      /\ node' = With([node EXCEPT ![l] = a], F, b) /\ call' = Promote(l, k, F)
  BY <1>1 DEF split_leaf
<1>3. F \in Nodes /\ F \notin DOMAIN node
  BY <1>1, FreshFacts DEF split_leaf
<1>4. Tree(node, root, h, lo, hi, Null, 0, Null)
  BY <1>2, QuietTree
<1>5. /\ l \in DOMAIN node /\ x \in LeafNodes
      /\ Full(node, l) /\ Filled(node, root, Null) /\ Held(node, lo, hi, stored)
  BY <1>1, <1>2 DEF Live, Sound, CallFits, Over, Short
<1>6. /\ Typed(node) /\ Keyed(node, lo, hi) /\ Null \notin DOMAIN node
      /\ h \in [DOMAIN node -> Nat] /\ lo \in [DOMAIN node -> Nat] /\ hi \in [DOMAIN node -> Nat]
  BY <1>4, NodeFacts DEF Tree, Bounds, Levels
<1>7. Len(x.values) = Len(x.keys) /\ Sorted(x.keys) /\ Len(x.keys) = MaxKeys + 1
  BY <1>1, <1>5, <1>6, LeafFacts DEF Keyed, Full
<1>8. /\ Halves(x, a, b, c) /\ a.next = F
      /\ Len(a.keys) >= MinKeys /\ Len(a.keys) <= MaxKeys
      /\ Len(b.keys) >= MinKeys /\ Len(b.keys) <= MaxKeys
  BY <1>1, <1>3, <1>5, <1>7, HalvesFacts
<1>9. lo[l] \in Nat /\ hi[l] \in Nat /\ Within(x, lo[l], hi[l])
  BY <1>1, <1>5, <1>6, <1>7 DEF Keyed, Within
<1>10. /\ k \in Key /\ k \in Nat /\ lo[l] < k /\ Below(k, hi[l]) /\ Sorted(a.keys) /\ Sorted(b.keys)
       /\ \A i \in 1 .. Len(a.keys) : lo[l] <= a.keys[i] /\ a.keys[i] < k
       /\ \A i \in 1 .. Len(b.keys) : k <= b.keys[i] /\ Below(b.keys[i], hi[l])
  <2>1. Divided(a, b, k, lo[l], hi[l])
    BY <1>1, <1>8, <1>9, HalvesDivide
  <2> QED BY <2>1 DEF Divided
<1>11. PICK h2, lo2, hi2 : Cut(DOMAIN node, l, k, F, h, lo, hi, h2, lo2, hi2)
  BY <1>3, <1>5, <1>6, <1>10, CutExists
<1>12. /\ DOMAIN node' = DOMAIN node \cup {F} /\ node'[l] = a /\ node'[F] = b
       /\ \A m \in DOMAIN node : m # l => node'[m] = node[m]
  BY <1>2, <1>3, <1>5 DEF With
<1>13. /\ a \in LeafNodes /\ a.parent = node[l].parent /\ Len(a.values) = Len(a.keys)
       /\ b \in LeafNodes /\ b.parent = node[l].parent /\ b.next = node[l].next /\ Len(b.values) = Len(b.keys)
  BY <1>1, <1>8 DEF Halves
<1>14. Tree(node', root, h2, lo2, hi2, l, k, F)
  BY <1>1, <1>3, <1>4, <1>5, <1>8, <1>10, <1>11, <1>12, <1>13, LeafCut, ZenonT(30)
<1>15. Held(node', lo2, hi2, stored)
  <2>1. DOMAIN stored \subseteq Nat
    BY TreeFacts DEF Kept
  <2>2. node[l] \in LeafNodes /\ Sorted(node[l].keys) /\ Halves(node[l], a, b, c) /\ k = b.keys[1]
    BY <1>1, <1>5, <1>7, <1>8
  <2>3. l \in DOMAIN node /\ lo[l] \in Nat /\ hi[l] \in Nat /\ Held(node, lo, hi, stored)
        /\ F \notin DOMAIN node /\ k \in Nat /\ lo[l] < k /\ Below(k, hi[l])
    BY <1>3, <1>5, <1>9, <1>10
  <2> QED BY <1>11, <1>12, <2>1, <2>2, <2>3, HalvesHold
<1>16. F # Null /\ call'.at = "promote" /\ call'.left = l /\ call'.key = k /\ call'.right = F
  BY <1>2, <1>3, TreeFacts DEF Promote
<1>17. /\ Left(call') = l /\ Middle(call') = k /\ Right(call') = F /\ Over(call') = Null
       /\ Short(call') = Null /\ CallFits(node', root, lo2, hi2, call')
  BY <1>5, <1>8, <1>12, <1>16 DEF Left, Middle, Right, Over, Short, CallFits
<1>18. Full(node', Null)
  BY <1>5, <1>6, <1>8, <1>12, <1>16 DEF Full
<1>19. Filled(node', root, Null)
  BY <1>5, <1>6, <1>8, <1>12, <1>16 DEF Filled
<1>20. Scanned(node', lo2, scan', stored') /\ Scanning' = {}
  BY <1>2, NoScanner
<1>21. Kept(stored') /\ scan' \in [Scanner -> ScanRecords]
  BY <1>2
<1> QED BY <1>2, <1>14, <1>15, <1>17, <1>18, <1>19, <1>20, <1>21, LiveAgain

-----------------------------------------------------------------------------
(* NewRoot, insert_into_parent and split_internal *)

\* The leaves of nd2 are leaves of nd, with their entries and their bounds.
SameLeaves(nd, nd2, lo, hi, lo2, hi2) ==
  \A n \in DOMAIN nd2 : nd2[n] \in LeafNodes =>
    /\ n \in DOMAIN nd /\ nd[n] \in LeafNodes
    /\ nd2[n].keys = nd[n].keys /\ nd2[n].values = nd[n].values
    /\ lo2[n] = lo[n] /\ hi2[n] = hi[n]

\* Where leaves and their ranges stay, what they hold stays.
LEMMA SameHeld ==
  ASSUME NEW nd, NEW nd2, NEW lo, NEW hi, NEW lo2, NEW hi2, SameLeaves(nd, nd2, lo, hi, lo2, hi2),
         NEW st, Held(nd, lo, hi, st)
  PROVE  Held(nd2, lo2, hi2, st)
<1> SUFFICES ASSUME NEW n \in DOMAIN nd2, nd2[n] \in LeafNodes PROVE Holds(nd2, lo2, hi2, st, n)
  BY DEF Held
<1>1. /\ n \in DOMAIN nd /\ nd[n] \in LeafNodes
      /\ nd2[n].keys = nd[n].keys /\ nd2[n].values = nd[n].values
      /\ lo2[n] = lo[n] /\ hi2[n] = hi[n]
  BY DEF SameLeaves
<1>2. Holds(nd, lo, hi, st, n)
  BY <1>1 DEF Held
<1> QED BY <1>1, <1>2 DEF Holds

\* Where leaves stay, their sizes stay.
LEMMA SameFilled ==
  ASSUME NEW nd, NEW nd2, NEW lo, NEW hi, NEW lo2, NEW hi2, SameLeaves(nd, nd2, lo, hi, lo2, hi2),
         NEW r, Filled(nd, r, Null), Null \notin DOMAIN nd
  PROVE  Filled(nd2, r, Null)
BY DEF SameLeaves, Filled

\* insert_into_parent at the root.
LEMMA NewRootKeeps ==
  ASSUME NEW h, NEW lo, NEW hi, Live(h, lo, hi), Kept(stored), scan \in [Scanner -> ScanRecords],
         NewRoot
  PROVE  IndexInv'
<1>1. PICK r, R, k, F, e : /\ r = root /\ R = call.right /\ k = call.key /\ F = Fresh
                          /\ e = Internal(<<k>>, <<r, R>>, Null)
  OBVIOUS
<1>2. /\ call.at = "promote" /\ call.left = r /\ root' = F /\ scan' = scan /\ stored' = stored
      /\ node' = With([node EXCEPT ![r].parent = F, ![R].parent = F], F, e) /\ call' = Idle
  BY <1>1 DEF NewRoot
<1>3. F \in Nodes /\ F \notin DOMAIN node
  BY <1>1, FreshFacts DEF NewRoot
<1>4. /\ Tree(node, r, h, lo, hi, r, k, R)
      /\ Full(node, Null) /\ Filled(node, r, Null) /\ Held(node, lo, hi, stored)
      /\ r \in DOMAIN node /\ (node[r] \in LeafNodes => Len(node[r].keys) >= MinKeys)
  BY <1>1, <1>2 DEF Live, Sound, Left, Middle, Right, Over, Short, CallFits
<1>5. Scanning = {}
  BY <1>2 DEF Live, TreeLocked
<1>6. Typed(node) /\ Null \notin DOMAIN node /\ R # Null /\ R \in DOMAIN node /\ R # r /\ k \in Key
  <2>1. Typed(node) /\ Pending(node, r, h, lo, hi, r, k, R) /\ (r = Null <=> R = Null)
    BY <1>4 DEF Tree
  <2>2. Null \notin DOMAIN node
    BY <2>1, NodeFacts
  <2> QED BY <1>4, <2>1, <2>2 DEF Pending
<1>7. e \in InnerNodes /\ e.keys = <<k>> /\ e.children = <<r, R>> /\ e.parent = Null
  <2>1. r \in Nodes /\ R \in Nodes
    BY <1>4, <1>6, NodeFacts
  <2> QED BY <1>1, <1>6, <2>1 DEF Internal, InnerNodes
<1>8. /\ DOMAIN node' = DOMAIN node \cup {F} /\ node'[F] = e
      /\ node'[r] = [node[r] EXCEPT !.parent = F] /\ node'[R] = [node[R] EXCEPT !.parent = F]
      /\ \A m \in DOMAIN node \ {r, R} : node'[m] = node[m]
  BY <1>2, <1>3, <1>4, <1>6 DEF With
<1>9. \A m \in {r, R} : Like(node[m], node'[m]) /\ node'[m].parent = F
  <2>1. node[r] \in LeafNodes \cup InnerNodes /\ node[R] \in LeafNodes \cup InnerNodes
    BY <1>4, <1>6 DEF Typed
  <2>2. Like(node[r], [node[r] EXCEPT !.parent = F]) /\ [node[r] EXCEPT !.parent = F].parent = F
    BY <1>3, <2>1, AdoptionKeeps
  <2>3. Like(node[R], [node[R] EXCEPT !.parent = F]) /\ [node[R] EXCEPT !.parent = F].parent = F
    BY <1>3, <2>1, AdoptionKeeps
  <2> QED BY <1>8, <2>2, <2>3
<1>10. PICK h2, lo2, hi2 : /\ Tree(node', F, h2, lo2, hi2, Null, 0, Null)
                          /\ \A m \in DOMAIN node : h2[m] = h[m] /\ lo2[m] = lo[m] /\ hi2[m] = hi[m]
  <2>1. Grown(node, node', r, k, R, F, e)
    BY <1>7, <1>8, <1>9 DEF Grown
  <2> QED BY <1>3, <1>4, <1>6, <2>1, RootGrown
<1>11. e \notin LeafNodes
  BY <1>7 DEF LeafNodes, InnerNodes
<1>12. \A m \in DOMAIN node : Like(node[m], node'[m])
  BY <1>8, <1>9 DEF Like
<1>13. SameLeaves(node, node', lo, hi, lo2, hi2)
  BY <1>8, <1>10, <1>11, <1>12 DEF SameLeaves, Like
<1>14. Held(node', lo2, hi2, stored)
  BY <1>4, <1>13, SameHeld
<1>15. Filled(node', F, Null)
  <2>1. \A n \in DOMAIN node : node[n] \in LeafNodes => Len(node[n].keys) >= MinKeys
    BY <1>4, <1>6 DEF Filled
  <2>2. Null \notin DOMAIN node'
    BY <1>3, <1>6, <1>8, TreeFacts
  <2> QED BY <1>13, <2>1, <2>2 DEF Filled, SameLeaves
<1>16. Full(node', Null)
  <2>1. \A n \in DOMAIN node : Len(node'[n].keys) <= MaxKeys
    BY <1>4, <1>6, <1>12 DEF Full, Like
  <2>2. Len(e.keys) <= MaxKeys
    BY <1>7, TreeFacts
  <2>3. Null \notin DOMAIN node'
    BY <1>3, <1>6, <1>8, TreeFacts
  <2> QED BY <1>8, <2>1, <2>2, <2>3 DEF Full
<1>17. /\ Left(call') = Null /\ Middle(call') = 0 /\ Right(call') = Null /\ Over(call') = Null
       /\ Short(call') = Null /\ CallFits(node', F, lo2, hi2, call')
  BY <1>2 DEF Left, Middle, Right, Over, Short, CallFits, Idle
<1>18. Scanned(node', lo2, scan', stored') /\ Scanning' = {}
  BY <1>2, <1>5, NoScanner
<1>19. Kept(stored') /\ scan' \in [Scanner -> ScanRecords]
  BY <1>2
<1> QED BY <1>2, <1>10, <1>14, <1>15, <1>16, <1>17, <1>18, <1>19, LiveAgain

\* insert_into_parent below the root.
LEMMA InsertIntoParentKeeps ==
  ASSUME NEW h, NEW lo, NEW hi, Live(h, lo, hi), Kept(stored), scan \in [Scanner -> ScanRecords],
         insert_into_parent
  PROVE  IndexInv'
<1>1. PICK L, R, k, p, i : /\ L = call.left /\ R = call.right /\ k = call.key
                          /\ p = node[L].parent /\ i = LowerBound(node[p].keys, k)
  OBVIOUS
<1>2. /\ call.at = "promote" /\ L # root /\ root' = root /\ scan' = scan /\ stored' = stored
      /\ node' = [node EXCEPT ![p].keys = InsertAt(@, i, k), ![p].children = InsertAt(@, i + 1, R),
                              ![R].parent = p]
      /\ call' = IF Len(node'[p].keys) > MaxKeys THEN [at |-> "split_internal", node |-> p] ELSE Idle
  BY <1>1 DEF insert_into_parent
<1>3. /\ Tree(node, root, h, lo, hi, L, k, R) /\ L \in DOMAIN node
      /\ Full(node, Null) /\ Filled(node, root, Null) /\ Held(node, lo, hi, stored)
  BY <1>1, <1>2 DEF Live, Sound, Left, Middle, Right, Over, Short, CallFits
<1>4. Scanning = {}
  BY <1>2 DEF Live, TreeLocked
<1>5. /\ Typed(node) /\ Null \notin DOMAIN node /\ R # Null /\ R \in DOMAIN node /\ R # L
      /\ k \in Key /\ h[L] = h[R] /\ Kids(node, h, lo, hi, L, R) /\ h \in [DOMAIN node -> Nat]
  <2>1. /\ Typed(node) /\ Pending(node, root, h, lo, hi, L, k, R) /\ (L = Null <=> R = Null)
        /\ Kids(node, h, lo, hi, L, R) /\ Levels(node, root, h)
    BY <1>3 DEF Tree
  <2>2. Null \notin DOMAIN node
    BY <2>1, NodeFacts
  <2> QED BY <1>3, <2>1, <2>2 DEF Pending, Levels
<1>6. PendingPlace(node, lo, hi, L, k, p, i)
  BY <1>1, <1>2, <1>3, <1>5, PendingPlaced
<1>7. /\ p \in DOMAIN node /\ node[p] \in InnerNodes /\ p # L
      /\ i \in 1 .. Len(node[p].keys) + 1 /\ node[p].children[i] = L
  BY <1>6 DEF PendingPlace
<1>8. /\ node[p].children \in Seq(Nodes) /\ Len(node[p].children) = Len(node[p].keys) + 1
      /\ node[p].keys \in Seq(Key) /\ Len(node[p].keys) \in Nat
  BY <1>5, <1>7, InnerFacts, NodeFacts
<1>9. p # R
  <2>1. Child(node, h, lo, hi, L, R, p, i)
    BY <1>5, <1>7, <1>8, ChildFacts
  <2>2. h[L] + 1 = h[p]
    BY <1>7, <2>1 DEF Child
  <2>3. h[L] \in Nat
    BY <1>3, <1>5
  <2> QED BY <1>5, <2>2, <2>3
<1>10. PICK q, cs : q = InsertAt(node[p].keys, i, k) /\ cs = InsertAt(node[p].children, i + 1, R)
  OBVIOUS
<1>11. q \in Seq(Key) /\ Inserted(node[p].keys, i, k, q)
  BY <1>5, <1>7, <1>8, <1>10, InsertAtFacts
<1>12. cs \in Seq(Nodes) /\ Inserted(node[p].children, i + 1, R, cs)
  <2>1. i + 1 \in 1 .. Len(node[p].children) + 1
    BY <1>7, <1>8
  <2>2. R \in Nodes
    BY <1>5, NodeFacts
  <2> QED BY <1>8, <1>10, <2>1, <2>2, InsertAtFacts
<1>13. PICK e : e = [node[p] EXCEPT !.keys = q, !.children = cs]
  OBVIOUS
<1>14. e \in InnerNodes /\ e.parent = node[p].parent /\ e.keys = q /\ e.children = cs
  BY <1>7, <1>11, <1>12, <1>13 DEF InnerNodes
<1>15. /\ DOMAIN node' = DOMAIN node /\ node'[p] = e /\ node'[R] = [node[R] EXCEPT !.parent = p]
       /\ \A m \in DOMAIN node \ {p, R} : node'[m] = node[m]
  <2>1. node' = [node EXCEPT ![p] = e, ![R] = [node[R] EXCEPT !.parent = p]]
    BY <1>2, <1>5, <1>7, <1>9, <1>10, <1>13 DEF InnerNodes
  <2> QED BY <1>5, <1>7, <1>9, <2>1
<1>16. Like(node[R], node'[R]) /\ node'[R].parent = p
  <2>1. node[R] \in LeafNodes \cup InnerNodes
    BY <1>5 DEF Typed
  <2>2. p \in Nodes
    BY <1>5, <1>7, NodeFacts
  <2> QED BY <1>15, <2>1, <2>2, AdoptionKeeps
<1>17. Tree(node', root, h, lo, hi, Null, 0, Null)
  <2>1. R # Null /\ L # root /\ Tree(node, root, h, lo, hi, L, k, R)
    BY <1>2, <1>3, <1>5
  <2>2. Inserted(node[p].keys, i, k, e.keys) /\ Inserted(node[p].children, i + 1, R, e.children)
    BY <1>11, <1>12, <1>14
  <2>3. /\ DOMAIN node' = DOMAIN node /\ node'[p] = e
        /\ \A m \in DOMAIN node \ {p, R} : node'[m] = node[m]
    BY <1>15
  <2>4. p = node[L].parent /\ i = LowerBound(node[p].keys, k)
    BY <1>1
  <2> QED BY <1>14, <1>16, <2>1, <2>2, <2>3, <2>4, ParentTold
<1>18. e \notin LeafNodes
  BY <1>14 DEF LeafNodes, InnerNodes
<1>19. \A m \in DOMAIN node \ {p} : Like(node[m], node'[m])
  BY <1>15, <1>16 DEF Like
<1>20. SameLeaves(node, node', lo, hi, lo, hi)
  BY <1>15, <1>18, <1>19 DEF SameLeaves, Like
<1>21. Held(node', lo, hi, stored) /\ Filled(node', root, Null)
  BY <1>3, <1>5, <1>20, SameHeld, SameFilled
<1>22. \A m \in DOMAIN node \ {p} : Len(node'[m].keys) <= MaxKeys
  BY <1>3, <1>5, <1>19 DEF Full, Like
<1>23. Len(q) = Len(node[p].keys) + 1 /\ Len(node[p].keys) <= MaxKeys
  BY <1>3, <1>5, <1>7, <1>11 DEF Inserted, Full
<1>24. Full(node', Over(call'))
  <2>1. CASE Len(q) > MaxKeys
    <3>1. Len(q) = MaxKeys + 1
      BY <1>8, <1>23, <2>1, TreeFacts
    <3>2. Over(call') = p
      BY <1>2, <1>14, <1>15, <2>1 DEF Over
    <3> QED BY <1>14, <1>15, <1>22, <3>1, <3>2 DEF Full
  <2>2. CASE ~(Len(q) > MaxKeys)
    <3>1. Len(q) <= MaxKeys
      BY <1>8, <1>23, <2>2, TreeFacts
    <3>2. Over(call') = Null
      BY <1>2, <1>14, <1>15, <2>2 DEF Over, Idle
    <3> QED BY <1>5, <1>14, <1>15, <1>22, <3>1, <3>2 DEF Full
  <2> QED BY <2>1, <2>2
<1>25. /\ Left(call') = Null /\ Middle(call') = 0 /\ Right(call') = Null
       /\ Short(call') = Null /\ CallFits(node', root, lo, hi, call')
  BY <1>2, <1>7, <1>14, <1>15 DEF Left, Middle, Right, Short, CallFits, Idle
<1>26. Scanned(node', lo, scan', stored') /\ Scanning' = {}
  BY <1>2, <1>4, NoScanner
<1>27. Kept(stored') /\ scan' \in [Scanner -> ScanRecords]
  BY <1>2
<1> QED BY <1>2, <1>17, <1>21, <1>24, <1>25, <1>26, <1>27, LiveAgain

\* split_internal.
LEMMA SplitInternalKeeps ==
  ASSUME NEW h, NEW lo, NEW hi, Live(h, lo, hi), Kept(stored), scan \in [Scanner -> ScanRecords],
         split_internal
  PROVE  IndexInv'
<1>1. PICK n, F, q, cs, N, mid, k : /\ n = call.node /\ F = Fresh /\ q = node[n].keys
                                   /\ cs = node[n].children /\ N = Len(q)
                                   /\ mid = N \div 2 + 1 /\ k = q[mid]
  OBVIOUS
<1>2. PICK q1, q2, c1, c2 : /\ q1 = SubSeq(q, 1, mid - 1) /\ c1 = SubSeq(cs, 1, mid)
                           /\ q2 = SubSeq(q, mid + 1, N) /\ c2 = SubSeq(cs, mid + 1, Len(cs))
  OBVIOUS
<1>3. PICK a, b : a = [node[n] EXCEPT !.keys = q1, !.children = c1] /\ b = Internal(q2, c2, node[n].parent)
  OBVIOUS
<1>4. /\ call.at = "split_internal" /\ root' = root /\ scan' = scan /\ stored' = stored
  BY DEF split_internal
<1>5. Tree(node, root, h, lo, hi, Null, 0, Null)
  BY <1>4, QuietTree
<1>6. /\ n \in DOMAIN node /\ node[n] \in InnerNodes
      /\ Full(node, n) /\ Filled(node, root, Null) /\ Held(node, lo, hi, stored)
  BY <1>1, <1>4 DEF Live, Sound, CallFits, Over, Short
<1>7. b.children = c2
  BY <1>3 DEF Internal
<1>8. /\ node' = With(With(AdoptedBy(F, c2), n, a), F, b)
      /\ call' = Promote(n, k, F)
  <2>1. a = [node[n] EXCEPT !.keys = SubSeq(@, 1, mid - 1), !.children = SubSeq(@, 1, mid)]
    BY <1>1, <1>2, <1>3, <1>6 DEF InnerNodes
  <2> QED BY <1>1, <1>2, <1>3, <1>7, <2>1 DEF split_internal
<1>9. F \in Nodes /\ F \notin DOMAIN node
  BY <1>1, FreshFacts DEF split_internal
<1>10. Scanning = {}
  BY <1>4 DEF Live, TreeLocked
<1>11. /\ Typed(node) /\ Keyed(node, lo, hi) /\ Null \notin DOMAIN node
       /\ h \in [DOMAIN node -> Nat] /\ lo \in [DOMAIN node -> Nat] /\ hi \in [DOMAIN node -> Nat]
  BY <1>5, NodeFacts DEF Tree, Bounds, Levels
<1>12. /\ q \in Seq(Key) /\ cs \in Seq(Nodes) /\ N = Len(q) /\ Len(cs) = N + 1 /\ N = MaxKeys + 1
  BY <1>1, <1>6, <1>11, InnerFacts, NodeFacts DEF Full
<1>13. N \in Nat /\ mid \in 1 .. N /\ mid \in Nat /\ N - mid <= MaxKeys /\ mid - 1 <= MaxKeys
  <2>1. MaxKeys \in Nat /\ MaxKeys >= 2
    BY TreeFacts
  <2> QED BY <1>1, <1>12, <2>1
<1>14. q1 \in Seq(Key) /\ Part(q, 1, mid - 1, q1) /\ c1 \in Seq(Nodes) /\ Part(cs, 1, mid, c1)
  <2>1. mid - 1 \in Nat /\ 1 <= (mid - 1) + 1 /\ mid - 1 <= N /\ 1 <= mid + 1 /\ mid <= N + 1 /\ 1 \in Nat /\ 1 <= 1
    BY <1>13
  <2> QED BY <1>2, <1>12, <1>13, <2>1, PartFacts
<1>15. q2 \in Seq(Key) /\ Part(q, mid + 1, N, q2) /\ c2 \in Seq(Nodes) /\ Part(cs, mid + 1, N + 1, c2)
  <2>1. mid + 1 \in Nat /\ N + 1 \in Nat /\ 1 <= mid + 1 /\ mid + 1 <= N + 1 /\ N <= N
        /\ mid + 1 <= (N + 1) + 1 /\ N + 1 <= N + 1
    BY <1>13
  <2> QED BY <1>2, <1>12, <1>13, <2>1, PartFacts
<1>16. node[n].parent \in Nodes \cup {Null}
  BY <1>6, <1>11, NodeFacts
<1>17. /\ a \in InnerNodes /\ a.parent = node[n].parent /\ a.keys = q1 /\ a.children = c1
       /\ b \in InnerNodes /\ b.parent = node[n].parent /\ b.keys = q2 /\ b.children = c2
  BY <1>3, <1>6, <1>14, <1>15, <1>16 DEF InnerNodes, Internal
<1>18. /\ DOMAIN node' = DOMAIN node \cup {F} /\ node'[n] = a /\ node'[F] = b
       /\ \A m \in DOMAIN node : m # n =>
            node'[m] = IF m \in Range(c2) THEN [node[m] EXCEPT !.parent = F] ELSE node[m]
  BY <1>6, <1>8, <1>9 DEF With, AdoptedBy
<1>19. \A m : m \in Range(c2) <=> \E j \in mid + 1 .. N + 1 : cs[j] = m
  <2>1. Len(c2) = (N + 1) - mid /\ \A j \in 1 .. (N + 1) - mid : c2[j] = cs[j + mid]
    <3>1. (N + 1) - (mid + 1) + 1 = (N + 1) - mid /\ (mid + 1) - 1 = mid
      BY <1>13
    <3> QED BY <1>15, <3>1 DEF Part
  <2>2. Range(c2) = {c2[j] : j \in 1 .. (N + 1) - mid}
    <3>1. DOMAIN c2 = 1 .. (N + 1) - mid
      BY <1>15, <2>1
    <3> QED BY <3>1 DEF Range
  <2>3. ASSUME NEW m, m \in Range(c2) PROVE \E j \in mid + 1 .. N + 1 : cs[j] = m
    <3>1. PICK j \in 1 .. (N + 1) - mid : c2[j] = m
      BY <2>2, <2>3
    <3>2. j + mid \in mid + 1 .. N + 1
      BY <1>13
    <3> QED BY <2>1, <3>1, <3>2
  <2>4. ASSUME NEW m, NEW j \in mid + 1 .. N + 1, cs[j] = m PROVE m \in Range(c2)
    <3>1. j - mid \in 1 .. (N + 1) - mid /\ (j - mid) + mid = j
      BY <1>13
    <3> QED BY <2>1, <2>2, <2>4, <3>1
  <2> QED BY <2>3, <2>4
<1>20. ASSUME NEW m \in DOMAIN node, m # n
       PROVE  /\ Like(node[m], node'[m])
              /\ node'[m].parent = IF \E j \in mid + 1 .. N + 1 : cs[j] = m THEN F ELSE node[m].parent
  <2>1. node[m] \in LeafNodes \cup InnerNodes
    BY <1>11 DEF Typed
  <2>2. CASE m \in Range(c2)
    <3>1. node'[m] = [node[m] EXCEPT !.parent = F]
      BY <1>18, <1>20, <2>2
    <3>2. Like(node[m], [node[m] EXCEPT !.parent = F]) /\ [node[m] EXCEPT !.parent = F].parent = F
      BY <1>9, <2>1, AdoptionKeeps
    <3> QED BY <1>19, <2>2, <3>1, <3>2
  <2>3. CASE m \notin Range(c2)
    <3>1. node'[m] = node[m]
      BY <1>18, <1>20, <2>3
    <3> QED BY <1>19, <2>3, <3>1 DEF Like
  <2> QED BY <2>2, <2>3
<1>21. k \in Key /\ k \in Nat /\ lo[n] < k /\ Below(k, hi[n])
  <2>1. k \in Key
    <3>1. q \in Seq(Key) /\ mid \in 1 .. Len(q)
      BY <1>12, <1>13
    <3> QED BY <1>1, <3>1, ElementOfSeq
  <2> QED BY <1>1, <1>6, <1>11, <1>13, <2>1, TreeFacts DEF Keyed
<1>22. PICK h2, lo2, hi2 : Cut(DOMAIN node, n, k, F, h, lo, hi, h2, lo2, hi2)
  BY <1>6, <1>9, <1>11, <1>21, CutExists
<1>23. Tree(node', root, h2, lo2, hi2, n, k, F)
  <2>1. Part(q, 1, mid - 1, a.keys) /\ Part(cs, 1, mid, a.children)
    BY <1>14, <1>17
  <2>2. Part(q, mid + 1, Len(q), b.keys) /\ Part(cs, mid + 1, Len(q) + 1, b.children)
    BY <1>12, <1>15, <1>17
  <2>3. q = node[n].keys /\ cs = node[n].children /\ k = q[mid] /\ mid \in 1 .. Len(q)
    BY <1>1, <1>13
  <2>4. \A m \in DOMAIN node : m # n =>
          /\ Like(node[m], node'[m])
          /\ node'[m].parent = IF \E j \in mid + 1 .. Len(q) + 1 : cs[j] = m THEN F ELSE node[m].parent
    BY <1>12, <1>20
  <2>5. InnerHalves(node, node', n, F, q, cs, mid, a, b)
    BY <1>17, <1>18, <2>1, <2>2, <2>3, <2>4 DEF InnerHalves
  <2> QED BY <1>5, <1>6, <1>9, <1>22, <2>3, <2>5, InnerCut
<1>24. a \notin LeafNodes /\ b \notin LeafNodes
  BY <1>17 DEF LeafNodes, InnerNodes
<1>25. \A m \in DOMAIN node : m # n => lo2[m] = lo[m] /\ hi2[m] = hi[m]
  BY <1>22 DEF Cut
<1>26. SameLeaves(node, node', lo, hi, lo2, hi2)
  BY <1>18, <1>20, <1>24, <1>25 DEF SameLeaves, Like
<1>27. Held(node', lo2, hi2, stored) /\ Filled(node', root, Null)
  BY <1>6, <1>11, <1>26, SameHeld, SameFilled
<1>28. Len(q1) = mid - 1 /\ Len(q2) = N - mid
  <2>1. (mid - 1) - 1 + 1 = mid - 1 /\ N - (mid + 1) + 1 = N - mid
    BY <1>13
  <2> QED BY <1>14, <1>15, <2>1 DEF Part
<1>29. F # Null /\ call'.at = "promote" /\ call'.left = n /\ call'.key = k /\ call'.right = F
  BY <1>8, <1>9, TreeFacts DEF Promote
<1>30. Full(node', Null)
  <2>1. \A m \in DOMAIN node : m # n => Len(node'[m].keys) <= MaxKeys
    BY <1>6, <1>20 DEF Full, Like
  <2> QED BY <1>11, <1>13, <1>17, <1>18, <1>28, <1>29, <2>1 DEF Full
<1>31. /\ Left(call') = n /\ Middle(call') = k /\ Right(call') = F /\ Over(call') = Null
       /\ Short(call') = Null /\ CallFits(node', root, lo2, hi2, call')
  BY <1>6, <1>18, <1>24, <1>29 DEF Left, Middle, Right, Over, Short, CallFits
<1>32. Scanned(node', lo2, scan', stored') /\ Scanning' = {}
  BY <1>4, <1>10, NoScanner
<1>33. Kept(stored') /\ scan' \in [Scanner -> ScanRecords]
  BY <1>4
<1> QED BY <1>4, <1>23, <1>27, <1>30, <1>31, <1>32, <1>33, LiveAgain

-----------------------------------------------------------------------------
(* Entries that change the leaf *)

\* The leaf e has v under k.
Entry(e, k, v) == \E i \in 1 .. Len(e.keys) : e.keys[i] = k /\ e.values[i] = v

\* A leaf that holds its range, said of its entries.
LEMMA HeldEntries ==
  ASSUME NEW nd, NEW lo, NEW hi, NEW st, NEW n, Holds(nd, lo, hi, st, n)
  PROVE  /\ \A k, v : Entry(nd[n], k, v) => k \in DOMAIN st /\ st[k] = v
         /\ \A k \in DOMAIN st : lo[n] <= k /\ Below(k, hi[n]) => Entry(nd[n], k, st[k])
BY DEF Entry, Holds

\* Entries that agree with what is stored make a leaf that holds its range.
LEMMA EntriesHeld ==
  ASSUME NEW nd, NEW lo, NEW hi, NEW st, NEW n,
         \A k, v : Entry(nd[n], k, v) => k \in DOMAIN st /\ st[k] = v,
         \A k \in DOMAIN st : lo[n] <= k /\ Below(k, hi[n]) => Entry(nd[n], k, st[k])
  PROVE  Holds(nd, lo, hi, st, n)
<1>1. \A i \in 1 .. Len(nd[n].keys) : Entry(nd[n], nd[n].keys[i], nd[n].values[i])
  BY DEF Entry
<1>2. \A i \in 1 .. Len(nd[n].keys) : nd[n].keys[i] \in DOMAIN st /\ st[nd[n].keys[i]] = nd[n].values[i]
  BY <1>1
<1>3. \A k \in DOMAIN st : lo[n] <= k /\ Below(k, hi[n]) => \E i \in 1 .. Len(nd[n].keys) : nd[n].keys[i] = k
  BY DEF Entry
<1> QED BY <1>2, <1>3 DEF Holds

\* The leaves ea and eb have the entries of a and b.
SameEntries(a, b, ea, eb) ==
  \A k, v : Entry(ea, k, v) \/ Entry(eb, k, v) <=> Entry(a, k, v) \/ Entry(b, k, v)

\* The ranges when s becomes the key between the leaves a and b.
ShiftHolds(nd, nd2, a, b, s, lo, hi, lo2, hi2) ==
  /\ a \in DOMAIN nd /\ b \in DOMAIN nd /\ a # b
  /\ lo[a] \in Nat /\ lo[b] \in Nat /\ hi[a] = lo[b] /\ hi[a] # 0
  /\ hi[b] \in Nat /\ s \in Nat /\ s # 0 /\ lo[a] < s /\ Below(s, hi[b]) /\ Below(lo[b], hi[b])
  /\ lo2 \in [DOMAIN nd -> Nat] /\ hi2 \in [DOMAIN nd -> Nat]
  /\ \A m \in DOMAIN nd : /\ lo2[m] = IF m = b THEN s ELSE lo[m]
                          /\ hi2[m] = IF m = a THEN s ELSE hi[m]
  /\ Within(nd2[a], lo[a], s) /\ Within(nd2[b], s, hi[b])
  /\ SameEntries(nd[a], nd[b], nd2[a], nd2[b])

\* A borrow loses no entry.
LEMMA ShiftedHeld ==
  ASSUME NEW nd, NEW nd2, NEW a, NEW b, NEW s, NEW lo, NEW hi, NEW lo2, NEW hi2,
         ShiftHolds(nd, nd2, a, b, s, lo, hi, lo2, hi2),
         nd[a] \in LeafNodes, nd[b] \in LeafNodes, DOMAIN nd2 = DOMAIN nd,
         \A m \in DOMAIN nd : m # a /\ m # b /\ nd2[m] \in LeafNodes => nd2[m] = nd[m],
         NEW st, Held(nd, lo, hi, st), DOMAIN st \subseteq Nat
  PROVE  Held(nd2, lo2, hi2, st)
<1>1. /\ a \in DOMAIN nd /\ b \in DOMAIN nd /\ a # b
      /\ lo[a] \in Nat /\ lo[b] \in Nat /\ hi[a] = lo[b] /\ hi[a] # 0
      /\ hi[b] \in Nat /\ s \in Nat /\ s # 0 /\ lo[a] < s /\ Below(s, hi[b]) /\ Below(lo[b], hi[b])
      /\ \A m \in DOMAIN nd : /\ lo2[m] = IF m = b THEN s ELSE lo[m]
                              /\ hi2[m] = IF m = a THEN s ELSE hi[m]
  BY DEF ShiftHolds
<1>2. /\ \A k, v : Entry(nd[a], k, v) => k \in DOMAIN st /\ st[k] = v
      /\ \A k \in DOMAIN st : lo[a] <= k /\ Below(k, hi[a]) => Entry(nd[a], k, st[k])
      /\ \A k, v : Entry(nd[b], k, v) => k \in DOMAIN st /\ st[k] = v
      /\ \A k \in DOMAIN st : lo[b] <= k /\ Below(k, hi[b]) => Entry(nd[b], k, st[k])
  <2>1. Holds(nd, lo, hi, st, a) /\ Holds(nd, lo, hi, st, b)
    BY <1>1 DEF Held
  <2>2. /\ \A k, v : Entry(nd[a], k, v) => k \in DOMAIN st /\ st[k] = v
        /\ \A k \in DOMAIN st : lo[a] <= k /\ Below(k, hi[a]) => Entry(nd[a], k, st[k])
    BY <2>1, HeldEntries
  <2>3. /\ \A k, v : Entry(nd[b], k, v) => k \in DOMAIN st /\ st[k] = v
        /\ \A k \in DOMAIN st : lo[b] <= k /\ Below(k, hi[b]) => Entry(nd[b], k, st[k])
    BY <2>1, HeldEntries
  <2> QED BY <2>2, <2>3
<1>3. \A k, v : Entry(nd2[a], k, v) \/ Entry(nd2[b], k, v) <=> Entry(nd[a], k, v) \/ Entry(nd[b], k, v)
  BY DEF ShiftHolds, SameEntries
<1>4. /\ \A k, v : Entry(nd2[a], k, v) => lo[a] <= k /\ Below(k, s)
      /\ \A k, v : Entry(nd2[b], k, v) => s <= k /\ Below(k, hi[b])
  BY DEF ShiftHolds, Within, Entry
<1>5. \A k, v : Entry(nd2[a], k, v) \/ Entry(nd2[b], k, v) => k \in DOMAIN st /\ st[k] = v
  BY <1>2, <1>3
<1>6. ASSUME NEW k \in DOMAIN st, lo[a] <= k, Below(k, hi[b])
      PROVE  Entry(nd2[a], k, st[k]) \/ Entry(nd2[b], k, st[k])
  <2>1. k \in Nat
    OBVIOUS
  <2>2. k < hi[a] \/ lo[b] <= k
    BY <1>1, <2>1
  <2> QED BY <1>2, <1>3, <1>6, <2>2 DEF Below
<1>7. ASSUME NEW k \in DOMAIN st, lo2[a] <= k, Below(k, hi2[a]) PROVE Entry(nd2[a], k, st[k])
  <2>1. k \in Nat /\ lo[a] <= k /\ k < s
    BY <1>1, <1>7 DEF Below
  <2>2. Below(k, hi[b]) /\ ~(s <= k)
    BY <1>1, <2>1 DEF Below
  <2> QED BY <1>4, <1>6, <2>1, <2>2
<1>8. ASSUME NEW k \in DOMAIN st, lo2[b] <= k, Below(k, hi2[b]) PROVE Entry(nd2[b], k, st[k])
  <2>1. k \in Nat /\ s <= k /\ Below(k, hi[b])
    BY <1>1, <1>8
  <2>2. lo[a] <= k /\ ~Below(k, s)
    BY <1>1, <2>1 DEF Below
  <2> QED BY <1>4, <1>6, <2>1, <2>2
<1>9. Holds(nd2, lo2, hi2, st, a) /\ Holds(nd2, lo2, hi2, st, b)
  BY <1>5, <1>7, <1>8, EntriesHeld
<1>10. ASSUME NEW m \in DOMAIN nd, m # a, m # b, nd2[m] \in LeafNodes PROVE Holds(nd2, lo2, hi2, st, m)
  <2>1. nd2[m] = nd[m] /\ lo2[m] = lo[m] /\ hi2[m] = hi[m]
    BY <1>1, <1>10
  <2>2. Holds(nd, lo, hi, st, m)
    BY <1>10, <2>1 DEF Held
  <2> QED BY <2>1, <2>2 DEF Holds
<1> QED BY <1>9, <1>10 DEF Held

\* The last entry of a becomes the first of b.
LastMoved(a, b, ea, eb) ==
  /\ ea \in LeafNodes /\ ea.parent = a.parent /\ ea.next = a.next
  /\ eb \in LeafNodes /\ eb.parent = b.parent /\ eb.next = b.next
  /\ Len(ea.keys) = Len(a.keys) - 1 /\ Len(ea.values) = Len(ea.keys)
  /\ Len(eb.keys) = Len(b.keys) + 1 /\ Len(eb.values) = Len(eb.keys)
  /\ \A j \in 1 .. Len(a.keys) - 1 : ea.keys[j] = a.keys[j] /\ ea.values[j] = a.values[j]
  /\ eb.keys[1] = a.keys[Len(a.keys)] /\ eb.values[1] = a.values[Len(a.keys)]
  /\ \A j \in 1 .. Len(b.keys) : eb.keys[1 + j] = b.keys[j] /\ eb.values[1 + j] = b.values[j]

\* borrow_from_left: the last entry of the left leaf goes to the front of the right one.
LEMMA LastMovedFacts ==
  ASSUME NEW a \in LeafNodes, NEW b \in LeafNodes, Len(a.values) = Len(a.keys),
         Len(b.values) = Len(b.keys), Len(a.keys) >= 1
  PROVE  LastMoved(a, b, [a EXCEPT !.keys = Front(a.keys), !.values = Front(a.values)],
                   [b EXCEPT !.keys = <<Last(a.keys)>> \o b.keys, !.values = <<Last(a.values)>> \o b.values])
<1>1. PICK q, w, n, q1, w1 : /\ q = a.keys /\ w = a.values /\ n = Len(q)
                            /\ q1 = Front(q) /\ w1 = Front(w)
  OBVIOUS
<1>2. PICK r, u, m, r1, u1 : /\ r = b.keys /\ u = b.values /\ m = Len(r)
                            /\ r1 = <<Last(q)>> \o r /\ u1 = <<Last(w)>> \o u
  OBVIOUS
<1>3. /\ q \in Seq(Key) /\ w \in Seq(Value) /\ r \in Seq(Key) /\ u \in Seq(Value)
      /\ Len(q) = n /\ Len(w) = n /\ Len(r) = m /\ Len(u) = m /\ n \in Nat /\ m \in Nat /\ n >= 1
  BY <1>1, <1>2 DEF LeafNodes
<1>4. /\ q1 \in Seq(Key) /\ Len(q1) = n - 1 /\ w1 \in Seq(Value) /\ Len(w1) = n - 1
      /\ \A j \in 1 .. n - 1 : q1[j] = q[j] /\ w1[j] = w[j]
  <2>1. q1 = SubSeq(q, 1, n - 1) /\ w1 = SubSeq(w, 1, n - 1)
    BY <1>1, <1>3 DEF Front
  <2>2. n - 1 \in Nat /\ 1 <= 1 /\ 1 <= (n - 1) + 1 /\ n - 1 <= n /\ 1 \in Nat
    BY <1>3
  <2>3. /\ q1 \in Seq(Key) /\ Part(q, 1, n - 1, q1) /\ w1 \in Seq(Value) /\ Part(w, 1, n - 1, w1)
    BY <1>3, <2>1, <2>2, PartFacts
  <2>4. (n - 1) - 1 + 1 = n - 1 /\ \A j \in 1 .. n - 1 : j + (1 - 1) = j
    BY <1>3
  <2> QED BY <2>3, <2>4 DEF Part
<1>5. Last(q) \in Key /\ Last(q) = q[n] /\ Last(w) \in Value /\ Last(w) = w[n]
  BY <1>3 DEF Last
<1>6. /\ r1 \in Seq(Key) /\ Len(r1) = m + 1 /\ r1[1] = q[n] /\ \A j \in 1 .. m : r1[1 + j] = r[j]
  <2>1. PICK t : t = <<Last(q)>>
    OBVIOUS
  <2>2. t \in Seq(Key) /\ Len(t) = 1 /\ t[1] = q[n]
    BY <1>5, <2>1
  <2>3. r1 \in Seq(Key) /\ Joined(t, r, r1)
    BY <1>2, <1>3, <2>1, <2>2, JoinFacts
  <2> QED BY <1>3, <2>2, <2>3 DEF Joined
<1>7. /\ u1 \in Seq(Value) /\ Len(u1) = m + 1 /\ u1[1] = w[n] /\ \A j \in 1 .. m : u1[1 + j] = u[j]
  <2>1. PICK t : t = <<Last(w)>>
    OBVIOUS
  <2>2. t \in Seq(Value) /\ Len(t) = 1 /\ t[1] = w[n]
    BY <1>5, <2>1
  <2>3. u1 \in Seq(Value) /\ Joined(t, u, u1)
    BY <1>2, <1>3, <2>1, <2>2, JoinFacts
  <2> QED BY <1>3, <2>2, <2>3 DEF Joined
<1>8. PICK ea, eb : /\ ea = [a EXCEPT !.keys = q1, !.values = w1]
                   /\ eb = [b EXCEPT !.keys = r1, !.values = u1]
  OBVIOUS
<1>9. /\ ea \in LeafNodes /\ ea.parent = a.parent /\ ea.next = a.next /\ ea.keys = q1 /\ ea.values = w1
      /\ eb \in LeafNodes /\ eb.parent = b.parent /\ eb.next = b.next /\ eb.keys = r1 /\ eb.values = u1
  BY <1>4, <1>6, <1>7, <1>8 DEF LeafNodes
<1>10. LastMoved(a, b, ea, eb)
  <2>1. /\ Len(ea.keys) = Len(a.keys) - 1 /\ Len(ea.values) = Len(ea.keys)
        /\ Len(eb.keys) = Len(b.keys) + 1 /\ Len(eb.values) = Len(eb.keys)
    BY <1>1, <1>2, <1>4, <1>6, <1>7, <1>9
  <2>2. \A j \in 1 .. Len(a.keys) - 1 : ea.keys[j] = a.keys[j] /\ ea.values[j] = a.values[j]
    BY <1>1, <1>4, <1>9
  <2>3. eb.keys[1] = a.keys[Len(a.keys)] /\ eb.values[1] = a.values[Len(a.keys)]
    BY <1>1, <1>6, <1>7, <1>9
  <2>4. \A j \in 1 .. Len(b.keys) : eb.keys[1 + j] = b.keys[j] /\ eb.values[1 + j] = b.values[j]
    BY <1>2, <1>6, <1>7, <1>9
  <2> QED BY <1>9, <2>1, <2>2, <2>3, <2>4 DEF LastMoved
<1> QED BY <1>1, <1>2, <1>8, <1>10

\* The first entry of b becomes the last of a.
FirstMoved(a, b, ea, eb) ==
  /\ ea \in LeafNodes /\ ea.parent = a.parent /\ ea.next = a.next
  /\ eb \in LeafNodes /\ eb.parent = b.parent /\ eb.next = b.next
  /\ Len(ea.keys) = Len(a.keys) + 1 /\ Len(ea.values) = Len(ea.keys)
  /\ Len(eb.keys) = Len(b.keys) - 1 /\ Len(eb.values) = Len(eb.keys)
  /\ \A j \in 1 .. Len(a.keys) : ea.keys[j] = a.keys[j] /\ ea.values[j] = a.values[j]
  /\ ea.keys[Len(a.keys) + 1] = b.keys[1] /\ ea.values[Len(a.keys) + 1] = b.values[1]
  /\ \A j \in 1 .. Len(b.keys) - 1 : eb.keys[j] = b.keys[j + 1] /\ eb.values[j] = b.values[j + 1]

\* borrow_from_right: the first entry of the right leaf goes to the end of the left one.
LEMMA FirstMovedFacts ==
  ASSUME NEW a \in LeafNodes, NEW b \in LeafNodes, Len(a.values) = Len(a.keys),
         Len(b.values) = Len(b.keys), Len(b.keys) >= 1
  PROVE  FirstMoved(a, b, [a EXCEPT !.keys = Append(a.keys, Head(b.keys)),
                                    !.values = Append(a.values, Head(b.values))],
                    [b EXCEPT !.keys = Tail(b.keys), !.values = Tail(b.values)])
<1>1. PICK q, w, n, q1, w1 : /\ q = b.keys /\ w = b.values /\ n = Len(q)
                            /\ q1 = Tail(q) /\ w1 = Tail(w)
  OBVIOUS
<1>2. PICK r, u, m, r1, u1 : /\ r = a.keys /\ u = a.values /\ m = Len(r)
                            /\ r1 = Append(r, Head(q)) /\ u1 = Append(u, Head(w))
  OBVIOUS
<1>3. /\ q \in Seq(Key) /\ w \in Seq(Value) /\ r \in Seq(Key) /\ u \in Seq(Value)
      /\ Len(q) = n /\ Len(w) = n /\ Len(r) = m /\ Len(u) = m /\ n \in Nat /\ m \in Nat /\ n >= 1
  BY <1>1, <1>2 DEF LeafNodes
<1>4. /\ q1 \in Seq(Key) /\ Len(q1) = n - 1 /\ w1 \in Seq(Value) /\ Len(w1) = n - 1
      /\ \A j \in 1 .. n - 1 : q1[j] = q[j + 1] /\ w1[j] = w[j + 1]
      /\ Head(q) = q[1] /\ Head(w) = w[1] /\ Head(q) \in Key /\ Head(w) \in Value
  <2>1. q # << >> /\ w # << >>
    BY <1>3
  <2> QED BY <1>1, <1>3, <2>1, HeadTailProperties
<1>5. /\ r1 \in Seq(Key) /\ Len(r1) = m + 1 /\ r1[m + 1] = q[1] /\ \A j \in 1 .. m : r1[j] = r[j]
      /\ u1 \in Seq(Value) /\ Len(u1) = m + 1 /\ u1[m + 1] = w[1] /\ \A j \in 1 .. m : u1[j] = u[j]
  BY <1>2, <1>3, <1>4, AppendProperties, SMTT(30)
<1>8. PICK ea, eb : /\ ea = [a EXCEPT !.keys = r1, !.values = u1]
                   /\ eb = [b EXCEPT !.keys = q1, !.values = w1]
  OBVIOUS
<1>9. /\ ea \in LeafNodes /\ ea.parent = a.parent /\ ea.next = a.next /\ ea.keys = r1 /\ ea.values = u1
      /\ eb \in LeafNodes /\ eb.parent = b.parent /\ eb.next = b.next /\ eb.keys = q1 /\ eb.values = w1
  BY <1>4, <1>5, <1>8 DEF LeafNodes
<1>10. FirstMoved(a, b, ea, eb)
  <2>1. /\ Len(ea.keys) = Len(a.keys) + 1 /\ Len(ea.values) = Len(ea.keys)
        /\ Len(eb.keys) = Len(b.keys) - 1 /\ Len(eb.values) = Len(eb.keys)
    BY <1>1, <1>2, <1>4, <1>5, <1>9
  <2>2. \A j \in 1 .. Len(a.keys) : ea.keys[j] = a.keys[j] /\ ea.values[j] = a.values[j]
    BY <1>2, <1>5, <1>9
  <2>3. ea.keys[Len(a.keys) + 1] = b.keys[1] /\ ea.values[Len(a.keys) + 1] = b.values[1]
    BY <1>1, <1>2, <1>5, <1>9
  <2>4. \A j \in 1 .. Len(b.keys) - 1 : eb.keys[j] = b.keys[j + 1] /\ eb.values[j] = b.values[j + 1]
    BY <1>1, <1>4, <1>9
  <2> QED BY <1>9, <2>1, <2>2, <2>3, <2>4 DEF FirstMoved
<1> QED BY <1>1, <1>2, <1>8, <1>10

\* After the move s divides the entries of a and b, which are what they were.
Rearranged(a, b, ea, eb, s, lower, upper) ==
  /\ s \in Key /\ s \in Nat /\ s # 0 /\ lower < s /\ Below(s, upper)
  /\ Within(ea, lower, s) /\ ea.parent = a.parent /\ ea.next = a.next
  /\ Within(eb, s, upper) /\ eb.parent = b.parent /\ eb.next = b.next
  /\ SameEntries(a, b, ea, eb)

\* The keys of a leaf, as numbers.
LEMMA WithinFacts ==
  ASSUME NEW e, NEW lower \in Nat, NEW upper \in Nat, Within(e, lower, upper),
         NEW n, n = Len(e.keys)
  PROVE  /\ n \in Nat /\ e.keys \in Seq(Key)
         /\ \A j \in 1 .. n : /\ e.keys[j] \in Key /\ e.keys[j] \in Nat
                              /\ lower <= e.keys[j] /\ Below(e.keys[j], upper)
         /\ \A i, j \in 1 .. n : i < j => e.keys[i] < e.keys[j]
<1>1. e.keys \in Seq(Key)
  BY DEF Within, LeafNodes
<1>2. \A j \in 1 .. n : e.keys[j] \in Key
  BY <1>1, ElementOfSeq
<1>3. n \in Nat
  BY <1>1
<1>4. \A j \in 1 .. n : e.keys[j] \in Nat
  BY <1>2, TreeFacts
<1>5. /\ \A j \in 1 .. n : lower <= e.keys[j] /\ Below(e.keys[j], upper)
      /\ \A i, j \in 1 .. n : i < j => e.keys[i] < e.keys[j]
  BY DEF Within, Sorted
<1> QED BY <1>1, <1>2, <1>3, <1>4, <1>5

\* The two leaves after borrow_from_left divide their range at the key moved.
LEMMA LastMovedKeeps ==
  ASSUME NEW lower \in Nat, NEW m \in Nat, NEW upper \in Nat, m # 0, Below(m, upper),
         NEW a, Within(a, lower, m), NEW b, Within(b, m, upper), Len(a.keys) >= 2,
         NEW ea, NEW eb, LastMoved(a, b, ea, eb)
  PROVE  Rearranged(a, b, ea, eb, a.keys[Len(a.keys)], lower, upper)
<1>1. PICK n, c, s : n = Len(a.keys) /\ c = Len(b.keys) /\ s = a.keys[n]
  OBVIOUS
<1>2. /\ n \in Nat /\ 2 <= n
      /\ \A j \in 1 .. n : /\ a.keys[j] \in Key /\ a.keys[j] \in Nat
                           /\ lower <= a.keys[j] /\ Below(a.keys[j], m)
      /\ \A i, j \in 1 .. n : i < j => a.keys[i] < a.keys[j]
  BY <1>1, WithinFacts
<1>3. /\ c \in Nat
      /\ \A j \in 1 .. c : /\ b.keys[j] \in Key /\ b.keys[j] \in Nat
                           /\ m <= b.keys[j] /\ Below(b.keys[j], upper)
      /\ \A i, j \in 1 .. c : i < j => b.keys[i] < b.keys[j]
  BY <1>1, WithinFacts
<1>4. /\ ea \in LeafNodes /\ ea.parent = a.parent /\ ea.next = a.next
      /\ eb \in LeafNodes /\ eb.parent = b.parent /\ eb.next = b.next
      /\ Len(ea.keys) = n - 1 /\ Len(ea.values) = Len(ea.keys)
      /\ Len(eb.keys) = c + 1 /\ Len(eb.values) = Len(eb.keys)
  BY <1>1 DEF LastMoved
<1>5. /\ \A j \in 1 .. n - 1 : ea.keys[j] = a.keys[j] /\ ea.values[j] = a.values[j]
      /\ eb.keys[1] = s /\ eb.values[1] = a.values[n]
      /\ \A j \in 1 .. c : eb.keys[1 + j] = b.keys[j] /\ eb.values[1 + j] = b.values[j]
  BY <1>1 DEF LastMoved
<1>6. s \in Key /\ s \in Nat /\ lower < s /\ s < m
  <2>1. n \in 1 .. n /\ 1 \in 1 .. n /\ 1 < n
    BY <1>2
  <2>2. s \in Key /\ s \in Nat /\ Below(s, m) /\ lower <= a.keys[1] /\ a.keys[1] < s /\ a.keys[1] \in Nat
    BY <1>1, <1>2, <2>1
  <2> QED BY <2>2 DEF Below
<1>7. s # 0 /\ Below(s, upper)
  BY <1>6 DEF Below
<1>8. Within(ea, lower, s)
  <2>1. \A j \in 1 .. n - 1 : lower <= ea.keys[j] /\ ea.keys[j] < s
    <3> SUFFICES ASSUME NEW j \in 1 .. n - 1 PROVE lower <= ea.keys[j] /\ ea.keys[j] < s
      OBVIOUS
    <3>1. j \in 1 .. n /\ n \in 1 .. n /\ j < n
      BY <1>2
    <3> QED BY <1>1, <1>2, <1>5, <3>1
  <2>2. \A i, j \in 1 .. n - 1 : i < j => ea.keys[i] < ea.keys[j]
    <3>1. \A j \in 1 .. n - 1 : j \in 1 .. n
      BY <1>2
    <3> QED BY <1>2, <1>5, <3>1
  <2> QED BY <1>4, <2>1, <2>2 DEF Within, Sorted, Below
<1>9. \A j \in 1 .. c + 1 : j = 1 \/ (j - 1 \in 1 .. c /\ 1 + (j - 1) = j)
  BY <1>3
<1>10. \A j \in 1 .. c + 1 : eb.keys[j] = IF j = 1 THEN s ELSE b.keys[j - 1]
  BY <1>5, <1>9
<1>11. Within(eb, s, upper)
  <2>1. \A j \in 1 .. c + 1 : s <= eb.keys[j] /\ Below(eb.keys[j], upper)
    <3> SUFFICES ASSUME NEW j \in 1 .. c + 1 PROVE s <= eb.keys[j] /\ Below(eb.keys[j], upper)
      OBVIOUS
    <3>1. CASE j = 1
      BY <1>6, <1>7, <1>10, <3>1
    <3>2. CASE j # 1
      BY <1>3, <1>6, <1>9, <1>10, <3>2
    <3> QED BY <3>1, <3>2
  <2>2. ASSUME NEW i \in 1 .. c + 1, NEW j \in 1 .. c + 1, i < j PROVE eb.keys[i] < eb.keys[j]
    <3>1. j - 1 \in 1 .. c /\ j # 1 /\ eb.keys[j] = b.keys[j - 1]
      BY <1>3, <1>10, <2>2
    <3>2. CASE i = 1
      BY <1>3, <1>6, <1>10, <3>1, <3>2
    <3>3. CASE i # 1
      <4>1. i - 1 \in 1 .. c /\ i - 1 < j - 1
        BY <1>3, <2>2, <3>3
      <4> QED BY <1>3, <1>10, <3>1, <3>3, <4>1
    <3> QED BY <3>2, <3>3
  <2> QED BY <1>4, <2>1, <2>2 DEF Within, Sorted
<1>12. SameEntries(a, b, ea, eb)
  <2> SUFFICES ASSUME NEW k, NEW v
               PROVE  Entry(ea, k, v) \/ Entry(eb, k, v) <=> Entry(a, k, v) \/ Entry(b, k, v)
    BY DEF SameEntries
  <2>1. ASSUME Entry(ea, k, v) PROVE Entry(a, k, v)
    <3>1. PICK j \in 1 .. n - 1 : ea.keys[j] = k /\ ea.values[j] = v
      BY <1>4, <2>1 DEF Entry
    <3>2. j \in 1 .. n
      BY <1>2
    <3> QED BY <1>1, <1>5, <3>1, <3>2 DEF Entry
  <2>2. ASSUME Entry(eb, k, v) PROVE Entry(a, k, v) \/ Entry(b, k, v)
    <3>1. PICK j \in 1 .. c + 1 : eb.keys[j] = k /\ eb.values[j] = v
      BY <1>4, <2>2 DEF Entry
    <3>2. CASE j = 1
      <4>1. n \in 1 .. n
        BY <1>2
      <4> QED BY <1>1, <1>5, <3>1, <3>2, <4>1 DEF Entry
    <3>3. CASE j # 1
      <4>1. j - 1 \in 1 .. c /\ 1 + (j - 1) = j
        BY <1>9, <3>3
      <4> QED BY <1>1, <1>5, <3>1, <4>1 DEF Entry
    <3> QED BY <3>2, <3>3
  <2>3. ASSUME Entry(a, k, v) PROVE Entry(ea, k, v) \/ Entry(eb, k, v)
    <3>1. PICK j \in 1 .. n : a.keys[j] = k /\ a.values[j] = v
      BY <1>1, <2>3 DEF Entry
    <3>2. CASE j = n
      <4>1. 1 \in 1 .. c + 1
        BY <1>3
      <4> QED BY <1>1, <1>4, <1>5, <3>1, <3>2, <4>1 DEF Entry
    <3>3. CASE j # n
      <4>1. j \in 1 .. n - 1
        BY <1>2, <3>3
      <4> QED BY <1>4, <1>5, <3>1, <4>1 DEF Entry
    <3> QED BY <3>2, <3>3
  <2>4. ASSUME Entry(b, k, v) PROVE Entry(eb, k, v)
    <3>1. PICK j \in 1 .. c : b.keys[j] = k /\ b.values[j] = v
      BY <1>1, <2>4 DEF Entry
    <3>2. 1 + j \in 1 .. c + 1
      BY <1>3
    <3> QED BY <1>4, <1>5, <3>1, <3>2 DEF Entry
  <2> QED BY <2>1, <2>2, <2>3, <2>4
<1> QED BY <1>1, <1>4, <1>6, <1>7, <1>8, <1>11, <1>12 DEF Rearranged

\* The two leaves after borrow_from_right divide their range at the new first key.
LEMMA FirstMovedKeeps ==
  ASSUME NEW lower \in Nat, NEW m \in Nat, NEW upper \in Nat, m # 0, Below(m, upper), lower < m,
         NEW a, Within(a, lower, m), NEW b, Within(b, m, upper), Len(b.keys) >= 2,
         NEW ea, NEW eb, FirstMoved(a, b, ea, eb)
  PROVE  Rearranged(a, b, ea, eb, b.keys[2], lower, upper)
<1>1. PICK n, c, s : n = Len(a.keys) /\ c = Len(b.keys) /\ s = b.keys[2]
  OBVIOUS
<1>2. /\ n \in Nat
      /\ \A j \in 1 .. n : /\ a.keys[j] \in Key /\ a.keys[j] \in Nat
                           /\ lower <= a.keys[j] /\ Below(a.keys[j], m)
      /\ \A i, j \in 1 .. n : i < j => a.keys[i] < a.keys[j]
  BY <1>1, WithinFacts
<1>3. /\ c \in Nat /\ 2 <= c
      /\ \A j \in 1 .. c : /\ b.keys[j] \in Key /\ b.keys[j] \in Nat
                           /\ m <= b.keys[j] /\ Below(b.keys[j], upper)
      /\ \A i, j \in 1 .. c : i < j => b.keys[i] < b.keys[j]
  BY <1>1, WithinFacts
<1>4. /\ ea \in LeafNodes /\ ea.parent = a.parent /\ ea.next = a.next
      /\ eb \in LeafNodes /\ eb.parent = b.parent /\ eb.next = b.next
      /\ Len(ea.keys) = n + 1 /\ Len(ea.values) = Len(ea.keys)
      /\ Len(eb.keys) = c - 1 /\ Len(eb.values) = Len(eb.keys)
  BY <1>1 DEF FirstMoved
<1>5. /\ \A j \in 1 .. n : ea.keys[j] = a.keys[j] /\ ea.values[j] = a.values[j]
      /\ ea.keys[n + 1] = b.keys[1] /\ ea.values[n + 1] = b.values[1]
      /\ \A j \in 1 .. c - 1 : eb.keys[j] = b.keys[j + 1] /\ eb.values[j] = b.values[j + 1]
  BY <1>1 DEF FirstMoved
<1>6. /\ s \in Key /\ s \in Nat /\ Below(s, upper) /\ m < s
      /\ b.keys[1] \in Nat /\ m <= b.keys[1] /\ b.keys[1] < s
  <2>1. 2 \in 1 .. c /\ 1 \in 1 .. c /\ 1 < 2
    BY <1>3
  <2>2. /\ s \in Key /\ s \in Nat /\ Below(s, upper) /\ m <= b.keys[1] /\ b.keys[1] < s /\ b.keys[1] \in Nat
    BY <1>1, <1>3, <2>1
  <2> QED BY <2>2
<1>7. s # 0 /\ lower < s
  BY <1>6
<1>8. \A j \in 1 .. n + 1 : j = n + 1 \/ j \in 1 .. n
  BY <1>2
<1>9. \A j \in 1 .. n : j # n + 1
  BY <1>2
<1>10. \A j \in 1 .. n + 1 : ea.keys[j] = IF j = n + 1 THEN b.keys[1] ELSE a.keys[j]
  BY <1>5, <1>8
<1>11. Within(ea, lower, s)
  <2>1. \A j \in 1 .. n : a.keys[j] < m
    BY <1>2 DEF Below
  <2>2. ASSUME NEW j \in 1 .. n + 1 PROVE lower <= ea.keys[j] /\ ea.keys[j] < s
    <3>1. CASE j = n + 1
      BY <1>6, <1>10, <3>1
    <3>2. CASE j # n + 1
      <4>1. j \in 1 .. n /\ ea.keys[j] = a.keys[j]
        BY <1>8, <1>10, <3>2
      <4>2. a.keys[j] \in Nat /\ lower <= a.keys[j] /\ a.keys[j] < m
        BY <1>2, <2>1, <4>1
      <4> QED BY <1>6, <4>1, <4>2
    <3> QED BY <3>1, <3>2
  <2>3. ASSUME NEW i \in 1 .. n + 1, NEW j \in 1 .. n + 1, i < j PROVE ea.keys[i] < ea.keys[j]
    <3>1. i \in 1 .. n /\ i # n + 1 /\ ea.keys[i] = a.keys[i]
      BY <1>2, <1>10, <2>3
    <3>2. CASE j = n + 1
      BY <1>2, <1>6, <1>10, <2>1, <3>1, <3>2, SMTT(30)
    <3>3. CASE j # n + 1
      <4>1. j \in 1 .. n /\ ea.keys[j] = a.keys[j]
        BY <1>8, <1>10, <3>3
      <4> QED BY <1>2, <2>3, <3>1, <4>1
    <3> QED BY <3>2, <3>3
  <2> QED BY <1>4, <2>2, <2>3 DEF Within, Sorted, Below
<1>12. \A j \in 1 .. c - 1 : j \in 1 .. c /\ j + 1 \in 1 .. c
  BY <1>3
<1>13. Within(eb, s, upper)
  <2>1. ASSUME NEW j \in 1 .. c - 1 PROVE s <= eb.keys[j] /\ Below(eb.keys[j], upper)
    <3>1. j + 1 = 2 \/ 2 < j + 1
      BY <1>3
    <3>2. j + 1 \in 1 .. c /\ 2 \in 1 .. c
      BY <1>3
    <3>3. b.keys[j + 1] \in Nat /\ Below(b.keys[j + 1], upper) /\ (2 < j + 1 => b.keys[2] < b.keys[j + 1])
      BY <1>3, <3>2
    <3> QED BY <1>1, <1>5, <1>6, <3>1, <3>3
  <2>2. ASSUME NEW i \in 1 .. c - 1, NEW j \in 1 .. c - 1, i < j PROVE eb.keys[i] < eb.keys[j]
    <3>1. i + 1 < j + 1 /\ i + 1 \in 1 .. c /\ j + 1 \in 1 .. c
      BY <1>3, <2>2
    <3> QED BY <1>3, <1>5, <3>1
  <2> QED BY <1>4, <2>1, <2>2 DEF Within, Sorted
<1>14. SameEntries(a, b, ea, eb)
  <2> SUFFICES ASSUME NEW k, NEW v
               PROVE  Entry(ea, k, v) \/ Entry(eb, k, v) <=> Entry(a, k, v) \/ Entry(b, k, v)
    BY DEF SameEntries
  <2>1. ASSUME Entry(ea, k, v) PROVE Entry(a, k, v) \/ Entry(b, k, v)
    <3>1. PICK j \in 1 .. n + 1 : ea.keys[j] = k /\ ea.values[j] = v
      BY <1>4, <2>1 DEF Entry
    <3>2. CASE j = n + 1
      <4>1. 1 \in 1 .. c
        BY <1>3
      <4> QED BY <1>1, <1>5, <3>1, <3>2, <4>1 DEF Entry
    <3>3. CASE j # n + 1
      <4>1. j \in 1 .. n
        BY <1>8, <3>3
      <4> QED BY <1>1, <1>5, <3>1, <4>1 DEF Entry
    <3> QED BY <3>2, <3>3
  <2>2. ASSUME Entry(eb, k, v) PROVE Entry(b, k, v)
    <3>1. PICK j \in 1 .. c - 1 : eb.keys[j] = k /\ eb.values[j] = v
      BY <1>4, <2>2 DEF Entry
    <3> QED BY <1>1, <1>5, <1>12, <3>1 DEF Entry
  <2>3. ASSUME Entry(a, k, v) PROVE Entry(ea, k, v)
    <3>1. PICK j \in 1 .. n : a.keys[j] = k /\ a.values[j] = v
      BY <1>1, <2>3 DEF Entry
    <3>2. j \in 1 .. n + 1
      BY <1>2
    <3> QED BY <1>4, <1>5, <3>1, <3>2 DEF Entry
  <2>4. ASSUME Entry(b, k, v) PROVE Entry(ea, k, v) \/ Entry(eb, k, v)
    <3>1. PICK j \in 1 .. c : b.keys[j] = k /\ b.values[j] = v
      BY <1>1, <2>4 DEF Entry
    <3>2. CASE j = 1
      <4>1. n + 1 \in 1 .. n + 1
        BY <1>2
      <4> QED BY <1>4, <1>5, <3>1, <3>2, <4>1 DEF Entry
    <3>3. CASE j # 1
      <4>1. j - 1 \in 1 .. c - 1 /\ (j - 1) + 1 = j
        BY <1>3, <3>3
      <4> QED BY <1>4, <1>5, <3>1, <4>1, SMTT(30) DEF Entry
    <3> QED BY <3>2, <3>3
  <2> QED BY <2>1, <2>2, <2>3, <2>4
<1> QED BY <1>1, <1>4, <1>6, <1>7, <1>11, <1>13, <1>14 DEF Rearranged

-----------------------------------------------------------------------------
(* borrow_from_left and borrow_from_right *)

\* The place of the leaf that runs short among its siblings.
LEMMA UnderflowFacts ==
  ASSUME NEW h, NEW lo, NEW hi, Live(h, lo, hi), call.at = "underflow"
  PROVE  /\ Tree(node, root, h, lo, hi, Null, 0, Null) /\ Typed(node) /\ Null \notin DOMAIN node
         /\ Full(node, Null) /\ Filled(node, root, call.leaf) /\ Held(node, lo, hi, stored)
         /\ Scanning = {} /\ call.leaf # root
         /\ Parent \in DOMAIN node /\ node[Parent] \in InnerNodes /\ h[Parent] = 1
         /\ Len(node[Parent].keys) \in Nat /\ Len(Siblings) = Len(node[Parent].keys) + 1
         /\ Pos \in 1 .. Len(node[Parent].keys) + 1 /\ node[Parent].children[Pos] = call.leaf
         /\ call.leaf \in DOMAIN node /\ node[call.leaf] \in LeafNodes
<1>1. Tree(node, root, h, lo, hi, Null, 0, Null)
  BY QuietTree
<1>2. Typed(node) /\ Null \notin DOMAIN node
  BY <1>1, NodeFacts DEF Tree
<1>3. /\ Full(node, Null) /\ Filled(node, root, call.leaf) /\ Held(node, lo, hi, stored)
      /\ Scanning = {} /\ call.leaf # root
  BY DEF Live, Sound, Over, Short, TreeLocked, CallFits
<1>4. /\ Parent \in DOMAIN node /\ node[Parent] \in InnerNodes /\ h[Parent] = 1
      /\ call.leaf \in DOMAIN node /\ node[call.leaf] \in LeafNodes
      /\ \E i \in 1 .. Len(Siblings) : Siblings[i] = call.leaf
  BY ShortHasParent
<1>5. /\ Len(node[Parent].keys) \in Nat /\ Siblings \in Seq(Nodes)
      /\ Len(Siblings) = Len(node[Parent].keys) + 1
  BY <1>2, <1>4, NodeFacts, InnerFacts DEF Siblings
<1>6. Pos # 0
  BY <1>4, <1>5, FindFacts DEF Pos
<1>7. Pos \in 1 .. Len(Siblings) /\ Siblings[Pos] = call.leaf
  BY <1>5, <1>6, FindFacts DEF Pos
<1> QED BY <1>1, <1>2, <1>3, <1>4, <1>5, <1>7 DEF Siblings

\* The entries of two neighbours, and their bounds.
LEMMA NeighboursBound ==
  ASSUME NEW nd, NEW r, NEW h, NEW lo, NEW hi, Tree(nd, r, h, lo, hi, Null, 0, Null),
         NEW p, NEW i, NEW a, NEW b, Neighbours(nd, h, lo, hi, p, i, a, b)
  PROVE  /\ a \in DOMAIN nd /\ b \in DOMAIN nd /\ p \in DOMAIN nd /\ a # b /\ a # p /\ b # p
         /\ nd[a] \in LeafNodes /\ nd[b] \in LeafNodes /\ nd[p] \in InnerNodes
         /\ nd[a].parent = p /\ nd[b].parent = p /\ nd[a].next = b
         /\ lo[a] \in Nat /\ lo[b] \in Nat /\ hi[b] \in Nat /\ hi[a] = lo[b] /\ lo[b] # 0
         /\ lo[a] < lo[b] /\ Below(lo[b], hi[b])
         /\ Within(nd[a], lo[a], lo[b]) /\ Within(nd[b], lo[b], hi[b])
         /\ a # r /\ b # r
<1>1. /\ a \in DOMAIN nd /\ b \in DOMAIN nd /\ p \in DOMAIN nd /\ a # b /\ a # p /\ b # p
      /\ nd[a] \in LeafNodes /\ nd[b] \in LeafNodes /\ nd[p] \in InnerNodes
      /\ nd[a].parent = p /\ nd[b].parent = p /\ nd[a].next = b
      /\ hi[a] = lo[b] /\ hi[a] # 0
  BY DEF Neighbours
<1>2. /\ lo \in [DOMAIN nd -> Nat] /\ hi \in [DOMAIN nd -> Nat]
      /\ Below(lo[a], hi[a]) /\ Below(lo[b], hi[b])
      /\ Keyed(nd, lo, hi) /\ Typed(nd) /\ nd[r].parent = Null
  BY <1>1 DEF Tree, Bounds, Levels
<1>3. Within(nd[a], lo[a], hi[a]) /\ Within(nd[b], lo[b], hi[b])
  BY <1>1, <1>2, LeafFacts DEF Within, Keyed
<1>4. p # Null
  BY <1>1, <1>2, NodeFacts
<1> QED BY <1>1, <1>2, <1>3, <1>4 DEF Below

\* A step that moves an entry between a and b.
Borrowing(a, b, ea, eb, s, e) ==
  /\ Len(ea.keys) >= MinKeys /\ Len(ea.keys) <= MaxKeys
  /\ Len(eb.keys) >= MinKeys /\ Len(eb.keys) <= MaxKeys
  /\ node' = [node EXCEPT ![a] = ea, ![b] = eb, ![Parent] = e]
  /\ call' = Idle /\ root' = root /\ scan' = scan /\ stored' = stored

\* What the two borrows have in common.
LEMMA ShiftKeeps ==
  ASSUME NEW h, NEW lo, NEW hi, Live(h, lo, hi), Kept(stored), scan \in [Scanner -> ScanRecords],
         call.at = "underflow",
         NEW i, NEW a, NEW b, Neighbours(node, h, lo, hi, Parent, i, a, b), call.leaf \in {a, b},
         NEW s, NEW ea, NEW eb, Rearranged(node[a], node[b], ea, eb, s, lo[a], hi[b]),
         NEW e, e = [node[Parent] EXCEPT !.keys[i] = s], Borrowing(a, b, ea, eb, s, e)
  PROVE  IndexInv'
<1>1. PICK p : p = Parent
  OBVIOUS
<1>0. /\ Len(ea.keys) >= MinKeys /\ Len(ea.keys) <= MaxKeys
      /\ Len(eb.keys) >= MinKeys /\ Len(eb.keys) <= MaxKeys
      /\ node' = [node EXCEPT ![a] = ea, ![b] = eb, ![p] = e]
      /\ call' = Idle /\ root' = root /\ scan' = scan /\ stored' = stored
  BY <1>1 DEF Borrowing
<1>2. /\ Tree(node, root, h, lo, hi, Null, 0, Null) /\ Typed(node) /\ Null \notin DOMAIN node
      /\ Full(node, Null) /\ Filled(node, root, call.leaf) /\ Held(node, lo, hi, stored)
      /\ Scanning = {} /\ call.leaf # root
  BY UnderflowFacts
<1>3. Neighbours(node, h, lo, hi, p, i, a, b)
  BY <1>1
<1>4. /\ a \in DOMAIN node /\ b \in DOMAIN node /\ p \in DOMAIN node /\ a # b /\ a # p /\ b # p
      /\ node[a] \in LeafNodes /\ node[b] \in LeafNodes /\ node[p] \in InnerNodes
      /\ node[a].parent = p /\ node[b].parent = p /\ node[a].next = b
      /\ lo[a] \in Nat /\ lo[b] \in Nat /\ hi[b] \in Nat /\ hi[a] = lo[b] /\ lo[b] # 0
      /\ Below(lo[b], hi[b])
  BY <1>2, <1>3, NeighboursBound
<1>5. /\ s \in Key /\ s \in Nat /\ s # 0 /\ lo[a] < s /\ Below(s, hi[b])
      /\ Within(ea, lo[a], s) /\ ea.parent = p /\ ea.next = b
      /\ Within(eb, s, hi[b]) /\ eb.parent = p /\ eb.next = node[b].next
      /\ SameEntries(node[a], node[b], ea, eb)
  BY <1>4 DEF Rearranged
<1>6. PICK q, q2 : q = node[p].keys /\ q2 = [q EXCEPT ![i] = s]
  OBVIOUS
<1>7. q \in Seq(Key) /\ i \in 1 .. Len(q) /\ Len(q) \in Nat
  BY <1>2, <1>3, <1>4, <1>6, NodeFacts DEF Neighbours
<1>8. q2 \in Seq(Key) /\ Len(q2) = Len(q) /\ \A j \in 1 .. Len(q) : q2[j] = IF j = i THEN s ELSE q[j]
  BY <1>5, <1>6, <1>7
<1>9. e = [node[p] EXCEPT !.keys = q2]
  BY <1>1, <1>4, <1>6 DEF InnerNodes
<1>10. /\ e \in InnerNodes /\ e.children = node[p].children /\ e.parent = node[p].parent /\ e.keys = q2
  BY <1>4, <1>8, <1>9 DEF InnerNodes
<1>11. /\ Len(e.keys) = Len(node[p].keys)
       /\ \A j \in 1 .. Len(node[p].keys) : e.keys[j] = IF j = i THEN s ELSE node[p].keys[j]
  BY <1>6, <1>8, <1>10
<1>12. /\ DOMAIN node' = DOMAIN node /\ node'[a] = ea /\ node'[b] = eb /\ node'[p] = e
       /\ \A m \in DOMAIN node : m # a /\ m # b /\ m # p => node'[m] = node[m]
  BY <1>0, <1>4
<1>13. PICK lo2, hi2 : lo2 = [lo EXCEPT ![b] = s] /\ hi2 = [hi EXCEPT ![a] = s]
  OBVIOUS
<1>14. Tree(node', root, h, lo2, hi2, Null, 0, Null)
  <2>1. ShiftedTo(node, node', lo, hi, p, i, a, b, s, ea, eb, e)
    BY <1>5, <1>10, <1>11, <1>12 DEF ShiftedTo
  <2>2. /\ Tree(node, root, h, lo, hi, Null, 0, Null)
        /\ lo2 = [lo EXCEPT ![b] = s] /\ hi2 = [hi EXCEPT ![a] = s]
    BY <1>2, <1>13
  <2> QED BY ONLY <1>3, <2>1, <2>2, Shifted
<1>15. e \notin LeafNodes
  BY <1>10 DEF LeafNodes, InnerNodes
<1>16. Held(node', lo2, hi2, stored)
  <2>1. lo \in [DOMAIN node -> Nat] /\ hi \in [DOMAIN node -> Nat]
    BY <1>2 DEF Tree, Bounds
  <2>2. /\ lo2 \in [DOMAIN node -> Nat] /\ hi2 \in [DOMAIN node -> Nat]
        /\ \A m \in DOMAIN node : /\ lo2[m] = IF m = b THEN s ELSE lo[m]
                                  /\ hi2[m] = IF m = a THEN s ELSE hi[m]
    BY <1>5, <1>13, <2>1
  <2>3. ShiftHolds(node, node', a, b, s, lo, hi, lo2, hi2)
    BY <1>4, <1>5, <1>12, <2>2 DEF ShiftHolds
  <2>4. \A m \in DOMAIN node : m # a /\ m # b /\ node'[m] \in LeafNodes => node'[m] = node[m]
    BY <1>12, <1>15
  <2>5. DOMAIN stored \subseteq Nat
    BY TreeFacts DEF Kept
  <2>6. DOMAIN node' = DOMAIN node /\ Held(node, lo, hi, stored)
    BY <1>2, <1>12
  <2> QED BY ONLY <1>4, <2>3, <2>4, <2>5, <2>6, ShiftedHeld
<1>17. \A m \in DOMAIN node : Len(node[m].keys) <= MaxKeys
  BY <1>2 DEF Full
<1>18. Full(node', Null)
  BY <1>0, <1>2, <1>4, <1>11, <1>12, <1>17 DEF Full
<1>19. Filled(node', root, Null)
  <2> SUFFICES ASSUME NEW n \in DOMAIN node, node'[n] \in LeafNodes, n # root PROVE Len(node'[n].keys) >= MinKeys
    BY <1>2, <1>12 DEF Filled
  <2>1. CASE n = a \/ n = b
    BY <1>0, <1>12, <2>1
  <2>2. CASE n # a /\ n # b
    <3>1. n # p /\ node'[n] = node[n] /\ n # call.leaf
      BY <1>12, <1>15, <2>2
    <3> QED BY <1>2, <3>1 DEF Filled
  <2> QED BY <2>1, <2>2
<1>20. /\ Left(call') = Null /\ Middle(call') = 0 /\ Right(call') = Null /\ Over(call') = Null
       /\ Short(call') = Null /\ CallFits(node', root, lo2, hi2, call')
  BY <1>0 DEF Left, Middle, Right, Over, Short, CallFits, Idle
<1>21. Scanned(node', lo2, scan', stored') /\ Scanning' = {}
  BY <1>0, <1>2, NoScanner
<1>22. Kept(stored') /\ scan' \in [Scanner -> ScanRecords]
  BY <1>0
<1> QED BY <1>0, <1>14, <1>16, <1>18, <1>19, <1>20, <1>21, <1>22, LiveAgain

\* The sizes of a leaf that runs short and of one that can lend.
LEMMA LendingSizes ==
  ASSUME NEW h, NEW lo, NEW hi, Live(h, lo, hi), call.at = "underflow",
         NEW x \in DOMAIN node, x # root
  PROVE  /\ MinKeys \in Nat /\ MaxKeys \in Nat /\ 1 <= MinKeys /\ 2 * MinKeys <= MaxKeys
         /\ Len(node[x].keys) \in Nat /\ Len(node[x].keys) <= MaxKeys
         /\ Len(node[call.leaf].keys) + 1 = MinKeys /\ Len(node[call.leaf].keys) \in Nat
         /\ x # call.leaf /\ node[x] \in LeafNodes => Len(node[x].keys) >= MinKeys
<1>1. /\ Typed(node) /\ Null \notin DOMAIN node /\ Full(node, Null) /\ Filled(node, root, call.leaf)
      /\ call.leaf # root /\ call.leaf \in DOMAIN node /\ node[call.leaf] \in LeafNodes
  BY UnderflowFacts
<1>2. Len(node[x].keys) \in Nat /\ Len(node[call.leaf].keys) \in Nat
  BY <1>1, NodeFacts
<1>3. MinKeys \in Nat /\ MaxKeys \in Nat /\ 1 <= MinKeys /\ 2 * MinKeys <= MaxKeys
  BY TreeFacts
<1> QED BY <1>1, <1>2, <1>3 DEF Full, Filled

\* borrow_from_left.
LEMMA BorrowFromLeftKeeps ==
  ASSUME NEW h, NEW lo, NEW hi, Live(h, lo, hi), Kept(stored), scan \in [Scanner -> ScanRecords],
         borrow_from_left
  PROVE  IndexInv'
<1>1. PICK p, i, a, b : p = Parent /\ i = Pos - 1 /\ a = Siblings[Pos - 1] /\ b = call.leaf
  OBVIOUS
<1>2. /\ call.at = "underflow" /\ Pos > 1 /\ Len(node[a].keys) > MinKeys
      /\ call' = Idle /\ root' = root /\ scan' = scan /\ stored' = stored
      /\ node' = [node EXCEPT ![a].keys = Front(@), ![a].values = Front(@),
                          ![b].keys = <<Last(node[a].keys)>> \o @,
                          ![b].values = <<Last(node[a].values)>> \o @,
                          ![p].keys[i] = Last(node[a].keys)]
  BY <1>1 DEF borrow_from_left, LeftCanLend
<1>3. /\ Tree(node, root, h, lo, hi, Null, 0, Null) /\ Typed(node)
      /\ p \in DOMAIN node /\ node[p] \in InnerNodes /\ h[p] = 1
      /\ Len(node[p].keys) \in Nat /\ Pos \in 1 .. Len(node[p].keys) + 1 /\ node[p].children[Pos] = b
  BY <1>1, <1>2, UnderflowFacts
<1>4. i \in 1 .. Len(node[p].keys) /\ i + 1 = Pos
  <2>1. PICK j, n : j = Pos /\ n = Len(node[p].keys)
    OBVIOUS
  <2>2. j > 1 /\ n \in Nat /\ j \in 1 .. n + 1 /\ i = j - 1
    BY <1>1, <1>2, <1>3, <2>1
  <2>3. i \in 1 .. n /\ i + 1 = j
    BY ONLY <2>2
  <2> QED BY <2>1, <2>3
<1>5. a = node[p].children[i] /\ b = node[p].children[i + 1]
  BY <1>1, <1>3, <1>4 DEF Siblings
<1>6. Neighbours(node, h, lo, hi, p, i, a, b)
  BY <1>3, <1>4, <1>5, NeighboursFound
<1>7. /\ a \in DOMAIN node /\ b \in DOMAIN node /\ a # b /\ a # p /\ b # p
      /\ node[a] \in LeafNodes /\ node[b] \in LeafNodes
      /\ lo[a] \in Nat /\ lo[b] \in Nat /\ hi[b] \in Nat /\ lo[b] # 0 /\ Below(lo[b], hi[b])
      /\ Within(node[a], lo[a], lo[b]) /\ Within(node[b], lo[b], hi[b]) /\ a # root
  BY <1>3, <1>6, NeighboursBound
<1>8. /\ MinKeys \in Nat /\ MaxKeys \in Nat /\ 1 <= MinKeys /\ 2 * MinKeys <= MaxKeys
      /\ Len(node[a].keys) \in Nat /\ Len(node[a].keys) <= MaxKeys
      /\ Len(node[b].keys) + 1 = MinKeys /\ Len(node[b].keys) \in Nat
  BY <1>1, <1>2, <1>7, LendingSizes
<1>19. Len(node[a].keys) > MinKeys /\ Len(node[a].keys) >= 1 /\ Len(node[a].keys) >= 2
  <2>1. PICK x : x = Len(node[a].keys)
    OBVIOUS
  <2>2. x > MinKeys
    BY <1>2, <2>1
  <2>3. x \in Nat /\ MinKeys \in Nat /\ 1 <= MinKeys
    BY <1>8, <2>1
  <2>4. x >= 1 /\ x >= 2
    BY ONLY <2>2, <2>3
  <2> QED BY <2>1, <2>2, <2>4
<1>9. Len(node[a].values) = Len(node[a].keys) /\ Len(node[b].values) = Len(node[b].keys)
  BY <1>3, <1>7, LeafFacts
<1>10. PICK ea, eb, s : /\ ea = [node[a] EXCEPT !.keys = Front(node[a].keys), !.values = Front(node[a].values)]
                       /\ eb = [node[b] EXCEPT !.keys = <<Last(node[a].keys)>> \o node[b].keys,
                                               !.values = <<Last(node[a].values)>> \o node[b].values]
                       /\ s = Last(node[a].keys)
  OBVIOUS
<1>11. LastMoved(node[a], node[b], ea, eb)
  <2>1. Len(node[a].keys) >= 1
    BY <1>19
  <2> QED BY <1>7, <1>9, <1>10, <2>1, LastMovedFacts
<1>12. Rearranged(node[a], node[b], ea, eb, s, lo[a], hi[b])
  <2>1. Len(node[a].keys) >= 2
    BY <1>19
  <2>2. s = node[a].keys[Len(node[a].keys)]
    BY <1>10 DEF Last
  <2> QED BY <1>7, <1>11, <2>1, <2>2, LastMovedKeeps
<1>13. /\ Len(ea.keys) >= MinKeys /\ Len(ea.keys) <= MaxKeys
       /\ Len(eb.keys) >= MinKeys /\ Len(eb.keys) <= MaxKeys
  <2>1. Len(ea.keys) = Len(node[a].keys) - 1 /\ Len(eb.keys) = Len(node[b].keys) + 1
    BY <1>11 DEF LastMoved
  <2>2. PICK x, y : x = Len(node[a].keys) /\ y = Len(node[b].keys)
    OBVIOUS
  <2>3. /\ x \in Nat /\ y \in Nat /\ y + 1 = MinKeys /\ x > MinKeys /\ x <= MaxKeys
        /\ MinKeys \in Nat /\ MaxKeys \in Nat /\ 2 * MinKeys <= MaxKeys
    BY <1>8, <1>19, <2>2
  <2>4. y + 1 >= MinKeys /\ y + 1 <= MaxKeys /\ x - 1 >= MinKeys /\ x - 1 <= MaxKeys
    BY ONLY <2>3
  <2> QED BY <2>1, <2>2, <2>4
<1>14. PICK e : e = [node[p] EXCEPT !.keys[i] = s]
  OBVIOUS
<1>15. node' = [node EXCEPT ![a] = ea, ![b] = eb, ![p] = e]
  BY <1>2, <1>3, <1>7, <1>10, <1>14 DEF LeafNodes, InnerNodes
<1>16. Borrowing(a, b, ea, eb, s, e)
  BY <1>1, <1>2, <1>13, <1>15 DEF Borrowing
<1>17. Neighbours(node, h, lo, hi, Parent, i, a, b) /\ call.leaf \in {a, b}
  BY <1>1, <1>6
<1>18. e = [node[Parent] EXCEPT !.keys[i] = s]
  BY <1>1, <1>14
<1> QED BY <1>2, <1>12, <1>16, <1>17, <1>18, ShiftKeeps

\* borrow_from_right.
LEMMA BorrowFromRightKeeps ==
  ASSUME NEW h, NEW lo, NEW hi, Live(h, lo, hi), Kept(stored), scan \in [Scanner -> ScanRecords],
         borrow_from_right
  PROVE  IndexInv'
<1>1. PICK p, i, a, b : p = Parent /\ i = Pos /\ a = call.leaf /\ b = Siblings[Pos + 1]
  OBVIOUS
<1>2. /\ call.at = "underflow" /\ Pos < Len(Siblings) /\ Len(node[b].keys) > MinKeys
      /\ call' = Idle /\ root' = root /\ scan' = scan /\ stored' = stored
      /\ node' = [node EXCEPT ![b].keys = Tail(@), ![b].values = Tail(@),
                          ![a].keys = Append(@, Head(node[b].keys)),
                          ![a].values = Append(@, Head(node[b].values)),
                          ![p].keys[i] = node[b].keys[2]]
  BY <1>1 DEF borrow_from_right, RightCanLend
<1>3. /\ Tree(node, root, h, lo, hi, Null, 0, Null) /\ Typed(node)
      /\ p \in DOMAIN node /\ node[p] \in InnerNodes /\ h[p] = 1
      /\ Len(node[p].keys) \in Nat /\ Pos \in 1 .. Len(node[p].keys) + 1 /\ node[p].children[Pos] = a
      /\ Len(Siblings) = Len(node[p].keys) + 1
  BY <1>1, <1>2, UnderflowFacts
<1>4. i \in 1 .. Len(node[p].keys)
  <2>1. PICK n : n = Len(node[p].keys)
    OBVIOUS
  <2>2. n \in Nat /\ i \in 1 .. n + 1 /\ i < n + 1
    BY <1>1, <1>2, <1>3, <2>1
  <2>3. i \in 1 .. n
    BY ONLY <2>2
  <2> QED BY <2>1, <2>3
<1>5. a = node[p].children[i] /\ b = node[p].children[i + 1]
  BY <1>1, <1>3, <1>4 DEF Siblings
<1>6. Neighbours(node, h, lo, hi, p, i, a, b)
  BY <1>3, <1>4, <1>5, NeighboursFound
<1>7. /\ a \in DOMAIN node /\ b \in DOMAIN node /\ a # b /\ a # p /\ b # p
      /\ node[a] \in LeafNodes /\ node[b] \in LeafNodes
      /\ lo[a] \in Nat /\ lo[b] \in Nat /\ hi[b] \in Nat /\ lo[b] # 0 /\ Below(lo[b], hi[b]) /\ lo[a] < lo[b]
      /\ Within(node[a], lo[a], lo[b]) /\ Within(node[b], lo[b], hi[b]) /\ b # root
  BY <1>3, <1>6, NeighboursBound
<1>8. /\ MinKeys \in Nat /\ MaxKeys \in Nat /\ 1 <= MinKeys /\ 2 * MinKeys <= MaxKeys
      /\ Len(node[b].keys) \in Nat /\ Len(node[b].keys) <= MaxKeys
      /\ Len(node[a].keys) + 1 = MinKeys /\ Len(node[a].keys) \in Nat
  BY <1>1, <1>2, <1>7, LendingSizes
<1>19. Len(node[b].keys) > MinKeys /\ Len(node[b].keys) >= 1 /\ Len(node[b].keys) >= 2
  <2>1. PICK x : x = Len(node[b].keys)
    OBVIOUS
  <2>2. x > MinKeys
    BY <1>2, <2>1
  <2>3. x \in Nat /\ MinKeys \in Nat /\ 1 <= MinKeys
    BY <1>8, <2>1
  <2>4. x >= 1 /\ x >= 2
    BY ONLY <2>2, <2>3
  <2> QED BY <2>1, <2>2, <2>4
<1>9. Len(node[a].values) = Len(node[a].keys) /\ Len(node[b].values) = Len(node[b].keys)
  BY <1>3, <1>7, LeafFacts
<1>10. PICK ea, eb, s : /\ ea = [node[a] EXCEPT !.keys = Append(node[a].keys, Head(node[b].keys)),
                                               !.values = Append(node[a].values, Head(node[b].values))]
                       /\ eb = [node[b] EXCEPT !.keys = Tail(node[b].keys), !.values = Tail(node[b].values)]
                       /\ s = node[b].keys[2]
  OBVIOUS
<1>11. FirstMoved(node[a], node[b], ea, eb)
  <2>1. Len(node[b].keys) >= 1
    BY <1>19
  <2> QED BY <1>7, <1>9, <1>10, <2>1, FirstMovedFacts
<1>12. Rearranged(node[a], node[b], ea, eb, s, lo[a], hi[b])
  <2>1. Len(node[b].keys) >= 2
    BY <1>19
  <2> QED BY <1>7, <1>10, <1>11, <2>1, FirstMovedKeeps
<1>13. /\ Len(ea.keys) >= MinKeys /\ Len(ea.keys) <= MaxKeys
       /\ Len(eb.keys) >= MinKeys /\ Len(eb.keys) <= MaxKeys
  <2>1. Len(ea.keys) = Len(node[a].keys) + 1 /\ Len(eb.keys) = Len(node[b].keys) - 1
    BY <1>11 DEF FirstMoved
  <2>2. PICK x, y : x = Len(node[a].keys) /\ y = Len(node[b].keys)
    OBVIOUS
  <2>3. /\ x \in Nat /\ y \in Nat /\ x + 1 = MinKeys /\ y > MinKeys /\ y <= MaxKeys
        /\ MinKeys \in Nat /\ MaxKeys \in Nat /\ 2 * MinKeys <= MaxKeys
    BY <1>8, <1>19, <2>2
  <2>4. x + 1 >= MinKeys /\ x + 1 <= MaxKeys /\ y - 1 >= MinKeys /\ y - 1 <= MaxKeys
    BY ONLY <2>3
  <2> QED BY <2>1, <2>2, <2>4
<1>14. PICK e : e = [node[p] EXCEPT !.keys[i] = s]
  OBVIOUS
<1>15. node' = [node EXCEPT ![a] = ea, ![b] = eb, ![p] = e]
  BY <1>2, <1>3, <1>7, <1>10, <1>14 DEF LeafNodes, InnerNodes
<1>16. Borrowing(a, b, ea, eb, s, e)
  BY <1>1, <1>2, <1>13, <1>15 DEF Borrowing
<1>17. Neighbours(node, h, lo, hi, Parent, i, a, b) /\ call.leaf \in {a, b}
  BY <1>1, <1>6
<1>18. e = [node[Parent] EXCEPT !.keys[i] = s]
  BY <1>1, <1>14
<1> QED BY <1>2, <1>12, <1>16, <1>17, <1>18, ShiftKeeps

-----------------------------------------------------------------------------
(* merge_with_left and merge_with_right *)

\* The leaf e has the entries of x and behind them those of y.
Fusion(x, y, e) ==
  /\ e \in LeafNodes /\ e.parent = x.parent /\ e.next = y.next
  /\ Joined(x.keys, y.keys, e.keys) /\ Joined(x.values, y.values, e.values)
  /\ Len(e.values) = Len(e.keys)

\* What a merge makes of the leaf that stays.
LEMMA FusionFacts ==
  ASSUME NEW x \in LeafNodes, NEW y \in LeafNodes, Len(x.values) = Len(x.keys), Len(y.values) = Len(y.keys)
  PROVE  Fusion(x, y, [x EXCEPT !.keys = x.keys \o y.keys, !.values = x.values \o y.values, !.next = y.next])
<1>1. PICK q, w : q = x.keys \o y.keys /\ w = x.values \o y.values
  OBVIOUS
<1>2. /\ x.keys \in Seq(Key) /\ y.keys \in Seq(Key) /\ x.values \in Seq(Value) /\ y.values \in Seq(Value)
      /\ y.next \in Nodes \cup {Null}
  BY DEF LeafNodes
<1>3. q \in Seq(Key) /\ Joined(x.keys, y.keys, q) /\ w \in Seq(Value) /\ Joined(x.values, y.values, w)
  BY <1>1, <1>2, JoinFacts
<1>4. Len(w) = Len(q)
  BY <1>3 DEF Joined
<1>5. PICK e : e = [x EXCEPT !.keys = q, !.values = w, !.next = y.next]
  OBVIOUS
<1>6. e \in LeafNodes /\ e.parent = x.parent /\ e.next = y.next /\ e.keys = q /\ e.values = w
  BY <1>2, <1>3, <1>5 DEF LeafNodes
<1>7. Fusion(x, y, e)
  BY <1>3, <1>4, <1>6 DEF Fusion
<1> QED BY <1>1, <1>5, <1>7

\* The entries of both, between the outer bounds.
Combined(a, b, e, lower, upper) ==
  /\ Within(e, lower, upper)
  /\ \A k, v : Entry(e, k, v) <=> Entry(a, k, v) \/ Entry(b, k, v)

\* The leaf that stays is within the range of both and has the entries of both.
LEMMA FusionKeeps ==
  ASSUME NEW lower \in Nat, NEW m \in Nat, NEW upper \in Nat, m # 0, Below(m, upper), lower < m,
         NEW a, Within(a, lower, m), NEW b, Within(b, m, upper), NEW e, Fusion(a, b, e)
  PROVE  Combined(a, b, e, lower, upper)
<1>1. PICK n, c : n = Len(a.keys) /\ c = Len(b.keys)
  OBVIOUS
<1>2. /\ n \in Nat
      /\ \A j \in 1 .. n : /\ a.keys[j] \in Key /\ a.keys[j] \in Nat
                           /\ lower <= a.keys[j] /\ Below(a.keys[j], m)
      /\ \A i, j \in 1 .. n : i < j => a.keys[i] < a.keys[j]
  BY <1>1, WithinFacts
<1>3. /\ c \in Nat
      /\ \A j \in 1 .. c : /\ b.keys[j] \in Key /\ b.keys[j] \in Nat
                           /\ m <= b.keys[j] /\ Below(b.keys[j], upper)
      /\ \A i, j \in 1 .. c : i < j => b.keys[i] < b.keys[j]
  BY <1>1, WithinFacts
<1>4. Len(a.values) = n /\ Len(b.values) = c
  BY <1>1 DEF Within
<1>5. /\ Len(e.keys) = n + c /\ Len(e.values) = Len(e.keys) /\ e \in LeafNodes
      /\ \A j \in 1 .. n : e.keys[j] = a.keys[j] /\ e.values[j] = a.values[j]
      /\ \A j \in 1 .. c : e.keys[n + j] = b.keys[j] /\ e.values[n + j] = b.values[j]
  BY <1>1, <1>4 DEF Fusion, Joined
<1>6. ASSUME NEW j \in 1 .. n + c
      PROVE  j \in 1 .. n \/ (j - n \in 1 .. c /\ n + (j - n) = j /\ n < j)
  BY <1>2, <1>3
<1>7. ASSUME NEW j \in 1 .. n PROVE /\ j \in 1 .. n + c /\ e.keys[j] \in Nat
                                    /\ lower <= e.keys[j] /\ e.keys[j] < m
  <2>1. j \in 1 .. n + c
    BY <1>2, <1>3
  <2> QED BY <1>2, <1>5, <2>1 DEF Below
<1>8. ASSUME NEW j \in 1 .. c PROVE /\ n + j \in 1 .. n + c /\ e.keys[n + j] \in Nat
                                    /\ m <= e.keys[n + j] /\ Below(e.keys[n + j], upper)
  <2>1. n + j \in 1 .. n + c
    BY <1>2, <1>3
  <2> QED BY <1>3, <1>5, <2>1
<1>9. Within(e, lower, upper)
  <2>1. ASSUME NEW j \in 1 .. n + c PROVE lower <= e.keys[j] /\ Below(e.keys[j], upper)
    <3>1. CASE j \in 1 .. n
      <4>1. e.keys[j] \in Nat /\ lower <= e.keys[j] /\ e.keys[j] < m
        BY <1>7, <3>1
      <4> QED BY <4>1 DEF Below
    <3>2. CASE j \notin 1 .. n
      <4>1. j - n \in 1 .. c /\ n + (j - n) = j
        BY <1>6, <3>2
      <4>2. e.keys[j] \in Nat /\ m <= e.keys[j] /\ Below(e.keys[j], upper)
        BY <1>8, <4>1
      <4> QED BY <4>2
    <3> QED BY <3>1, <3>2
  <2>2. ASSUME NEW i \in 1 .. n + c, NEW j \in 1 .. n + c, i < j PROVE e.keys[i] < e.keys[j]
    <3>1. CASE j \in 1 .. n
      <4>1. i \in 1 .. n
        BY <1>2, <1>3, <2>2, <3>1
      <4> QED BY <1>2, <1>5, <2>2, <3>1, <4>1
    <3>2. CASE j \notin 1 .. n
      <4>1. j - n \in 1 .. c /\ n + (j - n) = j
        BY <1>6, <3>2
      <4>2. e.keys[j] \in Nat /\ m <= e.keys[j] /\ e.keys[j] = b.keys[j - n]
        BY <1>5, <1>8, <4>1
      <4>3. CASE i \in 1 .. n
        <5>1. e.keys[i] \in Nat /\ e.keys[i] < m
          BY <1>7, <4>3
        <5> QED BY <4>2, <5>1
      <4>4. CASE i \notin 1 .. n
        <5>1. i - n \in 1 .. c /\ n + (i - n) = i
          BY <1>6, <4>4
        <5>2. i - n < j - n
          BY <1>2, <2>2
        <5> QED BY <1>3, <1>5, <4>1, <4>2, <5>1, <5>2
      <4> QED BY <4>3, <4>4
    <3> QED BY <3>1, <3>2
  <2> QED BY <1>5, <2>1, <2>2 DEF Within, Sorted
<1>10. ASSUME NEW k, NEW v PROVE Entry(e, k, v) <=> Entry(a, k, v) \/ Entry(b, k, v)
  <2>1. ASSUME Entry(e, k, v) PROVE Entry(a, k, v) \/ Entry(b, k, v)
    <3>1. PICK j \in 1 .. n + c : e.keys[j] = k /\ e.values[j] = v
      BY <1>5, <2>1 DEF Entry
    <3>2. CASE j \in 1 .. n
      BY <1>1, <1>5, <3>1, <3>2 DEF Entry
    <3>3. CASE j \notin 1 .. n
      <4>1. j - n \in 1 .. c /\ n + (j - n) = j
        BY <1>6, <3>3
      <4>2. e.keys[j] = b.keys[j - n] /\ e.values[j] = b.values[j - n]
        BY <1>5, <4>1
      <4>3. b.keys[j - n] = k /\ b.values[j - n] = v /\ j - n \in 1 .. Len(b.keys)
        BY <1>1, <3>1, <4>1, <4>2
      <4> QED BY <4>3 DEF Entry
    <3> QED BY <3>2, <3>3
  <2>2. ASSUME Entry(a, k, v) PROVE Entry(e, k, v)
    <3>1. PICK j \in 1 .. n : a.keys[j] = k /\ a.values[j] = v
      BY <1>1, <2>2 DEF Entry
    <3> QED BY <1>5, <1>7, <3>1 DEF Entry
  <2>3. ASSUME Entry(b, k, v) PROVE Entry(e, k, v)
    <3>1. PICK j \in 1 .. c : b.keys[j] = k /\ b.values[j] = v
      BY <1>1, <2>3 DEF Entry
    <3> QED BY <1>5, <1>8, <3>1 DEF Entry
  <2> QED BY <2>1, <2>2, <2>3
<1> QED BY <1>9, <1>10 DEF Combined

\* The leaf a has taken the entries of b.
FusionHolds(nd, nd2, a, b, h, lo, hi, h2, lo2, hi2) ==
  /\ a \in DOMAIN nd /\ b \in DOMAIN nd /\ a # b /\ nd[a] \in LeafNodes /\ nd[b] \in LeafNodes
  /\ lo[a] \in Nat /\ lo[b] \in Nat /\ hi[b] \in Nat /\ hi[a] = lo[b] /\ lo[b] # 0 /\ lo[a] < lo[b]
  /\ Fused(DOMAIN nd, a, b, h, lo, hi, h2, lo2, hi2)
  /\ Combined(nd[a], nd[b], nd2[a], lo[a], hi[b])
  /\ DOMAIN nd2 = DOMAIN nd \ {b}
  /\ \A m \in DOMAIN nd2 : m # a /\ nd2[m] \in LeafNodes => nd2[m] = nd[m]

\* A merge loses no entry.
LEMMA FusedHeld ==
  ASSUME NEW nd, NEW nd2, NEW a, NEW b, NEW h, NEW lo, NEW hi, NEW h2, NEW lo2, NEW hi2,
         FusionHolds(nd, nd2, a, b, h, lo, hi, h2, lo2, hi2),
         NEW st, Held(nd, lo, hi, st), DOMAIN st \subseteq Nat
  PROVE  Held(nd2, lo2, hi2, st)
<1>1. /\ a \in DOMAIN nd /\ b \in DOMAIN nd /\ a # b /\ nd[a] \in LeafNodes /\ nd[b] \in LeafNodes
      /\ lo[a] \in Nat /\ lo[b] \in Nat /\ hi[b] \in Nat /\ hi[a] = lo[b] /\ lo[b] # 0 /\ lo[a] < lo[b]
      /\ DOMAIN nd2 = DOMAIN nd \ {b}
      /\ \A m \in DOMAIN nd2 : m # a /\ nd2[m] \in LeafNodes => nd2[m] = nd[m]
      /\ \A k, v : Entry(nd2[a], k, v) <=> Entry(nd[a], k, v) \/ Entry(nd[b], k, v)
  BY DEF FusionHolds, Combined
<1>2. /\ lo2[a] = lo[a] /\ hi2[a] = hi[b]
      /\ \A m \in DOMAIN nd2 : m # a => lo2[m] = lo[m] /\ hi2[m] = hi[m]
  BY <1>1 DEF FusionHolds, Fused
<1>3. Holds(nd, lo, hi, st, a) /\ Holds(nd, lo, hi, st, b)
  BY <1>1 DEF Held
<1>4. /\ \A k, v : Entry(nd[a], k, v) => k \in DOMAIN st /\ st[k] = v
      /\ \A k \in DOMAIN st : lo[a] <= k /\ Below(k, hi[a]) => Entry(nd[a], k, st[k])
  BY <1>3, HeldEntries
<1>5. /\ \A k, v : Entry(nd[b], k, v) => k \in DOMAIN st /\ st[k] = v
      /\ \A k \in DOMAIN st : lo[b] <= k /\ Below(k, hi[b]) => Entry(nd[b], k, st[k])
  BY <1>3, HeldEntries
<1>6. \A k, v : Entry(nd2[a], k, v) => k \in DOMAIN st /\ st[k] = v
  BY <1>1, <1>4, <1>5
<1>7. ASSUME NEW k \in DOMAIN st, lo2[a] <= k, Below(k, hi2[a]) PROVE Entry(nd2[a], k, st[k])
  <2>1. k \in Nat /\ lo[a] <= k /\ Below(k, hi[b])
    BY <1>2, <1>7
  <2>2. k < hi[a] \/ lo[b] <= k
    BY <1>1, <2>1
  <2> QED BY <1>1, <1>4, <1>5, <2>1, <2>2 DEF Below
<1>8. Holds(nd2, lo2, hi2, st, a)
  BY <1>6, <1>7, EntriesHeld
<1>9. ASSUME NEW m \in DOMAIN nd2, m # a, nd2[m] \in LeafNodes PROVE Holds(nd2, lo2, hi2, st, m)
  <2>1. m \in DOMAIN nd /\ nd2[m] = nd[m] /\ lo2[m] = lo[m] /\ hi2[m] = hi[m]
    BY <1>1, <1>2, <1>9
  <2>2. Holds(nd, lo, hi, st, m)
    BY <1>9, <2>1 DEF Held
  <2> QED BY <2>1, <2>2 DEF Holds
<1> QED BY <1>8, <1>9 DEF Held

\* What the two merges have in common.
LEMMA MergeKeeps ==
  ASSUME NEW h, NEW lo, NEW hi, Live(h, lo, hi), Kept(stored), scan \in [Scanner -> ScanRecords],
         call.at = "underflow",
         NEW i, NEW a, NEW b, Neighbours(node, h, lo, hi, Parent, i, a, b), call.leaf \in {a, b},
         Len(node[a].keys) <= MinKeys, Len(node[b].keys) <= MinKeys, Merge(a, b, i)
  PROVE  IndexInv'
<1>1. PICK p, q, cs, e, ea : /\ p = Parent
                            /\ q = RemoveAt(node[p].keys, i) /\ cs = RemoveAt(node[p].children, i + 1)
                            /\ e = [node[p] EXCEPT !.keys = q, !.children = cs]
                            /\ ea = [node[a] EXCEPT !.keys = node[a].keys \o node[b].keys,
                                                    !.values = node[a].values \o node[b].values,
                                                    !.next = node[b].next]
  OBVIOUS
<1>2. /\ Tree(node, root, h, lo, hi, Null, 0, Null) /\ Typed(node) /\ Null \notin DOMAIN node
      /\ Full(node, Null) /\ Filled(node, root, call.leaf) /\ Held(node, lo, hi, stored)
      /\ Scanning = {} /\ call.leaf # root
  BY UnderflowFacts
<1>3. Neighbours(node, h, lo, hi, p, i, a, b)
  BY <1>1
<1>4. /\ a \in DOMAIN node /\ b \in DOMAIN node /\ p \in DOMAIN node /\ a # b /\ a # p /\ b # p
      /\ node[a] \in LeafNodes /\ node[b] \in LeafNodes /\ node[p] \in InnerNodes
      /\ node[a].parent = p /\ node[b].parent = p
      /\ lo[a] \in Nat /\ lo[b] \in Nat /\ hi[b] \in Nat /\ hi[a] = lo[b] /\ lo[b] # 0 /\ lo[a] < lo[b]
      /\ Below(lo[b], hi[b]) /\ Within(node[a], lo[a], lo[b]) /\ Within(node[b], lo[b], hi[b])
      /\ a # root /\ b # root
  BY <1>2, <1>3, NeighboursBound
<1>5. /\ node[p].keys \in Seq(Key) /\ Len(node[p].keys) \in Nat /\ node[p].children \in Seq(Nodes)
      /\ Len(node[p].children) = Len(node[p].keys) + 1 /\ i \in 1 .. Len(node[p].keys)
  BY <1>2, <1>3, <1>4, NodeFacts, InnerFacts DEF Neighbours
<1>6. q \in Seq(Key) /\ Removed(node[p].keys, i, q)
  BY <1>1, <1>5, RemoveAtFacts
<1>7. cs \in Seq(Nodes) /\ Removed(node[p].children, i + 1, cs)
  <2>1. i + 1 \in 1 .. Len(node[p].children)
    BY <1>5
  <2> QED BY <1>1, <1>5, <2>1, RemoveAtFacts
<1>8. e \in InnerNodes /\ e.parent = node[p].parent /\ e.keys = q /\ e.children = cs
  BY <1>1, <1>4, <1>6, <1>7 DEF InnerNodes
<1>9. /\ node' = IF p = root /\ e.keys = << >> THEN Freed({a, b, p})
                 ELSE [Freed({b}) EXCEPT ![a] = ea, ![p] = e]
      /\ root' = IF p = root /\ e.keys = << >> THEN a ELSE root
      /\ call' = IF p # root /\ Len(e.keys) < MinKeys THEN [at |-> "relock"] ELSE Idle
      /\ scan' = scan /\ stored' = stored
  <2>1. e = [node[p] EXCEPT !.keys = RemoveAt(@, i), !.children = RemoveAt(@, i + 1)]
    BY <1>1, <1>4 DEF InnerNodes
  <2>2. ea = [node[a] EXCEPT !.keys = @ \o node[b].keys, !.values = @ \o node[b].values,
                             !.next = node[b].next]
    BY <1>1, <1>4 DEF LeafNodes
  <2> QED BY <1>1, <2>1, <2>2 DEF Merge
<1>10. Kept(stored') /\ scan' \in [Scanner -> ScanRecords]
  BY <1>9
<1>11. CASE p = root /\ e.keys = << >>
  <2>1. Len(node[p].keys) = 1
    <3>1. Len(q) = 0 /\ Len(q) = Len(node[p].keys) - 1
      BY <1>6, <1>8, <1>11 DEF Removed
    <3> QED BY <1>5, <3>1
  <2>2. DOMAIN node = {a, b, root}
    <3>1. Neighbours(node, h, lo, hi, root, i, a, b) /\ Len(node[root].keys) = 1
      BY <1>3, <1>11, <2>1
    <3>2. Tree(node, root, h, lo, hi, Null, 0, Null)
      BY <1>2
    <3> QED BY ONLY <3>1, <3>2, LastThree
  <2>3. node' = Freed({a, b, p}) /\ root' = a /\ call' = Idle
    BY <1>9, <1>11
  <2>4. DOMAIN node' = {}
    BY <1>11, <2>2, <2>3 DEF Freed, Restrict
  <2>5. root' \in Nodes
    BY <1>2, <1>4, <2>3, NodeFacts
  <2>6. Scanning' = {}
    BY <1>2, <1>9 DEF Scanning
  <2>7. Gone'
    BY <2>3, <2>4, <2>5, <2>6 DEF Gone, Idle
  <2> QED BY <1>10, <2>7 DEF IndexInv, Kept
<1>12. CASE ~(p = root /\ e.keys = << >>)
  <2>1. node' = [Freed({b}) EXCEPT ![a] = ea, ![p] = e] /\ root' = root
    BY <1>9, <1>12
  <2>2. /\ DOMAIN node' = DOMAIN node \ {b} /\ node'[a] = ea /\ node'[p] = e
        /\ \A m \in DOMAIN node : m # a /\ m # b /\ m # p => node'[m] = node[m]
    BY <1>4, <2>1 DEF Freed, Restrict
  <2>3. Fusion(node[a], node[b], ea)
    <3>1. Len(node[a].values) = Len(node[a].keys) /\ Len(node[b].values) = Len(node[b].keys)
      BY <1>4 DEF Within
    <3> QED BY <1>1, <1>4, <3>1, FusionFacts
  <2>4. ea \in LeafNodes /\ ea.parent = p /\ ea.next = node[b].next
        /\ Len(ea.keys) = Len(node[a].keys) + Len(node[b].keys)
    BY <1>4, <2>3 DEF Fusion, Joined
  <2>5. Combined(node[a], node[b], ea, lo[a], hi[b])
    BY <1>4, <2>3, FusionKeeps
  <2>6. h \in [DOMAIN node -> Nat] /\ lo \in [DOMAIN node -> Nat] /\ hi \in [DOMAIN node -> Nat]
    BY <1>2 DEF Tree, Levels, Bounds
  <2>7. PICK h2, lo2, hi2 : Fused(DOMAIN node, a, b, h, lo, hi, h2, lo2, hi2)
    BY <1>4, <2>6, FusedExists
  <2>8. Tree(node', root, h2, lo2, hi2, Null, 0, Null)
    <3>1. Within(ea, lo[a], hi[b])
      BY <2>5 DEF Combined
    <3>2. Removed(node[p].keys, i, e.keys) /\ Removed(node[p].children, i + 1, e.children)
      BY <1>6, <1>7, <1>8
    <3>3. MergedTo(node, node', lo, hi, p, i, a, b, ea, e)
      BY <1>8, <2>2, <2>4, <3>1, <3>2 DEF MergedTo
    <3> QED BY <1>2, <1>3, <2>7, <3>3, Merged
  <2>9. e \notin LeafNodes
    BY <1>8 DEF LeafNodes, InnerNodes
  <2>10. Held(node', lo2, hi2, stored)
    <3>1. \A m \in DOMAIN node' : m # a /\ node'[m] \in LeafNodes => node'[m] = node[m]
      BY <2>2, <2>9
    <3>2. FusionHolds(node, node', a, b, h, lo, hi, h2, lo2, hi2)
      BY <1>4, <2>2, <2>5, <2>7, <3>1 DEF FusionHolds
    <3>3. DOMAIN stored \subseteq Nat
      BY TreeFacts DEF Kept
    <3> QED BY <1>2, <3>2, <3>3, FusedHeld
  <2>11. Len(ea.keys) >= MinKeys /\ Len(ea.keys) <= MaxKeys
    <3>1. PICK x, y : x = Len(node[a].keys) /\ y = Len(node[b].keys)
      OBVIOUS
    <3>2. /\ MinKeys \in Nat /\ MaxKeys \in Nat /\ 1 <= MinKeys /\ 2 * MinKeys <= MaxKeys
          /\ x \in Nat /\ y \in Nat /\ x <= MinKeys /\ y <= MinKeys
          /\ a # call.leaf => x >= MinKeys
          /\ b # call.leaf => y >= MinKeys
          /\ call.leaf = a => x + 1 = MinKeys
          /\ call.leaf = b => y + 1 = MinKeys
      BY <1>4, <3>1, LendingSizes
    <3>3. (x >= MinKeys /\ y + 1 = MinKeys) \/ (y >= MinKeys /\ x + 1 = MinKeys)
      BY <1>4, <3>2
    <3>4. x + y >= MinKeys /\ x + y <= MaxKeys
      BY ONLY <3>2, <3>3
    <3> QED BY <2>4, <3>1, <3>4
  <2>12. Full(node', Null)
    <3>1. \A m \in DOMAIN node : Len(node[m].keys) <= MaxKeys
      BY <1>2 DEF Full
    <3>2. Len(e.keys) <= MaxKeys
      <4>1. Len(e.keys) = Len(node[p].keys) - 1
        BY <1>6, <1>8 DEF Removed
      <4> QED BY <1>4, <1>5, <3>1, <4>1, TreeFacts
    <3> QED BY <1>2, <2>2, <2>11, <3>1, <3>2 DEF Full
  <2>13. Filled(node', root, Null)
    <3> SUFFICES ASSUME NEW n \in DOMAIN node', node'[n] \in LeafNodes, n # root PROVE Len(node'[n].keys) >= MinKeys
      BY <1>2, <2>2 DEF Filled
    <3>1. CASE n = a
      BY <2>2, <2>11, <3>1
    <3>2. CASE n # a
      <4>1. n # p /\ n \in DOMAIN node /\ node'[n] = node[n] /\ n # call.leaf
        BY <2>2, <2>9, <3>2
      <4> QED BY <1>2, <4>1 DEF Filled
    <3> QED BY <3>1, <3>2
  <2>14. call'.at \in {"relock", "idle"}
    BY <1>9 DEF Idle
  <2>15. /\ Left(call') = Null /\ Middle(call') = 0 /\ Right(call') = Null /\ Over(call') = Null
         /\ Short(call') = Null /\ CallFits(node', root, lo2, hi2, call')
    BY <2>14 DEF Left, Middle, Right, Over, Short, CallFits
  <2>16. Scanned(node', lo2, scan', stored') /\ Scanning' = {}
    BY <1>2, <1>9, NoScanner
  <2> QED BY <1>9, <1>10, <2>1, <2>8, <2>10, <2>12, <2>13, <2>15, <2>16, LiveAgain
<1> QED BY <1>11, <1>12

\* merge_with_left.
LEMMA MergeWithLeftKeeps ==
  ASSUME NEW h, NEW lo, NEW hi, Live(h, lo, hi), Kept(stored), scan \in [Scanner -> ScanRecords],
         merge_with_left
  PROVE  IndexInv'
<1>1. PICK p, i, a, b : p = Parent /\ i = Pos - 1 /\ a = Siblings[Pos - 1] /\ b = call.leaf
  OBVIOUS
<1>2. /\ call.at = "underflow" /\ Pos > 1 /\ ~(Len(node[a].keys) > MinKeys) /\ Merge(a, b, i)
  BY <1>1 DEF merge_with_left, NoLender, LeftCanLend
<1>3. /\ Tree(node, root, h, lo, hi, Null, 0, Null)
      /\ p \in DOMAIN node /\ node[p] \in InnerNodes /\ h[p] = 1
      /\ Len(node[p].keys) \in Nat /\ Pos \in 1 .. Len(node[p].keys) + 1 /\ node[p].children[Pos] = b
  BY <1>1, <1>2, UnderflowFacts
<1>4. i \in 1 .. Len(node[p].keys) /\ i + 1 = Pos
  <2>1. PICK j, n : j = Pos /\ n = Len(node[p].keys)
    OBVIOUS
  <2>2. j > 1 /\ n \in Nat /\ j \in 1 .. n + 1 /\ i = j - 1
    BY <1>1, <1>2, <1>3, <2>1
  <2>3. i \in 1 .. n /\ i + 1 = j
    BY ONLY <2>2
  <2> QED BY <2>1, <2>3
<1>5. a = node[p].children[i] /\ b = node[p].children[i + 1]
  BY <1>1, <1>3, <1>4 DEF Siblings
<1>6. Neighbours(node, h, lo, hi, p, i, a, b)
  BY <1>3, <1>4, <1>5, NeighboursFound
<1>7. a \in DOMAIN node /\ a # root
  BY <1>3, <1>6, NeighboursBound
<1>8. Len(node[a].keys) <= MinKeys /\ Len(node[b].keys) <= MinKeys
  <2>1. /\ MinKeys \in Nat /\ Len(node[a].keys) \in Nat
        /\ Len(node[b].keys) + 1 = MinKeys /\ Len(node[b].keys) \in Nat
    BY <1>1, <1>2, <1>7, LendingSizes
  <2> QED BY <1>2, <2>1
<1>9. Neighbours(node, h, lo, hi, Parent, i, a, b) /\ call.leaf \in {a, b}
  BY <1>1, <1>6
<1> QED BY <1>2, <1>8, <1>9, MergeKeeps

\* merge_with_right.
LEMMA MergeWithRightKeeps ==
  ASSUME NEW h, NEW lo, NEW hi, Live(h, lo, hi), Kept(stored), scan \in [Scanner -> ScanRecords],
         merge_with_right
  PROVE  IndexInv'
<1>1. PICK p, a, b : p = Parent /\ a = call.leaf /\ b = Siblings[2]
  OBVIOUS
<1>2. /\ call.at = "underflow" /\ Pos = 1 /\ Len(Siblings) > 1 /\ ~(Len(node[b].keys) > MinKeys)
      /\ Merge(a, b, 1)
  BY <1>1 DEF merge_with_right, NoLender, RightCanLend
<1>3. /\ Tree(node, root, h, lo, hi, Null, 0, Null)
      /\ p \in DOMAIN node /\ node[p] \in InnerNodes /\ h[p] = 1
      /\ Len(node[p].keys) \in Nat /\ node[p].children[1] = a
      /\ Len(Siblings) = Len(node[p].keys) + 1
  BY <1>1, <1>2, UnderflowFacts
<1>4. 1 \in 1 .. Len(node[p].keys)
  BY <1>2, <1>3
<1>5. a = node[p].children[1] /\ b = node[p].children[1 + 1]
  BY <1>1, <1>3 DEF Siblings
<1>6. Neighbours(node, h, lo, hi, p, 1, a, b)
  BY <1>3, <1>4, <1>5, NeighboursFound
<1>7. b \in DOMAIN node /\ b # root
  BY <1>3, <1>6, NeighboursBound
<1>8. Len(node[a].keys) <= MinKeys /\ Len(node[b].keys) <= MinKeys
  <2>1. /\ MinKeys \in Nat /\ Len(node[b].keys) \in Nat
        /\ Len(node[a].keys) + 1 = MinKeys /\ Len(node[a].keys) \in Nat
    BY <1>1, <1>2, <1>7, LendingSizes
  <2> QED BY <1>2, <2>1
<1>9. Neighbours(node, h, lo, hi, Parent, 1, a, b) /\ call.leaf \in {a, b}
  BY <1>1, <1>6
<1> QED BY <1>2, <1>8, <1>9, MergeKeeps

-----------------------------------------------------------------------------
(* forEachKey *)

\* Nothing but a scan changes, while the tree is not locked.
LEMMA OnlyScan ==
  ASSUME NEW h, NEW lo, NEW hi, Live(h, lo, hi), Kept(stored),
         UNCHANGED <<node, root, call, stored>>, ~TreeLocked,
         scan' \in [Scanner -> ScanRecords], Scanned(node, lo, scan', stored)
  PROVE  IndexInv'
<1>1. Sound(node, root, stored, call, h, lo, hi)
  BY DEF Live
<1>2. node' = node /\ root' = root /\ call' = call /\ stored' = stored
  OBVIOUS
<1>3. Sound(node, root, stored, call, h, lo, hi)'
  BY <1>1, <1>2
<1>4. Scanned(node, lo, scan, stored)' /\ ~TreeLocked'
  BY <1>2 DEF TreeLocked
<1>5. Live(h, lo, hi)'
  BY <1>3, <1>4 DEF Live
<1> QED BY <1>2, <1>5 DEF IndexInv, Kept

\* A scan begins at the leftmost leaf.
LEMMA ForEachKeyKeeps ==
  ASSUME NEW h, NEW lo, NEW hi, Live(h, lo, hi), Kept(stored), scan \in [Scanner -> ScanRecords],
         NEW s \in Scanner, forEachKey(s)
  PROVE  IndexInv'
<1>1. PICK l, e : /\ l = FirstLeaf
                  /\ e = [leaf |-> l, met |-> {}, always |-> DOMAIN stored, ever |-> DOMAIN stored]
  OBVIOUS
<1>2. ~TreeLocked /\ UNCHANGED <<node, root, call, stored>> /\ scan' = [scan EXCEPT ![s] = e]
  BY <1>1 DEF forEachKey
<1>3. Tree(node, root, h, lo, hi, Null, 0, Null)
  BY <1>2, QuietTree DEF TreeLocked
<1>4. l \in DOMAIN node /\ node[l] \in LeafNodes /\ lo[l] = 0
  BY <1>1, <1>3, FirstLeafFacts
<1>5. l \in Nodes
  BY <1>3, <1>4, NodeFacts DEF Tree
<1>6. DOMAIN stored \subseteq Key /\ Key \subseteq Nat
  BY TreeFacts DEF Kept
<1>7. e \in ScanRecords /\ e.leaf = l /\ e.met = {} /\ e.always = DOMAIN stored /\ e.ever = DOMAIN stored
  BY <1>1, <1>5, <1>6 DEF ScanRecords
<1>8. scan' \in [Scanner -> ScanRecords] /\ scan'[s] = e /\ \A t \in Scanner : t # s => scan'[t] = scan[t]
  BY <1>2, <1>7
<1>9. Scanned(node, lo, scan', stored)
  <2>1. ASSUME NEW k \in e.always PROVE ~(k < lo[l])
    <3>1. k \in Nat
      BY <1>6, <1>7
    <3> QED BY <1>4, <3>1
  <2>2. Scanned(node, lo, scan, stored)
    BY DEF Live
  <2> QED BY <1>4, <1>7, <1>8, <2>1, <2>2 DEF Scanned
<1> QED BY <1>2, <1>8, <1>9, OnlyScan

\* The leaf that a scan reads.
LEMMA ScanFacts ==
  ASSUME NEW h, NEW lo, NEW hi, Live(h, lo, hi), Kept(stored), NEW s \in Scanning
  PROVE  /\ ~TreeLocked /\ Tree(node, root, h, lo, hi, Null, 0, Null)
         /\ scan[s].leaf \in DOMAIN node /\ node[scan[s].leaf] \in LeafNodes
         /\ Met(s) \subseteq scan[s].ever
         /\ \A k \in scan[s].always : Below(k, hi[scan[s].leaf]) => k \in Met(s)
<1>1. ~TreeLocked /\ Held(node, lo, hi, stored) /\ Scanned(node, lo, scan, stored)
  BY DEF Live, Sound
<1>2. Tree(node, root, h, lo, hi, Null, 0, Null)
  BY <1>1, QuietTree DEF TreeLocked
<1>3. PICK l : l = scan[s].leaf
  OBVIOUS
<1>4. /\ l \in DOMAIN node /\ node[l] \in LeafNodes
      /\ scan[s].always \subseteq DOMAIN stored /\ DOMAIN stored \subseteq scan[s].ever
      /\ scan[s].met \subseteq scan[s].ever
      /\ \A k \in scan[s].always : k < lo[l] => k \in scan[s].met
  BY <1>1, <1>3 DEF Scanned, Scanning
<1>5. Holds(node, lo, hi, stored, l)
  BY <1>1, <1>4 DEF Held
<1>6. node[l].keys \in Seq(Key) /\ lo[l] \in Nat
  BY <1>2, <1>4, NodeFacts DEF Tree, Bounds
<1>7. Range(node[l].keys) = {node[l].keys[i] : i \in 1 .. Len(node[l].keys)}
  BY <1>6 DEF Range
<1>8. Met(s) = scan[s].met \cup Range(node[l].keys)
  BY <1>3 DEF Met
<1>9. Met(s) \subseteq scan[s].ever
  BY <1>4, <1>5, <1>7, <1>8 DEF Holds
<1>10. ASSUME NEW k \in scan[s].always, Below(k, hi[l]) PROVE k \in Met(s)
  <2>1. k \in Nat /\ k \in DOMAIN stored
    BY <1>4, TreeFacts DEF Kept
  <2>2. CASE k < lo[l]
    BY <1>4, <1>8, <2>2
  <2>3. CASE lo[l] <= k
    BY <1>5, <1>7, <1>8, <1>10, <2>1, <2>3 DEF Holds
  <2> QED BY <1>6, <2>1, <2>2, <2>3
<1> QED BY <1>1, <1>2, <1>3, <1>4, <1>9, <1>10

\* A scan visits a leaf and goes on to the next.
LEMMA ScanLeafKeeps ==
  ASSUME NEW h, NEW lo, NEW hi, Live(h, lo, hi), Kept(stored), scan \in [Scanner -> ScanRecords],
         NEW s \in Scanner, ScanLeaf(s)
  PROVE  IndexInv'
<1>1. PICK l, x, m : l = scan[s].leaf /\ x = node[l].next /\ m = Met(s)
  OBVIOUS
<1>2. /\ s \in Scanning /\ UNCHANGED <<node, root, call, stored>>
      /\ scan' = [scan EXCEPT ![s] = IF x = Null THEN NoScan ELSE [scan[s] EXCEPT !.leaf = x, !.met = m]]
  BY <1>1 DEF ScanLeaf
<1>3. /\ ~TreeLocked /\ Tree(node, root, h, lo, hi, Null, 0, Null)
      /\ l \in DOMAIN node /\ node[l] \in LeafNodes /\ m \subseteq scan[s].ever
      /\ \A k \in scan[s].always : Below(k, hi[l]) => k \in m
  BY <1>1, <1>2, ScanFacts
<1>4. Scanned(node, lo, scan, stored)
  BY DEF Live
<1>5. scan[s] \in ScanRecords /\ scan[s].always \subseteq DOMAIN stored /\ DOMAIN stored \subseteq scan[s].ever
  BY <1>2, <1>4 DEF Scanned, Scanning
<1>6. CASE x = Null
  <2>1. NoScan \in ScanRecords /\ NoScan.leaf = Null
    BY DEF NoScan, ScanRecords
  <2>2. /\ scan' \in [Scanner -> ScanRecords] /\ scan'[s].leaf = Null
        /\ \A t \in Scanner : t # s => scan'[t] = scan[t]
    BY <1>2, <1>6, <2>1
  <2>3. Scanned(node, lo, scan', stored)
    BY <1>4, <2>2 DEF Scanned
  <2> QED BY <1>2, <1>3, <2>2, <2>3, OnlyScan
<1>7. CASE x # Null
  <2>1. PICK e : e = [scan[s] EXCEPT !.leaf = x, !.met = m]
    OBVIOUS
  <2>2. x \in DOMAIN node /\ node[x] \in LeafNodes /\ hi[l] # 0 /\ lo[x] = hi[l]
    BY <1>1, <1>3, <1>7 DEF Tree, Chained
  <2>3. x \in Nodes
    BY <1>3, <2>2, NodeFacts DEF Tree
  <2>4. /\ e \in ScanRecords /\ e.leaf = x /\ e.met = m
        /\ e.always = scan[s].always /\ e.ever = scan[s].ever
    BY <1>3, <1>5, <2>1, <2>3 DEF ScanRecords
  <2>5. /\ scan' \in [Scanner -> ScanRecords] /\ scan'[s] = e
        /\ \A t \in Scanner : t # s => scan'[t] = scan[t]
    BY <1>2, <1>7, <2>1, <2>4
  <2>6. \A k \in e.always : k < lo[x] => k \in e.met
    BY <1>3, <2>2, <2>4 DEF Below
  <2>7. Scanned(node, lo, scan', stored)
    BY <1>3, <1>4, <1>5, <2>2, <2>4, <2>5, <2>6 DEF Scanned
  <2> QED BY <1>2, <1>3, <2>5, <2>7, OnlyScan
<1> QED BY <1>6, <1>7

-----------------------------------------------------------------------------
(* The invariant is inductive *)

\* The empty tree.
LEMMA InitIndex == Init => IndexInv
<1> SUFFICES ASSUME Init PROVE IndexInv
  OBVIOUS
<1>1. PICK e : e = Leaf(<< >>, << >>, Null, Null)
  OBVIOUS
<1>2. root \in Nodes
  <2>1. \E n \in Nodes : \A m \in Nodes : n <= m
    BY TreeFacts, Least
  <2> QED BY <2>1 DEF Init
<1>3. /\ node = [n \in {root} |-> e] /\ call = Idle
      /\ scan = [s \in Scanner |-> NoScan] /\ stored = << >>
  BY <1>1 DEF Init
<1>4. DOMAIN node = {root} /\ node[root] = e
  BY <1>3
<1>5. e \in LeafNodes /\ Len(e.keys) = 0 /\ Len(e.values) = 0 /\ e.next = Null /\ e.parent = Null
  BY <1>1 DEF Leaf, LeafNodes
<1>6. e \notin InnerNodes
  BY <1>5 DEF LeafNodes, InnerNodes
<1>7. DOMAIN stored = {} /\ Kept(stored)
  BY <1>3 DEF Kept
<1>8. NoScan \in ScanRecords /\ NoScan.leaf = Null
  BY DEF NoScan, ScanRecords
<1>9. scan \in [Scanner -> ScanRecords] /\ \A s \in Scanner : scan[s].leaf = Null
  BY <1>3, <1>8
<1>10. PICK z : z = [n \in {root} |-> 0]
  OBVIOUS
<1>11. z \in [DOMAIN node -> Nat] /\ z[root] = 0
  BY <1>4, <1>10
<1>12. Tree(node, root, z, z, z, Null, 0, Null)
  <2>1. Typed(node) /\ Levels(node, root, z) /\ Bounds(node, root, z, z, Null, Null)
    BY <1>2, <1>4, <1>5, <1>6, <1>11, NodeFacts, TreeFacts DEF Typed, Levels, Bounds, Top, Below
  <2>2. Apart(node, z, z, z) /\ Keyed(node, z, z) /\ Kids(node, z, z, z, Null, Null)
    BY <1>4, <1>5, <1>6 DEF Apart, Keyed, Kids, Sorted
  <2>3. Listed(node, root, Null) /\ Chained(node, z, z) /\ Pending(node, root, z, z, z, Null, 0, Null)
    BY <1>4, <1>5, <1>11 DEF Listed, Chained, Pending
  <2> QED BY <2>1, <2>2, <2>3 DEF Tree
<1>13. /\ Left(call) = Null /\ Middle(call) = 0 /\ Right(call) = Null /\ Over(call) = Null
       /\ Short(call) = Null /\ CallFits(node, root, z, z, call) /\ ~TreeLocked
  BY <1>3 DEF Idle, Left, Middle, Right, Over, Short, CallFits, TreeLocked
<1>14. Full(node, Null) /\ Filled(node, root, Null)
  BY <1>2, <1>4, <1>5, TreeFacts DEF Full, Filled
<1>15. Held(node, z, z, stored)
  BY <1>4, <1>5, <1>7 DEF Held, Holds
<1>16. Scanned(node, z, scan, stored)
  BY <1>9 DEF Scanned
<1>17. Live(z, z, z)
  BY <1>12, <1>13, <1>14, <1>15, <1>16 DEF Live, Sound
<1> QED BY <1>7, <1>9, <1>17 DEF IndexInv

\* After the last merge nothing more is done.
LEMMA GoneStays ==
  ASSUME IndexInv, Gone, [Next]_vars
  PROVE  IndexInv'
<1>1. ~Intact /\ call.at = "idle" /\ Scanning = {}
  BY DEF Gone, Intact, Idle
<1>2. ASSUME NEW k \in Key, remove(k) PROVE FALSE
  BY <1>1, <1>2 DEF remove
<1>3. ASSUME NEW e \in Entries, insert(e[1], e[2]) PROVE FALSE
  BY <1>1, <1>3 DEF insert
<1>4. ASSUME Step PROVE FALSE
  <2>1. ~(merge_with_left \/ merge_with_right \/ MergeWithNone)
    BY <1>1 DEF merge_with_left, merge_with_right, MergeWithNone, NoLender
  <2>2. ~(borrow_from_left \/ borrow_from_right \/ rebalance \/ delete_from_leaf \/ Relock)
    BY <1>1 DEF borrow_from_left, borrow_from_right, rebalance, delete_from_leaf, Relock
  <2>3. ~(insert_into_leaf \/ split_leaf \/ NewRoot \/ insert_into_parent \/ split_internal)
    BY <1>1 DEF insert_into_leaf, split_leaf, NewRoot, insert_into_parent, split_internal
  <2> QED BY <1>4, <2>1, <2>2, <2>3 DEF Step
<1>5. ASSUME NEW s \in Scanner, forEachKey(s) \/ ScanLeaf(s) PROVE FALSE
  BY <1>1, <1>5 DEF forEachKey, ScanLeaf
<1>6. UNCHANGED vars
  BY <1>2, <1>3, <1>4, <1>5 DEF Next
<1>7. node' = node /\ root' = root /\ call' = call /\ scan' = scan /\ stored' = stored
  BY <1>6 DEF vars
<1>8. Gone'
  BY <1>7 DEF Gone, Scanning
<1> QED BY <1>7, <1>8 DEF IndexInv, Kept

\* Every step of a tree that nobody broke or destroyed keeps the invariant.
LEMMA LiveStays ==
  ASSUME NEW h, NEW lo, NEW hi, Live(h, lo, hi), Kept(stored), scan \in [Scanner -> ScanRecords],
         [Next]_vars
  PROVE  IndexInv'
<1>1. ASSUME NEW k \in Key, remove(k) PROVE IndexInv'
  BY <1>1, RemoveKeeps
<1>2. ASSUME NEW e \in Entries, insert(e[1], e[2]) PROVE IndexInv'
  <2>1. e[1] \in Key /\ e[2] \in Value
    BY TreeFacts
  <2> QED BY <1>2, <2>1, InsertKeeps
<1>3. CASE insert_into_leaf
  BY <1>3, InsertIntoLeafKeeps
<1>4. CASE split_leaf
  BY <1>4, SplitLeafKeeps
<1>5. CASE NewRoot
  BY <1>5, NewRootKeeps
<1>6. CASE insert_into_parent
  BY <1>6, InsertIntoParentKeeps
<1>7. CASE split_internal
  BY <1>7, SplitInternalKeeps
<1>8. CASE delete_from_leaf
  BY <1>8, DeleteFromLeafKeeps
<1>9. CASE rebalance
  BY <1>9, RebalanceKeeps
<1>10. CASE borrow_from_left
  BY <1>10, BorrowFromLeftKeeps
<1>11. CASE borrow_from_right
  BY <1>11, BorrowFromRightKeeps
<1>12. CASE merge_with_left
  BY <1>12, MergeWithLeftKeeps
<1>13. CASE merge_with_right
  BY <1>13, MergeWithRightKeeps
<1>14. CASE MergeWithNone
  BY <1>14, MergeWithNoneKeeps
<1>15. CASE Relock
  BY <1>15, RelockKeeps
<1>16. ASSUME NEW s \in Scanner, forEachKey(s) PROVE IndexInv'
  BY <1>16, ForEachKeyKeeps
<1>17. ASSUME NEW s \in Scanner, ScanLeaf(s) PROVE IndexInv'
  BY <1>17, ScanLeafKeeps
<1>18. CASE UNCHANGED vars
  <2>1. node' = node /\ root' = root /\ call' = call /\ scan' = scan /\ stored' = stored
    BY <1>18 DEF vars
  <2>2. Sound(node, root, stored, call, h, lo, hi)' /\ Scanned(node, lo, scan, stored)'
    BY <2>1 DEF Live
  <2>3. TreeLocked' = TreeLocked /\ Scanning' = Scanning
    BY <2>1 DEF TreeLocked, Scanning
  <2>4. Live(h, lo, hi)'
    BY <2>2, <2>3 DEF Live
  <2> QED BY <2>1, <2>4 DEF IndexInv, Kept
<1>19. CASE Step
  BY <1>3, <1>4, <1>5, <1>6, <1>7, <1>8, <1>9, <1>10, <1>11, <1>12, <1>13, <1>14, <1>15, <1>19 DEF Step
<1> QED BY <1>1, <1>2, <1>16, <1>17, <1>18, <1>19 DEF Next

\* The tree is a search tree for what the calls have stored, at every step of
\* every call: each node has its range of the keys, at one distance from the
\* leaves, the leaves are chained in the order of their ranges, and each holds
\* the entries of its range.
THEOREM IndexHolds == Spec => []IndexInv
<1>1. IndexInv /\ [Next]_vars => IndexInv'
  <2> SUFFICES ASSUME IndexInv, [Next]_vars PROVE IndexInv'
    OBVIOUS
  <2>1. CASE Gone
    BY <2>1, GoneStays
  <2>2. ASSUME NEW h, NEW lo, NEW hi, Live(h, lo, hi) PROVE IndexInv'
    <3>1. Kept(stored) /\ scan \in [Scanner -> ScanRecords]
      BY DEF IndexInv
    <3> QED BY <2>2, <3>1, LiveStays
  <2> QED BY <2>1, <2>2 DEF IndexInv
<1> QED BY <1>1, InitIndex, PTL DEF Spec

-----------------------------------------------------------------------------
(* The properties *)

\* The invariant implies the types.
LEMMA IndexTyped == IndexInv => TypeOK
<1> SUFFICES ASSUME IndexInv PROVE TypeOK
  OBVIOUS
<1>1. Kept(stored) /\ scan \in [Scanner -> ScanRecords]
  BY DEF IndexInv
<1>2. stored \in UNION {[ks -> Value] : ks \in SUBSET Key}
  BY <1>1 DEF Kept
<1>3. CASE Gone
  <2>1. \A s \in Scanner : scan[s].leaf = Null
    BY <1>3 DEF Gone, Scanning
  <2> QED BY <1>2, <1>3, <2>1 DEF TypeOK, Gone
<1>4. ASSUME NEW h, NEW lo, NEW hi, Live(h, lo, hi) PROVE TypeOK
  <2>1. PICK L, k, R : L = Left(call) /\ k = Middle(call) /\ R = Right(call)
    OBVIOUS
  <2>2. Tree(node, root, h, lo, hi, L, k, R) /\ Scanned(node, lo, scan, stored)
    BY <1>4, <2>1 DEF Live, Sound
  <2>3. Typed(node) /\ Chained(node, lo, hi) /\ root \in DOMAIN node
    BY <2>2 DEF Tree, Levels
  <2>4. DOMAIN node \subseteq Nodes /\ root \in Nodes
    BY <2>3 DEF Typed
  <2>5. ASSUME NEW n \in DOMAIN node
        PROVE  IF node[n].is_leaf
               THEN /\ node[n].keys \in Seq(Key) /\ node[n].values \in Seq(Value)
                    /\ Len(node[n].values) = Len(node[n].keys)
                    /\ node[n].next \in DOMAIN node \cup {Null}
               ELSE /\ node[n].keys \in Seq(Key) /\ node[n].children \in Seq(Nodes)
                    /\ Len(node[n].children) = Len(node[n].keys) + 1
    <3>1. node[n].keys \in Seq(Key)
      BY <2>3, NodeFacts
    <3>2. CASE node[n] \in LeafNodes
      <4>1. node[n].next \in DOMAIN node \cup {Null}
        BY <2>3, <3>2 DEF Chained
      <4> QED BY <2>3, <3>1, <3>2, <4>1, LeafFacts
    <3>3. CASE node[n] \in InnerNodes
      BY <2>3, <3>1, <3>3, InnerFacts
    <3> QED BY <2>3, <3>2, <3>3, NodeFacts
  <2>6. \A s \in Scanner : scan[s].leaf \in DOMAIN node \cup {Null}
    BY <2>2 DEF Scanned
  <2> QED BY <1>2, <2>4, <2>5, <2>6 DEF TypeOK
<1> QED BY <1>3, <1>4 DEF IndexInv

\* The pointers lead to nodes that are allocated, and every node has as many
\* values or children as its keys call for, whatever splits and merges did.
THEOREM TreeTyped == Spec => []TypeOK
BY IndexHolds, IndexTyped, PTL

\* The descent for a key ends in the leaf whose range it is in, which holds it if anything does.
LEMMA IndexSearches == IndexInv => SearchFinds
<1> SUFFICES ASSUME IndexInv, Intact, ~TreeLocked, NEW k \in Key
             PROVE  search(k) = IF k \in DOMAIN stored THEN stored[k] ELSE Null
  BY DEF SearchFinds
<1>1. ~Gone
  BY DEF Intact, Gone
<1>2. PICK h, lo, hi : Live(h, lo, hi)
  BY <1>1 DEF IndexInv
<1>3. Tree(node, root, h, lo, hi, Null, 0, Null) /\ Held(node, lo, hi, stored)
  BY <1>2, QuietTree DEF TreeLocked, Live, Sound
<1>4. PICK l, i : l = find_leaf(k) /\ i = Find(node[l].keys, k)
  OBVIOUS
<1>5. l \in DOMAIN node /\ node[l] \in LeafNodes /\ lo[l] <= k /\ Below(k, hi[l])
  BY <1>3, <1>4, FindLeafFacts, TreeFacts
<1>6. Holds(node, lo, hi, stored, l)
  BY <1>3, <1>5 DEF Held
<1>7. node[l].keys \in Seq(Key)
  BY <1>3, <1>5, NodeFacts DEF Tree
<1>8. /\ i = 0 <=> \A j \in 1 .. Len(node[l].keys) : node[l].keys[j] # k
      /\ i # 0 => i \in 1 .. Len(node[l].keys) /\ node[l].keys[i] = k
  BY <1>4, <1>7, FindFacts
<1>9. search(k) = IF i = 0 THEN Null ELSE node[l].values[i]
  BY <1>4 DEF search
<1>10. CASE k \in DOMAIN stored
  BY <1>5, <1>6, <1>8, <1>9, <1>10 DEF Holds
<1>11. CASE k \notin DOMAIN stored
  BY <1>6, <1>8, <1>9, <1>11 DEF Holds
<1> QED BY <1>10, <1>11

\* find_leaf and the leaf it ends in give for every key what the calls have left
\* there, after any number of splits, borrowings and merges.
THEOREM SearchesFind == Spec => []SearchFinds
BY IndexHolds, IndexSearches, PTL

\* All leaves are h[root] below the root.
LEMMA OneDepth ==
  ASSUME NEW h, NEW lo, NEW hi, Tree(node, root, h, lo, hi, Null, 0, Null)
  PROVE  Cardinality(Depths) = 1
<1> DEFINE D == DOMAIN node
           Rule(f, n) == IF node[n].is_leaf THEN {0}
                         ELSE {d + 1 : d \in UNION {f[c] : c \in Range(node[n].children)}}
           Is(f) == f = [n \in D |-> Rule(f, n)]
<1>1. /\ Typed(node) /\ Kids(node, h, lo, hi, Null, Null) /\ h \in [D -> Nat] /\ root \in D
      /\ \A n \in D : h[n] = 0 <=> node[n] \in LeafNodes
  BY DEF Tree, Levels
<1>2. ASSUME NEW n \in D, ~node[n].is_leaf
      PROVE  /\ Range(node[n].children) # {} /\ h[n] # 0
             /\ \A c \in Range(node[n].children) : c \in D /\ h[c] + 1 = h[n]
  <2>1. node[n] \in InnerNodes /\ node[n] \notin LeafNodes
    BY <1>1, <1>2, NodeFacts, LeafFacts
  <2>2. /\ node[n].children \in Seq(Nodes) /\ Len(node[n].children) = Len(node[n].keys) + 1
        /\ Len(node[n].keys) \in Nat
    BY <1>1, <2>1, InnerFacts, NodeFacts
  <2>3. Range(node[n].children) = {node[n].children[i] : i \in 1 .. Len(node[n].children)}
    BY <2>2 DEF Range
  <2>4. 1 \in 1 .. Len(node[n].children)
    BY <2>2
  <2>5. ASSUME NEW i \in 1 .. Len(node[n].children)
        PROVE  node[n].children[i] \in D /\ h[node[n].children[i]] + 1 = h[n]
    <3>1. Child(node, h, lo, hi, Null, Null, n, i)
      BY <1>1, <2>1, ChildFacts
    <3> QED BY <3>1 DEF Child
  <2> QED BY <1>1, <2>1, <2>3, <2>4, <2>5
<1>3. ASSUME NEW n \in D, node[n].is_leaf PROVE h[n] = 0
  BY <1>1, <1>3, NodeFacts, InnerFacts
<1>4. ASSUME NEW f, NEW n \in D, ~node[n].is_leaf,
             \A c \in Range(node[n].children) : f[c] = {h[c]}
      PROVE  Rule(f, n) = {h[n]}
  <2>1. PICK cs : cs = Range(node[n].children)
    OBVIOUS
  <2>2. cs # {} /\ \A c \in cs : f[c] = {h[c]} /\ h[c] + 1 = h[n]
    BY <1>2, <1>4, <2>1
  <2>3. {d + 1 : d \in UNION {f[c] : c \in cs}} = {h[n]}
    BY <2>2
  <2> QED BY <1>4, <2>1, <2>3
<1>5. PICK g : g = [n \in D |-> {h[n]}]
  OBVIOUS
<1>6. Is(g)
  <2>1. ASSUME NEW n \in D PROVE Rule(g, n) = {h[n]}
    <3>1. CASE node[n].is_leaf
      BY <1>3, <3>1
    <3>2. CASE ~node[n].is_leaf
      <4>1. \A c \in Range(node[n].children) : g[c] = {h[c]}
        BY <1>2, <1>5, <3>2
      <4> HIDE DEF Rule
      <4> QED BY <1>4, <3>2, <4>1
    <3> QED BY <3>1, <3>2
  <2> HIDE DEF Rule
  <2> QED BY <1>5, <2>1
<1>7. PICK f : f = CHOOSE e : Is(e)
  OBVIOUS
<1>8. Is(f)
  <2> HIDE DEF Is
  <2> QED BY <1>6, <1>7
<1>9. \A n \in D : f[n] = Rule(f, n)
  <2> HIDE DEF Rule
  <2> QED BY <1>8
<1>10. Depths = f[root]
  BY <1>7 DEF Depths
<1>11. f[root] = {h[root]}
  <2> SUFFICES ASSUME f[root] # {h[root]} PROVE FALSE
    OBVIOUS
  <2>1. PICK T : T = {m \in Nat : \E n \in D : h[n] = m /\ f[n] # {h[n]}}
    OBVIOUS
  <2>2. T \in SUBSET Nat /\ T # {}
    BY <1>1, <2>1
  <2>3. PICK m \in T : \A x \in T : m <= x
    BY <2>2, Least
  <2>4. PICK n \in D : h[n] = m /\ f[n] # {h[n]}
    BY <2>1
  <2>5. CASE node[n].is_leaf
    BY <1>3, <1>9, <2>4, <2>5
  <2>6. CASE ~node[n].is_leaf
    <3>1. ASSUME NEW c \in Range(node[n].children) PROVE f[c] = {h[c]}
      <4>1. c \in D /\ h[c] + 1 = m /\ h[c] \in Nat
        BY <1>1, <1>2, <2>4, <2>6
      <4>2. h[c] \notin T
        BY <2>2, <2>3, <4>1
      <4> QED BY <2>1, <4>1, <4>2
    <3>2. Rule(f, n) = {h[n]}
      BY <1>4, <2>6, <3>1
    <3> HIDE DEF Rule
    <3> QED BY <1>9, <2>4, <3>2
  <2> QED BY <2>5, <2>6
<1> QED BY <1>10, <1>11, FS_Singleton

\* The invariant implies the shape that the code relies on.
LEMMA IndexWellFormed == IndexInv => WellFormed
<1> SUFFICES ASSUME IndexInv, Intact, call = Idle
             PROVE  /\ Cardinality(Depths) = 1
                    /\ \A n \in DOMAIN node :
                         /\ IF n = root THEN node[n].parent = Null
                            ELSE /\ node[n].parent \in DOMAIN node
                                 /\ Cardinality({i \in DOMAIN node[node[n].parent].children :
                                                   node[node[n].parent].children[i] = n}) = 1
                         /\ Len(node[n].keys) <= MaxKeys
                         /\ node[n].is_leaf /\ n # root => Len(node[n].keys) >= MinKeys
  BY DEF WellFormed
<1>1. ~Gone /\ call.at = "idle"
  BY DEF Intact, Gone, Idle
<1>2. PICK h, lo, hi : Live(h, lo, hi)
  BY <1>1 DEF IndexInv
<1>3. Tree(node, root, h, lo, hi, Null, 0, Null)
  BY <1>1, <1>2, QuietTree
<1>4. Full(node, Null) /\ Filled(node, root, Null)
  BY <1>1, <1>2 DEF Live, Sound, Over, Short
<1>5. Typed(node) /\ node[root].parent = Null /\ Listed(node, root, Null)
  BY <1>3 DEF Tree, Levels
<1>6. ASSUME NEW n \in DOMAIN node, n # root
      PROVE  /\ node[n].parent \in DOMAIN node
             /\ Cardinality({i \in DOMAIN node[node[n].parent].children :
                               node[node[n].parent].children[i] = n}) = 1
  <2>1. PICK p, cs, S : p = node[n].parent /\ cs = node[p].children /\ S = {i \in DOMAIN cs : cs[i] = n}
    OBVIOUS
  <2>2. n # Null
    BY <1>5, NodeFacts
  <2>3. p \in DOMAIN node /\ node[p] \in InnerNodes /\ \E i \in 1 .. Len(cs) : cs[i] = n
    BY <1>5, <1>6, <2>1, <2>2 DEF Listed
  <2>4. cs \in Seq(Nodes)
    BY <1>5, <2>1, <2>3, InnerFacts
  <2>5. PICK i \in 1 .. Len(cs) : cs[i] = n
    BY <2>3
  <2>6. \A j \in 1 .. Len(cs) : cs[j] = n => j = i
    BY <1>3, <2>1, <2>3, <2>5, ChildrenDiffer
  <2>7. S = {i}
    BY <2>1, <2>4, <2>5, <2>6
  <2>8. Cardinality(S) = 1
    BY <2>7, FS_Singleton
  <2> QED BY <2>1, <2>3, <2>8
<1>7. ASSUME NEW n \in DOMAIN node
      PROVE  /\ Len(node[n].keys) <= MaxKeys
             /\ node[n].is_leaf /\ n # root => Len(node[n].keys) >= MinKeys
  <2>1. n # Null /\ (node[n] \in LeafNodes \/ node[n] \in InnerNodes)
    BY <1>5, NodeFacts
  <2>2. node[n].is_leaf => node[n] \in LeafNodes
    BY <1>5, <2>1, InnerFacts
  <2> QED BY <1>4, <2>1, <2>2 DEF Full, Filled
<1>8. Cardinality(Depths) = 1
  BY <1>3, OneDepth
<1> QED BY <1>5, <1>6, <1>7, <1>8

\* Between calls every leaf is equally deep, every node is once among the
\* children of the parent it points to, none has too many keys and no leaf but a
\* root too few.
THEOREM TreesWellFormed == Spec => []WellFormed
BY IndexHolds, IndexWellFormed, PTL

\* A scan that reaches the end has met what was there all the time, and nothing that never was.
LEMMA ScansEnd ==
  ASSUME IndexInv, Next, NEW s \in Scanning, scan'[s].leaf = Null
  PROVE  scan[s].always \subseteq Met(s) /\ Met(s) \subseteq scan[s].ever
<1>1. Kept(stored) /\ scan \in [Scanner -> ScanRecords] /\ ~Gone
  BY DEF IndexInv, Gone
<1>2. PICK h, lo, hi : Live(h, lo, hi)
  BY <1>1 DEF IndexInv
<1>3. s \in Scanner /\ scan[s].leaf # Null
  BY DEF Scanning
<1>4. /\ Tree(node, root, h, lo, hi, Null, 0, Null)
      /\ scan[s].leaf \in DOMAIN node /\ node[scan[s].leaf] \in LeafNodes
      /\ Met(s) \subseteq scan[s].ever
      /\ \A k \in scan[s].always : Below(k, hi[scan[s].leaf]) => k \in Met(s)
  BY <1>1, <1>2, ScanFacts
<1>5. scan' # scan
  BY <1>3
<1>6. ASSUME NEW st, scan' = Noted(st) PROVE FALSE
  <2>1. scan'[s] = [scan[s] EXCEPT !.always = @ \cap DOMAIN st, !.ever = @ \cup DOMAIN st]
    BY <1>3, <1>6 DEF Noted
  <2>2. scan[s] \in ScanRecords
    BY <1>1, <1>3
  <2>3. scan'[s].leaf = scan[s].leaf
    BY <2>1, <2>2 DEF ScanRecords
  <2> QED BY <1>3, <2>3
<1>7. ~Step
  <2>1. ~(merge_with_left \/ merge_with_right \/ MergeWithNone)
    BY <1>5 DEF merge_with_left, merge_with_right, MergeWithNone, Merge
  <2>2. ~(borrow_from_left \/ borrow_from_right \/ rebalance \/ Relock)
    BY <1>5 DEF borrow_from_left, borrow_from_right, rebalance, Relock
  <2>3. ~(split_leaf \/ NewRoot \/ insert_into_parent \/ split_internal)
    BY <1>5 DEF split_leaf, NewRoot, insert_into_parent, split_internal
  <2>4. ~(insert_into_leaf \/ delete_from_leaf)
    BY <1>6 DEF insert_into_leaf, delete_from_leaf
  <2> QED BY <2>1, <2>2, <2>3, <2>4 DEF Step
<1>8. PICK t \in Scanner : forEachKey(t) \/ ScanLeaf(t)
  <2>1. ~(\E k \in Key : remove(k)) /\ ~(\E e \in Entries : insert(e[1], e[2]))
    BY <1>5 DEF remove, insert
  <2> QED BY <1>7, <2>1 DEF Next
<1>9. ~forEachKey(t)
  BY <1>1, <1>3 DEF forEachKey
<1>10. ScanLeaf(s)
  <2>1. ScanLeaf(t)
    BY <1>8, <1>9
  <2>2. t = s
    BY <1>1, <1>3, <2>1 DEF ScanLeaf
  <2> QED BY <2>1, <2>2
<1>11. node[scan[s].leaf].next = Null
  <2>1. PICK x : x = node[scan[s].leaf].next
    OBVIOUS
  <2>2. scan[s] \in ScanRecords
    BY <1>1, <1>3
  <2>3. scan' = [scan EXCEPT ![s] = IF x = Null THEN NoScan ELSE [scan[s] EXCEPT !.leaf = x, !.met = Met(s)]]
    BY <1>10, <2>1 DEF ScanLeaf
  <2>4. x # Null => scan'[s].leaf = x
    BY <1>1, <1>3, <2>2, <2>3 DEF ScanRecords
  <2> QED BY <2>1, <2>4
<1>12. \A k : Below(k, hi[scan[s].leaf])
  BY <1>4, <1>11 DEF Tree, Chained, Below
<1> QED BY <1>4, <1>12

\* A scan that ends has met every key that was stored since it began, and none
\* that was stored at no time since, whatever was inserted and removed beside it.
THEOREM ScansComplete == Spec => ScanComplete
<1>1. IndexInv /\ [Next]_vars =>
        [\A s \in Scanning : scan'[s].leaf = Null =>
           scan[s].always \subseteq Met(s) /\ Met(s) \subseteq scan[s].ever]_vars
  BY ScansEnd
<1> QED BY <1>1, IndexHolds, PTL DEF Spec, ScanComplete

-----------------------------------------------------------------------------
(* The next pointers *)

\* The tree has finitely many nodes, however many addresses there are.
FiniteTree == IsFiniteSet(DOMAIN node)

\* A step adds a new node at most, beside the one that it splits.
LEMMA NodesAdded ==
  ASSUME Next
  PROVE  DOMAIN node' \subseteq (DOMAIN node \cup {call.node}) \cup {Fresh}
<1>1. CASE insert_into_leaf \/ insert_into_parent
  BY <1>1 DEF insert_into_leaf, insert_into_parent
<1>2. CASE split_leaf \/ NewRoot \/ split_internal
  <2>1. \A f, x, e : DOMAIN With(f, x, e) = DOMAIN f \cup {x}
    BY DEF With
  <2>2. CASE split_leaf
    <3>1. PICK nd, r : DOMAIN nd = DOMAIN node /\ node' = With(nd, Fresh, r)
      BY <2>2 DEF split_leaf
    <3> QED BY <2>1, <3>1
  <2>3. CASE NewRoot
    <3>1. PICK nd, r : DOMAIN nd = DOMAIN node /\ node' = With(nd, Fresh, r)
      BY <2>3 DEF NewRoot
    <3> QED BY <2>1, <3>1
  <2>4. CASE split_internal
    <3>1. PICK cs, n, r : node' = With(With(AdoptedBy(Fresh, cs), call.node, n), Fresh, r)
      BY <2>4 DEF split_internal
    <3>2. PICK nd, nd2 : nd = AdoptedBy(Fresh, cs) /\ nd2 = With(nd, call.node, n)
      OBVIOUS
    <3>3. node' = With(nd2, Fresh, r)
      BY <3>1, <3>2
    <3>4. DOMAIN nd = DOMAIN node
      BY <3>2 DEF AdoptedBy
    <3>5. DOMAIN nd2 = DOMAIN nd \cup {call.node}
      BY <2>1, <3>2
    <3>6. DOMAIN node' = DOMAIN nd2 \cup {Fresh}
      BY <2>1, <3>3
    <3> QED BY <3>4, <3>5, <3>6
  <2> QED BY <1>2, <2>2, <2>3, <2>4
<1>3. CASE delete_from_leaf
  BY <1>3 DEF delete_from_leaf
<1>4. CASE borrow_from_left \/ borrow_from_right
  BY <1>4 DEF borrow_from_left, borrow_from_right
<1>5. CASE merge_with_left \/ merge_with_right
  <2>1. PICK l, r, i : Merge(l, r, i)
    BY <1>5 DEF merge_with_left, merge_with_right
  <2>2. \A ns : DOMAIN Freed(ns) \subseteq DOMAIN node
    BY DEF Freed, Restrict
  <2> QED BY <2>1, <2>2 DEF Merge
<1>6. CASE rebalance \/ MergeWithNone \/ Relock
  BY <1>6 DEF rebalance, MergeWithNone, Relock
<1>7. CASE (\E k \in Key : remove(k)) \/ (\E e \in Entries : insert(e[1], e[2]))
  BY <1>7 DEF remove, insert
<1>8. CASE \E s \in Scanner : forEachKey(s) \/ ScanLeaf(s)
  BY <1>8 DEF forEachKey, ScanLeaf
<1> QED BY <1>1, <1>2, <1>3, <1>4, <1>5, <1>6, <1>7, <1>8 DEF Next, Step

\* There is an end to every way through the nodes.
THEOREM TreesFinite == Spec => []FiniteTree
<1>1. Init => FiniteTree
  BY FS_Singleton DEF Init, FiniteTree
<1>2. FiniteTree /\ [Next]_vars => FiniteTree'
  <2>1. ASSUME FiniteTree, Next PROVE FiniteTree'
    <3>1. IsFiniteSet((DOMAIN node \cup {call.node}) \cup {Fresh})
      BY <2>1, FS_AddElement DEF FiniteTree
    <3>2. DOMAIN node' \in SUBSET ((DOMAIN node \cup {call.node}) \cup {Fresh})
      BY <2>1, NodesAdded
    <3> QED BY <3>1, <3>2, FS_Subset DEF FiniteTree
  <2>2. UNCHANGED vars => DOMAIN node' = DOMAIN node
    BY DEF vars
  <2> QED BY <2>1, <2>2 DEF FiniteTree
<1> QED BY <1>1, <1>2, PTL DEF Spec

\* The next pointers are such a chain, and each leaf has the keys of its range.
LEMMA LeavesLinked ==
  ASSUME NEW h, NEW lo, NEW hi, Live(h, lo, hi), Kept(stored), FiniteTree,
         NEW D, D = LeavesOf(node), NEW End, End = {n \in D : node[n].next = Null},
         NEW s, s = [n \in D |-> IF n \in End THEN n ELSE node[n].next],
         NEW q, q = [n \in D |-> node[n].keys], NEW b, b = [n \in D |-> lo[n]]
  PROVE  Links(D, End, s, q, b, DOMAIN stored)
<1>1. PICK L, k, R : L = Left(call) /\ k = Middle(call) /\ R = Right(call)
  OBVIOUS
<1>2. Tree(node, root, h, lo, hi, L, k, R) /\ Held(node, lo, hi, stored)
  BY <1>1 DEF Live, Sound
<1>3. /\ Typed(node) /\ Chained(node, lo, hi) /\ Keyed(node, lo, hi) /\ Bounds(node, root, lo, hi, L, R)
  BY <1>2 DEF Tree
<1>4. lo \in [DOMAIN node -> Nat] /\ hi \in [DOMAIN node -> Nat] /\ \A n \in DOMAIN node : Below(lo[n], hi[n])
  BY <1>3 DEF Bounds
<1>5. DOMAIN stored \in SUBSET Nat
  BY TreeFacts DEF Kept
<1>6. D \in SUBSET DOMAIN node /\ \A n \in D : node[n] \in LeafNodes
  BY DEF LeavesOf
<1>7. IsFiniteSet(D) /\ End \in SUBSET D
  BY <1>6, FS_Subset DEF FiniteTree
<1>8. q \in [D -> Seq(Nat)] /\ b \in [D -> Nat]
  BY <1>3, <1>4, <1>6, NodeFacts
<1>9. ASSUME NEW n \in D \ End
      PROVE  /\ node[n].next \in D /\ s[n] = node[n].next
             /\ hi[n] # 0 /\ b[s[n]] = hi[n] /\ b[n] < b[s[n]]
  <2>1. /\ node[n].next \in DOMAIN node /\ node[node[n].next] \in LeafNodes
        /\ hi[n] # 0 /\ lo[node[n].next] = hi[n]
    BY <1>3, <1>6 DEF Chained
  <2>2. node[n].next \in D /\ s[n] = node[n].next
    BY <2>1 DEF LeavesOf
  <2>3. lo[n] < hi[n]
    BY <1>4, <1>6, <2>1 DEF Below
  <2> QED BY <2>1, <2>2, <2>3
<1>10. s \in [D -> D]
  BY <1>9
<1>11. ASSUME NEW n \in D
       PROVE  Ascending(q[n], {x \in DOMAIN stored : lo[n] <= x /\ Below(x, hi[n])})
  <2>1. PICK e : e = node[n].keys
    OBVIOUS
  <2>2. e \in Seq(Nat) /\ Sorted(e) /\ Holds(node, lo, hi, stored, n)
    BY <1>2, <1>3, <1>6, <2>1, NodeFacts DEF Keyed, Held
  <2>3. \A i \in 1 .. Len(e) : e[i] \in DOMAIN stored /\ lo[n] <= e[i] /\ Below(e[i], hi[n])
    BY <1>3, <1>6, <2>1, <2>2 DEF Keyed, Holds
  <2>4. \A x \in DOMAIN stored : lo[n] <= x /\ Below(x, hi[n]) => \E i \in 1 .. Len(e) : e[i] = x
    BY <2>1, <2>2 DEF Holds
  <2>5. Range(e) = {e[i] : i \in 1 .. Len(e)}
    <3>1. DOMAIN e = 1 .. Len(e)
      BY <2>2
    <3> QED BY <3>1, Zenon DEF Range
  <2>6. Range(e) = {x \in DOMAIN stored : lo[n] <= x /\ Below(x, hi[n])}
    BY ONLY <2>3, <2>4, <2>5
  <2>7. q[n] = e
    BY <2>1
  <2> QED BY <2>2, <2>6, <2>7 DEF Ascending
<1>12. ASSUME NEW n \in End PROVE Ascending(q[n], {x \in DOMAIN stored : b[n] <= x})
  <2>1. hi[n] = 0 /\ b[n] = lo[n]
    BY <1>3, <1>6 DEF Chained
  <2>2. {x \in DOMAIN stored : b[n] <= x} = {x \in DOMAIN stored : lo[n] <= x /\ Below(x, hi[n])}
    BY <2>1 DEF Below
  <2> QED BY <1>11, <2>2
<1>13. ASSUME NEW n \in D \ End
       PROVE  Ascending(q[n], {x \in DOMAIN stored : b[n] <= x /\ x < b[s[n]]})
  <2>1. b[n] = lo[n]
    OBVIOUS
  <2>2. {x \in DOMAIN stored : b[n] <= x /\ x < b[s[n]]}
        = {x \in DOMAIN stored : lo[n] <= x /\ Below(x, hi[n])}
    BY <1>9, <2>1 DEF Below
  <2> QED BY <1>11, <2>2
<1> QED BY <1>5, <1>7, <1>8, <1>9, <1>10, <1>12, <1>13 DEF Links

\* The invariant implies that the chain is complete and in order.
LEMMA IndexChained == IndexInv /\ FiniteTree => ChainInOrder
<1> SUFFICES ASSUME IndexInv, FiniteTree, Intact
             PROVE  /\ \A i, j \in 1 .. Len(ChainKeys) : i < j => ChainKeys[i] < ChainKeys[j]
                    /\ Range(ChainKeys) = DOMAIN stored
  BY DEF ChainInOrder
<1>1. Kept(stored) /\ ~Gone
  BY DEF IndexInv, Intact, Gone
<1>2. PICK h, lo, hi : Live(h, lo, hi)
  BY <1>1 DEF IndexInv
<1>3. PICK L, k, R : L = Left(call) /\ k = Middle(call) /\ R = Right(call)
  OBVIOUS
<1>4. Tree(node, root, h, lo, hi, L, k, R)
  BY <1>2, <1>3 DEF Live, Sound
<1>5. Typed(node)
  BY <1>4 DEF Tree
<1>6. PICK D, End : D = LeavesOf(node) /\ End = {n \in D : node[n].next = Null}
  OBVIOUS
<1>7. PICK s, q, b : /\ s = [n \in D |-> IF n \in End THEN n ELSE node[n].next]
                     /\ q = [n \in D |-> node[n].keys] /\ b = [n \in D |-> lo[n]]
  OBVIOUS
<1>8. Links(D, End, s, q, b, DOMAIN stored)
  BY <1>1, <1>2, <1>6, <1>7, LeavesLinked
<1>9. {m \in DOMAIN node : node[m].is_leaf} = D
  <2>1. \A m \in DOMAIN node : node[m].is_leaf <=> node[m] \in LeafNodes
    BY <1>5, NodeFacts, LeafFacts, InnerFacts
  <2> QED BY <1>6, <2>1 DEF LeavesOf
<1> DEFINE Is(g) == g = [n \in {m \in DOMAIN node : node[m].is_leaf} |->
                           node[n].keys \o (IF node[n].next = Null THEN << >> ELSE g[node[n].next])]
<1>10. ASSUME NEW g PROVE Is(g) <=> Follows(g, D, End, s, q)
  <2>1. \A n \in D : node[n].keys \o (IF node[n].next = Null THEN << >> ELSE g[node[n].next])
                     = q[n] \o (IF n \in End THEN << >> ELSE g[s[n]])
    BY <1>6, <1>7
  <2> QED BY <1>9, <2>1 DEF Follows
<1>11. PICK g : g = CHOOSE f : Is(f)
  OBVIOUS
<1>12. Is(g)
  <2>1. PICK f : Follows(f, D, End, s, q)
    BY <1>8, ChainEnds
  <2>2. Is(f)
    BY <1>10, <2>1
  <2> HIDE DEF Is
  <2> QED BY <1>11, <2>2
<1>13. ChainKeys = g[FirstLeaf]
  BY <1>11 DEF ChainKeys
<1>14. FirstLeaf \in D /\ b[FirstLeaf] = 0
  <2>1. FirstLeaf \in DOMAIN node /\ node[FirstLeaf] \in LeafNodes /\ lo[FirstLeaf] = 0
    BY <1>4, FirstLeafFacts
  <2> QED BY <1>6, <1>7, <2>1 DEF LeavesOf
<1>15. Follows(g, D, End, s, q)
  BY <1>10, <1>12
<1>16. Ascending(g[FirstLeaf], {x \in DOMAIN stored : b[FirstLeaf] <= x})
  BY <1>8, <1>14, <1>15, ChainAscends
<1>17. {x \in DOMAIN stored : b[FirstLeaf] <= x} = DOMAIN stored
  <2>1. \A x \in DOMAIN stored : x \in Nat
    BY <1>1, TreeFacts DEF Kept
  <2> QED BY <1>14, <2>1
<1>18. Sorted(ChainKeys) /\ Range(ChainKeys) = DOMAIN stored
  BY <1>13, <1>16, <1>17 DEF Ascending
<1> QED BY <1>18 DEF Sorted

\* A walk along the next pointers meets every stored key once, in increasing
\* order, also while a split has linked the new leaf and not yet told the parent.
THEOREM ChainsInOrder == Spec => []ChainInOrder
BY IndexHolds, TreesFinite, IndexChained, PTL

=============================================================================
