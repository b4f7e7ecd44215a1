------------------------ MODULE BPlusTreeShapeProofs -------------------------
(***************************************************************************)
(* What the operators of BPlusTree do to sequences, to a descent and to    *)
(* the nodes of a search tree, for every set of keys and values and every  *)
(* MAX_KEYS and MIN_KEYS that agree.  Nothing here is about a state:       *)
(* BPlusTreeProofs applies these lemmas to the steps.                      *)
(***************************************************************************)
EXTENDS BPlusTree, SequenceTheorems, FiniteSetTheorems, WellFoundedInduction, TLAPS

\* The assumption on the constants, in the form the proofs cite it.
LEMMA TreeFacts ==
  /\ Key \subseteq Nat /\ Nodes \subseteq Nat /\ Nodes # {} /\ Null \notin Nodes
  /\ MinKeys \in Nat /\ MaxKeys \in Nat /\ 0 < MinKeys /\ 2 * MinKeys <= MaxKeys
  /\ \A e \in Entries : e[1] \in Key /\ e[2] \in Value
BY TreeConstants

-----------------------------------------------------------------------------
(* Sequences *)

\* q with e put in at place i.
Inserted(q, i, e, p) ==
  /\ Len(p) = Len(q) + 1
  /\ \A j \in 1 .. Len(q) + 1 : p[j] = IF j < i THEN q[j] ELSE IF j = i THEN e ELSE q[j - 1]

\* vector::insert: one element more at place i, the others in their order.
LEMMA InsertAtFacts ==
  ASSUME NEW S, NEW q \in Seq(S), NEW i \in 1 .. Len(q) + 1, NEW e \in S
  PROVE  InsertAt(q, i, e) \in Seq(S) /\ Inserted(q, i, e, InsertAt(q, i, e))
<1> DEFINE a == SubSeq(q, 1, i - 1)
           b == SubSeq(q, i, Len(q))
           m == <<e>>
<1>1. PICK n \in Nat : n = Len(q)
  OBVIOUS
<1>2. i \in Nat /\ 1 <= i /\ i <= n + 1
  BY <1>1
<1>3. a \in Seq(S) /\ Len(a) = i - 1 /\ \A j \in 1 .. i - 1 : a[j] = q[j]
  <2>1. \A j \in 1 .. i - 1 : q[j] \in S
    BY <1>1, <1>2
  <2> QED BY <1>1, <1>2, <2>1, SubSeqProperties
<1>4. b \in Seq(S) /\ Len(b) = n - i + 1 /\ \A j \in 1 .. n - i + 1 : b[j] = q[i + j - 1]
  BY <1>1, <1>2, SubSeqProperties
<1>5. m \in Seq(S) /\ Len(m) = 1 /\ m[1] = e
  OBVIOUS
<1> HIDE DEF a, b, m
<1>6. PICK c : c = a \o m
  OBVIOUS
<1>7. c \in Seq(S) /\ Len(c) = i /\ \A j \in 1 .. i : c[j] = IF j < i THEN q[j] ELSE e
  <2>1. c \in Seq(S) /\ Len(c) = Len(a) + Len(m)
        /\ \A j \in 1 .. Len(a) + Len(m) : c[j] = IF j <= Len(a) THEN a[j] ELSE m[j - Len(a)]
    BY <1>3, <1>5, <1>6, ConcatProperties
  <2>2. ASSUME NEW j \in 1 .. i PROVE c[j] = IF j < i THEN q[j] ELSE e
    <3>1. CASE j < i
      BY <1>2, <1>3, <1>5, <2>1, <3>1
    <3>2. CASE j = i
      <4>1. c[j] = m[1]
        BY <1>2, <1>3, <1>5, <2>1, <3>2
      <4> QED BY <4>1, <3>2, <1>5, <1>2
    <3> QED BY <1>2, <3>1, <3>2
  <2> QED BY <1>2, <1>3, <1>5, <2>1, <2>2
<1>8. PICK p : p = c \o b
  OBVIOUS
<1>9. p = InsertAt(q, i, e)
  BY <1>6, <1>8, Zenon DEF InsertAt, a, b, m
<1>10. p \in Seq(S) /\ Len(p) = Len(c) + Len(b)
       /\ \A j \in 1 .. Len(c) + Len(b) : p[j] = IF j <= Len(c) THEN c[j] ELSE b[j - Len(c)]
  BY <1>4, <1>7, <1>8, ConcatProperties
<1>11. Len(p) = n + 1
  BY <1>2, <1>4, <1>7, <1>10
<1>12. ASSUME NEW j \in 1 .. n + 1
       PROVE  p[j] = IF j < i THEN q[j] ELSE IF j = i THEN e ELSE q[j - 1]
  <2>1. CASE j <= i
    BY <1>2, <1>4, <1>7, <1>10, <2>1
  <2>2. CASE ~(j <= i)
    <3>1. p[j] = b[j - i] /\ j - i \in 1 .. n - i + 1 /\ i + (j - i) - 1 = j - 1
      BY <1>2, <1>4, <1>7, <1>10, <2>2
    <3>2. b[j - i] = q[j - 1]
      BY <1>4, <3>1
    <3> QED BY <1>2, <2>2, <3>1, <3>2
  <2> QED BY <2>1, <2>2
<1> QED BY <1>1, <1>9, <1>10, <1>11, <1>12 DEF Inserted

\* q without the element at place i.
Removed(q, i, p) ==
  /\ Len(p) = Len(q) - 1
  /\ \A j \in 1 .. Len(q) - 1 : p[j] = IF j < i THEN q[j] ELSE q[j + 1]

\* vector::erase: the element at place i gone, the others in their order.
LEMMA RemoveAtFacts ==
  ASSUME NEW S, NEW q \in Seq(S), NEW i \in 1 .. Len(q)
  PROVE  RemoveAt(q, i) \in Seq(S) /\ Removed(q, i, RemoveAt(q, i))
<1> DEFINE a == SubSeq(q, 1, i - 1)
           b == SubSeq(q, i + 1, Len(q))
<1>1. PICK n \in Nat : n = Len(q)
  OBVIOUS
<1>2. i \in Nat /\ 1 <= i /\ i <= n
  BY <1>1
<1>3. a \in Seq(S) /\ Len(a) = i - 1 /\ \A j \in 1 .. i - 1 : a[j] = q[j]
  <2>1. \A j \in 1 .. i - 1 : q[j] \in S
    BY <1>1, <1>2
  <2> QED BY <1>1, <1>2, <2>1, SubSeqProperties
<1>4. b \in Seq(S) /\ Len(b) = n - i /\ \A j \in 1 .. n - i : b[j] = q[i + j]
  <2>1. \A j \in i + 1 .. n : q[j] \in S
    BY <1>1, <1>2
  <2>2. \A j \in 1 .. n - i : (i + 1) + j - 1 = i + j
    BY <1>2
  <2> QED BY <1>1, <1>2, <2>1, <2>2, SubSeqProperties
<1> HIDE DEF a, b
<1>5. PICK p : p = a \o b
  OBVIOUS
<1>6. p = RemoveAt(q, i)
  BY <1>5, Zenon DEF RemoveAt, a, b
<1>7. p \in Seq(S) /\ Len(p) = Len(a) + Len(b)
      /\ \A j \in 1 .. Len(a) + Len(b) : p[j] = IF j <= Len(a) THEN a[j] ELSE b[j - Len(a)]
  BY <1>3, <1>4, <1>5, ConcatProperties
<1>8. Len(p) = n - 1
  BY <1>2, <1>3, <1>4, <1>7
<1>9. ASSUME NEW j \in 1 .. n - 1 PROVE p[j] = IF j < i THEN q[j] ELSE q[j + 1]
  <2>1. CASE j < i
    BY <1>2, <1>3, <1>4, <1>7, <2>1
  <2>2. CASE ~(j < i)
    <3>1. p[j] = b[j - (i - 1)] /\ j - (i - 1) \in 1 .. n - i /\ i + (j - (i - 1)) = j + 1
      BY <1>2, <1>3, <1>4, <1>7, <2>2
    <3>2. b[j - (i - 1)] = q[j + 1]
      BY <1>4, <3>1
    <3> QED BY <2>2, <3>1, <3>2
  <2> QED BY <2>1, <2>2
<1> QED BY <1>1, <1>6, <1>7, <1>8, <1>9 DEF Removed

\* The part of q from place a to place b.
Part(q, a, b, p) ==
  /\ Len(p) = b - a + 1
  /\ \A j \in 1 .. b - a + 1 : p[j] = q[j + (a - 1)]

\* A vector built from a range of another.
LEMMA PartFacts ==
  ASSUME NEW S, NEW q \in Seq(S), NEW a \in Nat, NEW b \in Nat,
         1 <= a, a <= b + 1, b <= Len(q)
  PROVE  SubSeq(q, a, b) \in Seq(S) /\ Part(q, a, b, SubSeq(q, a, b))
<1>1. PICK n \in Nat : n = Len(q)
  OBVIOUS
<1>2. \A j \in a .. b : q[j] \in S
  BY <1>1
<1>3. PICK p : p = SubSeq(q, a, b)
  OBVIOUS
<1>4. /\ p \in Seq(S) /\ Len(p) = IF a <= b THEN b - a + 1 ELSE 0
      /\ \A j \in 1 .. b - a + 1 : p[j] = q[a + j - 1]
  BY <1>1, <1>2, <1>3, SubSeqProperties
<1>5. \A j \in 1 .. b - a + 1 : a + j - 1 = j + (a - 1)
  OBVIOUS
<1>6. Len(p) = b - a + 1
  BY <1>4
<1> QED BY <1>3, <1>4, <1>5, <1>6 DEF Part

\* p followed by r.
Joined(p, r, q) ==
  /\ Len(q) = Len(p) + Len(r)
  /\ \A j \in 1 .. Len(p) : q[j] = p[j]
  /\ \A j \in 1 .. Len(r) : q[Len(p) + j] = r[j]

\* A vector with another appended.
LEMMA JoinFacts ==
  ASSUME NEW S, NEW p \in Seq(S), NEW r \in Seq(S)
  PROVE  p \o r \in Seq(S) /\ Joined(p, r, p \o r)
<1>1. PICK q : q = p \o r
  OBVIOUS
<1>2. PICK m \in Nat, n \in Nat : m = Len(p) /\ n = Len(r)
  OBVIOUS
<1>3. q \in Seq(S) /\ Len(q) = m + n
      /\ \A j \in 1 .. m + n : q[j] = IF j <= m THEN p[j] ELSE r[j - m]
  BY <1>1, <1>2, ConcatProperties
<1>4. \A j \in 1 .. m : q[j] = p[j]
  BY <1>3
<1>5. ASSUME NEW j \in 1 .. n PROVE q[m + j] = r[j]
  <2>1. m + j \in 1 .. m + n /\ ~(m + j <= m) /\ (m + j) - m = j
    OBVIOUS
  <2> QED BY <1>3, <2>1
<1> QED BY <1>1, <1>2, <1>3, <1>4, <1>5 DEF Joined

-----------------------------------------------------------------------------
(* Searching *)

\* A nonempty set of naturals has a least element: induction on heights and positions rests on it.
LEMMA Least ==
  ASSUME NEW T \in SUBSET Nat, T # {}
  PROVE  \E m \in T : \A x \in T : m <= x
<1>1. PICK m \in T : \A y \in T : ~(<<y, m>> \in OpToRel(<, Nat))
  BY NatLessThanWellFounded, WFMin
<1>2. \A y \in T : ~(y < m)
  BY <1>1 DEF OpToRel
<1> QED BY <1>2

Sorted(q) == \A i, j \in 1 .. Len(q) : i < j => q[i] < q[j]

\* i is the place in q of the first key above k, or the end.
IsFirstGreater(q, k, i) ==
  /\ i \in 1 .. Len(q) + 1
  /\ \A j \in 1 .. i - 1 : q[j] <= k
  /\ i <= Len(q) => q[i] > k

\* std::upper_bound on any sequence of naturals.
LEMMA FirstGreaterFacts ==
  ASSUME NEW q \in Seq(Nat), NEW k \in Nat
  PROVE  IsFirstGreater(q, k, FirstGreater(q, k))
<1>1. PICK n \in Nat : n = Len(q)
  OBVIOUS
<1>2. PICK T : T = {i \in 1 .. n + 1 : i = n + 1 \/ q[i] > k}
  OBVIOUS
<1>3. T \in SUBSET Nat /\ n + 1 \in T
  BY <1>2
<1>4. PICK m \in T : \A x \in T : m <= x
  BY <1>3, Least
<1>5. m \in 1 .. n + 1 /\ (m <= n => q[m] > k)
  BY <1>2
<1>6. ASSUME NEW j \in 1 .. m - 1 PROVE q[j] <= k
  <2>1. j \notin T /\ j \in 1 .. n
    BY <1>4, <1>5
  <2>2. ~(q[j] > k) /\ q[j] \in Nat
    BY <1>1, <1>2, <2>1
  <2> QED BY <2>2
<1>7. \E i \in 1 .. Len(q) + 1 :
        (\A j \in 1 .. i - 1 : q[j] <= k) /\ (i <= Len(q) => q[i] > k)
  BY <1>1, <1>5, <1>6
<1> QED BY <1>7 DEF FirstGreater, IsFirstGreater

\* i is the place in q of the first key that is not below k, or the end.
IsLowerBound(q, k, i) ==
  /\ i \in 1 .. Len(q) + 1
  /\ \A j \in 1 .. i - 1 : q[j] < k
  /\ i <= Len(q) => q[i] >= k

\* std::lower_bound on any sequence of naturals.
LEMMA LowerBoundFacts ==
  ASSUME NEW q \in Seq(Nat), NEW k \in Nat
  PROVE  IsLowerBound(q, k, LowerBound(q, k))
<1>1. PICK n \in Nat : n = Len(q)
  OBVIOUS
<1>2. PICK T : T = {i \in 1 .. n + 1 : i = n + 1 \/ q[i] >= k}
  OBVIOUS
<1>3. T \in SUBSET Nat /\ n + 1 \in T
  BY <1>2
<1>4. PICK m \in T : \A x \in T : m <= x
  BY <1>3, Least
<1>5. m \in 1 .. n + 1 /\ (m <= n => q[m] >= k)
  BY <1>2
<1>6. ASSUME NEW j \in 1 .. m - 1 PROVE q[j] < k
  <2>1. j \notin T /\ j \in 1 .. n
    BY <1>4, <1>5
  <2>2. ~(q[j] >= k) /\ q[j] \in Nat
    BY <1>1, <1>2, <2>1
  <2> QED BY <2>2
<1>7. \E i \in 1 .. Len(q) + 1 :
        (\A j \in 1 .. i - 1 : q[j] < k) /\ (i <= Len(q) => q[i] >= k)
  BY <1>1, <1>5, <1>6
<1> QED BY <1>7 DEF LowerBound, IsLowerBound

\* Find tells whether x is in q, and where.
LEMMA FindFacts ==
  ASSUME NEW S, NEW q \in Seq(S), NEW x
  PROVE  /\ Find(q, x) = 0 <=> \A i \in 1 .. Len(q) : q[i] # x
         /\ Find(q, x) # 0 => Find(q, x) \in 1 .. Len(q) /\ q[Find(q, x)] = x
<1>1. PICK n \in Nat : n = Len(q) /\ DOMAIN q = 1 .. n
  OBVIOUS
<1>2. CASE \E i \in 1 .. n : q[i] = x
  <2>1. PICK T : T = {i \in 1 .. n : q[i] = x}
    OBVIOUS
  <2>2. T \in SUBSET Nat /\ T # {}
    BY <1>2, <2>1
  <2>3. PICK m \in T : \A y \in T : m <= y
    BY <2>2, Least
  <2>4. m \in 1 .. n /\ q[m] = x
    BY <2>1
  <2>5. \A j \in 1 .. m - 1 : q[j] # x
    <3> SUFFICES ASSUME NEW j \in 1 .. m - 1, q[j] = x PROVE FALSE
      OBVIOUS
    <3>1. j \in T /\ j < m
      BY <2>1, <2>4
    <3> QED BY <2>3, <2>4, <3>1
  <2>6. \E i \in DOMAIN q : q[i] = x /\ \A j \in 1 .. i - 1 : q[j] # x
    BY <1>1, <2>4, <2>5
  <2>7. Find(q, x) \in DOMAIN q /\ q[Find(q, x)] = x
    BY <1>1, <1>2, <2>6 DEF Find
  <2> QED BY <1>1, <2>7
<1>3. CASE ~(\E i \in 1 .. n : q[i] = x)
  <2>1. Find(q, x) = 0
    BY <1>1, <1>3 DEF Find
  <2> QED BY <1>1, <1>3, <2>1
<1> QED BY <1>2, <1>3

\* The places of a key and of its neighbours, in a sorted sequence.
LEMMA SortedStep ==
  ASSUME NEW q \in Seq(Nat), Sorted(q), NEW i \in 1 .. Len(q), NEW j \in 1 .. Len(q)
  PROVE  (i < j => q[i] < q[j]) /\ (i <= j => q[i] <= q[j]) /\ (q[i] < q[j] => i < j)
<1>1. q[i] \in Nat /\ q[j] \in Nat /\ i \in Nat /\ j \in Nat
  OBVIOUS
<1>2. i < j => q[i] < q[j]
  BY DEF Sorted
<1>3. j < i => q[j] < q[i]
  BY DEF Sorted
<1> QED BY <1>1, <1>2, <1>3

-----------------------------------------------------------------------------
(* The tree.  The nodes nd are a parameter, so that what a step does to them   *)
(* is said without primes.  h is the height of a node above the leaves; lo and *)
(* hi bound the keys that a descent brings to a node, from lo (included) to hi *)
(* (excluded; 0 is no bound).  Between a split and the entry in the parent the *)
(* new node R, which takes the upper part of L, is in no list of children; at  *)
(* other times L and R are Null.                                               *)

LeafNodes ==
  [is_leaf : {TRUE}, keys : Seq(Key), values : Seq(Value), next : Nodes \cup {Null},
   parent : Nodes \cup {Null}]

InnerNodes ==
  [is_leaf : {FALSE}, keys : Seq(Key), children : Seq(Nodes), parent : Nodes \cup {Null}]

Typed(nd) ==
  /\ DOMAIN nd \subseteq Nodes
  /\ \A n \in DOMAIN nd : nd[n] \in LeafNodes \cup InnerNodes
  /\ \A n \in DOMAIN nd : nd[n] \in LeafNodes => Len(nd[n].values) = Len(nd[n].keys)
  /\ \A n \in DOMAIN nd : nd[n] \in InnerNodes => Len(nd[n].children) = Len(nd[n].keys) + 1

Below(k, bound) == bound = 0 \/ k < bound

\* The upper bound of what the node n, and R while it is of n, take together.
Top(hi, L, R, n) == IF n = L THEN hi[R] ELSE hi[n]

Levels(nd, r, h) ==
  /\ r \in DOMAIN nd /\ nd[r].parent = Null
  /\ h \in [DOMAIN nd -> Nat]
  /\ \A n \in DOMAIN nd : h[n] <= h[r]
  /\ \A n \in DOMAIN nd : h[n] = 0 <=> nd[n] \in LeafNodes

Bounds(nd, r, lo, hi, L, R) ==
  /\ lo \in [DOMAIN nd -> Nat] /\ hi \in [DOMAIN nd -> Nat]
  /\ lo[r] = 0 /\ Top(hi, L, R, r) = 0
  /\ \A n \in DOMAIN nd : Below(lo[n], hi[n])

\* Two nodes of one level have no key in common.
Apart(nd, h, lo, hi) ==
  \A m, n \in DOMAIN nd :
    m # n /\ h[m] = h[n] => (hi[m] # 0 /\ hi[m] <= lo[n]) \/ (hi[n] # 0 /\ hi[n] <= lo[m])

Keyed(nd, lo, hi) ==
  \A n \in DOMAIN nd :
    /\ Sorted(nd[n].keys)
    /\ \A i \in 1 .. Len(nd[n].keys) :
         /\ lo[n] <= nd[n].keys[i] /\ Below(nd[n].keys[i], hi[n])
         /\ nd[n] \in InnerNodes => lo[n] < nd[n].keys[i]

\* The i-th child lies between the keys beside it.
Child(nd, h, lo, hi, L, R, n, i) ==
  LET c == nd[n].children[i]
  IN  /\ c \in DOMAIN nd /\ c # R /\ nd[c].parent = n /\ h[c] + 1 = h[n]
      /\ lo[c] = IF i = 1 THEN lo[n] ELSE nd[n].keys[i - 1]
      /\ Top(hi, L, R, c) = IF i = Len(nd[n].children) THEN hi[n] ELSE nd[n].keys[i]

Kids(nd, h, lo, hi, L, R) ==
  \A n \in DOMAIN nd : nd[n] \in InnerNodes =>
    \A i \in 1 .. Len(nd[n].children) : Child(nd, h, lo, hi, L, R, n, i)

Listed(nd, r, R) ==
  \A n \in DOMAIN nd : n # r /\ n # R =>
    /\ nd[n].parent \in DOMAIN nd /\ nd[nd[n].parent] \in InnerNodes
    /\ \E i \in 1 .. Len(nd[nd[n].parent].children) : nd[nd[n].parent].children[i] = n

\* The leaf that follows begins where this one ends.
Chained(nd, lo, hi) ==
  \A n \in DOMAIN nd : nd[n] \in LeafNodes =>
    IF nd[n].next = Null THEN hi[n] = 0
    ELSE /\ nd[n].next \in DOMAIN nd /\ nd[nd[n].next] \in LeafNodes
         /\ hi[n] # 0 /\ lo[nd[n].next] = hi[n]

Pending(nd, r, h, lo, hi, L, k, R) ==
  R # Null =>
    /\ L \in DOMAIN nd /\ R \in DOMAIN nd /\ L # R /\ R # r /\ h[L] = h[R]
    /\ nd[L].parent = nd[R].parent
    /\ k \in Key /\ k # 0 /\ hi[L] = k /\ lo[R] = k

\* The tree, with the new node R that has been split from L at the key k.
Tree(nd, r, h, lo, hi, L, k, R) ==
  /\ Typed(nd) /\ Levels(nd, r, h) /\ Bounds(nd, r, lo, hi, L, R) /\ Apart(nd, h, lo, hi)
  /\ Keyed(nd, lo, hi) /\ Kids(nd, h, lo, hi, L, R) /\ Listed(nd, r, R)
  /\ Chained(nd, lo, hi) /\ Pending(nd, r, h, lo, hi, L, k, R)
  /\ (L = Null <=> R = Null)

\* Keys are naturals.
LEMMA KeySeq ==
  ASSUME NEW q \in Seq(Key)
  PROVE  q \in Seq(Nat) /\ Len(q) \in Nat
<1>1. Key \subseteq Nat
  BY TreeFacts
<1>2. q \in Seq(Nat)
  BY <1>1, SeqMonotonic
<1> QED BY <1>2

\* What holds of one node.
LEMMA NodeFacts ==
  ASSUME NEW nd, Typed(nd), NEW n \in DOMAIN nd
  PROVE  /\ n \in Nodes /\ n # Null /\ n \in Nat
         /\ nd[n].keys \in Seq(Key) /\ nd[n].keys \in Seq(Nat)
         /\ nd[n].parent \in Nodes \cup {Null}
         /\ (nd[n] \in LeafNodes \/ nd[n] \in InnerNodes)
         /\ ~(nd[n] \in LeafNodes /\ nd[n] \in InnerNodes)
         /\ Len(nd[n].keys) \in Nat
<1>1. n \in Nodes /\ n # Null /\ n \in Nat
  BY TreeFacts DEF Typed
<1>2. nd[n] \in LeafNodes \/ nd[n] \in InnerNodes
  BY DEF Typed
<1>3. nd[n].keys \in Seq(Key) /\ nd[n].parent \in Nodes \cup {Null}
  BY <1>2 DEF LeafNodes, InnerNodes
<1>4. nd[n].keys \in Seq(Nat) /\ Len(nd[n].keys) \in Nat
  BY <1>3, KeySeq
<1>5. ~(nd[n] \in LeafNodes /\ nd[n] \in InnerNodes)
  BY DEF LeafNodes, InnerNodes
<1> QED BY <1>1, <1>2, <1>3, <1>4, <1>5

\* The fields of a leaf.
LEMMA LeafFacts ==
  ASSUME NEW nd, Typed(nd), NEW n \in DOMAIN nd, nd[n] \in LeafNodes
  PROVE  /\ nd[n].is_leaf
         /\ nd[n].values \in Seq(Value) /\ nd[n].next \in Nodes \cup {Null}
         /\ Len(nd[n].values) = Len(nd[n].keys)
<1>1. Len(nd[n].values) = Len(nd[n].keys)
  BY DEF Typed
<1> QED BY <1>1 DEF LeafNodes

\* The fields of an internal node.
LEMMA InnerFacts ==
  ASSUME NEW nd, Typed(nd), NEW n \in DOMAIN nd, nd[n] \in InnerNodes
  PROVE  /\ ~nd[n].is_leaf
         /\ nd[n].children \in Seq(Nodes)
         /\ Len(nd[n].children) = Len(nd[n].keys) + 1
<1>1. Len(nd[n].children) = Len(nd[n].keys) + 1
  BY DEF Typed
<1> QED BY <1>1 DEF InnerNodes

-----------------------------------------------------------------------------
(* Descending *)

\* From every node of height m or less, s leads down to a leaf.
LeadsDown(D, Leaves, h, s, m) ==
  \E g \in [{n \in D : h[n] <= m} -> Leaves] :
    \A n \in {x \in D : h[x] <= m} : g[n] = IF n \in Leaves THEN n ELSE g[s[n]]

\* A step function that goes down in height ends in a leaf: by a least height where it would not.
LEMMA DescentTo ==
  ASSUME NEW D, NEW Leaves \in SUBSET D, NEW h \in [D -> Nat], NEW s \in [D -> D],
         \A n \in D \ Leaves : h[s[n]] < h[n]
  PROVE  \A m \in Nat : LeadsDown(D, Leaves, h, s, m)
<1> DEFINE Low(m) == {n \in D : h[n] <= m}
           Good(m) == \E g \in [Low(m) -> Leaves] :
                        \A n \in Low(m) : g[n] = IF n \in Leaves THEN n ELSE g[s[n]]
<1>1. Good(0)
  <2>1. \A n \in Low(0) : n \in Leaves
    BY Z3
  <2>2. PICK g : g = [n \in Low(0) |-> n]
    OBVIOUS
  <2>3. g \in [Low(0) -> Leaves]
    BY <2>1, <2>2
  <2>4. \A n \in Low(0) : g[n] = IF n \in Leaves THEN n ELSE g[s[n]]
    BY <2>1, <2>2
  <2> QED BY <2>3, <2>4
<1>2. ASSUME NEW m \in Nat, Good(m) PROVE Good(m + 1)
  <2>1. PICK g \in [Low(m) -> Leaves] :
          \A n \in Low(m) : g[n] = IF n \in Leaves THEN n ELSE g[s[n]]
    BY <1>2
  <2>2. \A n \in Low(m + 1) : n \notin Leaves => s[n] \in Low(m)
    BY Z3
  <2>3. PICK f : f = [n \in Low(m + 1) |-> IF n \in Leaves THEN n ELSE g[s[n]]]
    OBVIOUS
  <2>4. Low(m) \subseteq Low(m + 1)
    OBVIOUS
  <2> HIDE DEF Low
  <2>5. f \in [Low(m + 1) -> Leaves]
    BY <2>1, <2>2, <2>3
  <2>6. \A n \in Low(m) : f[n] = g[n]
    BY <2>1, <2>3, <2>4
  <2>7. \A n \in Low(m + 1) : f[n] = IF n \in Leaves THEN n ELSE f[s[n]]
    BY <2>2, <2>3, <2>6
  <2> QED BY <2>5, <2>7
<1> HIDE DEF Good
<1>3. \A m \in Nat : Good(m)
  <2> SUFFICES ASSUME NEW b \in Nat, ~Good(b) PROVE FALSE
    OBVIOUS
  <2>1. PICK T : T = {m \in Nat : ~Good(m)}
    OBVIOUS
  <2>2. T \in SUBSET Nat /\ T # {}
    BY <2>1
  <2>3. PICK m \in T : \A x \in T : m <= x
    BY <2>2, Least
  <2>4. m \in Nat /\ ~Good(m) /\ m # 0
    BY <1>1, <2>1, <2>3
  <2>5. m - 1 \in Nat /\ (m - 1) + 1 = m /\ ~(m <= m - 1)
    BY <2>4
  <2>6. Good(m - 1)
    BY <2>1, <2>3, <2>5
  <2> QED BY <1>2, <2>4, <2>5, <2>6
<1> QED BY <1>3 DEF Good, LeadsDown

LeadsAll(D, Leaves, s) ==
  \E g \in [D -> Leaves] : g = [n \in D |-> IF n \in Leaves THEN n ELSE g[s[n]]]

\* A way down the tree that the code takes step by step ends in a leaf.
LEMMA DescentEnds ==
  ASSUME NEW D, NEW Leaves \in SUBSET D, NEW h \in [D -> Nat], NEW s \in [D -> D],
         \A n \in D \ Leaves : h[s[n]] < h[n],
         NEW top \in Nat, \A n \in D : h[n] <= top
  PROVE  LeadsAll(D, Leaves, s)
<1>1. PICK g \in [{n \in D : h[n] <= top} -> Leaves] :
        \A n \in {x \in D : h[x] <= top} : g[n] = IF n \in Leaves THEN n ELSE g[s[n]]
  <2>1. LeadsDown(D, Leaves, h, s, top)
    BY DescentTo
  <2> QED BY <2>1 DEF LeadsDown
<1>2. {n \in D : h[n] <= top} = D
  OBVIOUS
<1>3. g \in [D -> Leaves] /\ \A n \in D : g[n] = IF n \in Leaves THEN n ELSE g[s[n]]
  BY <1>1, <1>2
<1> QED BY <1>3 DEF LeadsAll

\* What holds on the way down holds of the leaf.
LEMMA DescentKeeps ==
  ASSUME NEW D, NEW Leaves \in SUBSET D, NEW h \in [D -> Nat], NEW s \in [D -> D],
         \A n \in D \ Leaves : h[s[n]] < h[n],
         NEW g, g = [n \in D |-> IF n \in Leaves THEN n ELSE g[s[n]]],
         NEW P \in SUBSET D, \A n \in P \ Leaves : s[n] \in P,
         NEW a \in P
  PROVE  g[a] \in P \cap Leaves
<1>1. \A n \in D : g[n] = IF n \in Leaves THEN n ELSE g[s[n]]
  OBVIOUS
<1> SUFFICES ASSUME g[a] \notin P \cap Leaves PROVE FALSE
  OBVIOUS
<1>2. PICK T : T = {m \in Nat : \E n \in P : h[n] = m /\ g[n] \notin P \cap Leaves}
  OBVIOUS
<1>3. T \in SUBSET Nat /\ h[a] \in T
  BY <1>2
<1>4. PICK m \in T : \A x \in T : m <= x
  BY <1>3, Least
<1>5. PICK n \in P : h[n] = m /\ g[n] \notin P \cap Leaves
  BY <1>2
<1>6. n \notin Leaves
  BY <1>1, <1>5
<1>7. s[n] \in P /\ g[n] = g[s[n]] /\ h[s[n]] < h[n] /\ h[s[n]] \in Nat
  BY <1>1, <1>6
<1>8. h[s[n]] \in T
  BY <1>2, <1>5, <1>7
<1> QED BY <1>3, <1>4, <1>5, <1>7, <1>8

\* Two nodes of a level that both take a key are one.
LEMMA OneTaker ==
  ASSUME NEW nd, NEW h, NEW lo, NEW hi, Apart(nd, h, lo, hi),
         lo \in [DOMAIN nd -> Nat], hi \in [DOMAIN nd -> Nat],
         NEW m \in DOMAIN nd, NEW n \in DOMAIN nd, h[m] = h[n],
         NEW k \in Nat, lo[m] <= k, Below(k, hi[m]), lo[n] <= k, Below(k, hi[n])
  PROVE  m = n
<1>1. lo[m] \in Nat /\ hi[m] \in Nat /\ lo[n] \in Nat /\ hi[n] \in Nat
  OBVIOUS
<1> QED BY <1>1 DEF Apart, Below

\* A child of an inner node.
LEMMA ChildFacts ==
  ASSUME NEW nd, NEW h, NEW lo, NEW hi, NEW L, NEW R, Typed(nd), Kids(nd, h, lo, hi, L, R),
         NEW n \in DOMAIN nd, nd[n] \in InnerNodes, NEW i \in 1 .. Len(nd[n].children)
  PROVE  Child(nd, h, lo, hi, L, R, n, i)
BY DEF Kids

\* The child that a key is sought in takes that key.
LEMMA ChildFor ==
  ASSUME NEW nd, NEW r, NEW h, NEW lo, NEW hi, Tree(nd, r, h, lo, hi, Null, 0, Null),
         NEW n \in DOMAIN nd, nd[n] \in InnerNodes,
         NEW k \in Nat, lo[n] <= k, Below(k, hi[n]), NEW i, i = FirstGreater(nd[n].keys, k)
  PROVE  /\ i \in 1 .. Len(nd[n].children)
         /\ lo[nd[n].children[i]] <= k /\ Below(k, hi[nd[n].children[i]])
<1>1. Typed(nd) /\ Kids(nd, h, lo, hi, Null, Null)
  BY DEF Tree
<1>2. PICK q \in Seq(Nat), m \in Nat : q = nd[n].keys /\ m = Len(q)
  BY <1>1, NodeFacts
<1>3. Len(nd[n].children) = m + 1
  BY <1>1, <1>2, InnerFacts
<1>4. IsFirstGreater(q, k, i)
  BY <1>2, FirstGreaterFacts
<1>5. i \in 1 .. m + 1 /\ (\A j \in 1 .. i - 1 : q[j] <= k) /\ (i <= m => q[i] > k)
  BY <1>2, <1>4 DEF IsFirstGreater
<1>6. PICK c : c = nd[n].children[i]
  OBVIOUS
<1>7. Child(nd, h, lo, hi, Null, Null, n, i)
  BY <1>1, <1>3, <1>5, ChildFacts
<1>8. /\ c \in DOMAIN nd /\ lo[c] = IF i = 1 THEN lo[n] ELSE q[i - 1]
      /\ Top(hi, Null, Null, c) = IF i = m + 1 THEN hi[n] ELSE q[i]
  BY <1>2, <1>3, <1>6, <1>7 DEF Child
<1>9. Top(hi, Null, Null, c) = hi[c]
  BY <1>1, <1>8, NodeFacts DEF Top
<1>10. lo[c] <= k
  <2>1. CASE i = 1
    BY <1>8, <2>1
  <2>2. CASE i # 1
    BY <1>5, <1>8, <2>2
  <2> QED BY <2>1, <2>2
<1>11. Below(k, hi[c])
  <2>1. CASE i = m + 1
    BY <1>8, <1>9, <2>1
  <2>2. CASE i # m + 1
    BY <1>2, <1>5, <1>8, <1>9, <2>2 DEF Below
  <2> QED BY <2>1, <2>2
<1> QED BY <1>3, <1>5, <1>6, <1>10, <1>11

\* The leaves, and the step down to a child that pick chooses.
LeavesOf(nd) == {n \in DOMAIN nd : nd[n] \in LeafNodes}

\* A function that follows children is such a step function.
LEMMA StepsDown ==
  ASSUME NEW nd, NEW r, NEW h, NEW lo, NEW hi, NEW L, NEW k, NEW R,
         Tree(nd, r, h, lo, hi, L, k, R),
         NEW s, s = [n \in DOMAIN nd |-> IF n \in LeavesOf(nd) THEN n ELSE s[n]],
         \A n \in DOMAIN nd \ LeavesOf(nd) :
           \E i \in 1 .. Len(nd[n].children) : s[n] = nd[n].children[i]
  PROVE  /\ LeavesOf(nd) \in SUBSET DOMAIN nd /\ h \in [DOMAIN nd -> Nat] /\ s \in [DOMAIN nd -> DOMAIN nd]
         /\ \A n \in DOMAIN nd \ LeavesOf(nd) : h[s[n]] < h[n]
         /\ h[r] \in Nat /\ \A n \in DOMAIN nd : h[n] <= h[r]
<1>1. /\ Typed(nd) /\ Kids(nd, h, lo, hi, L, R) /\ r \in DOMAIN nd
      /\ h \in [DOMAIN nd -> Nat] /\ \A n \in DOMAIN nd : h[n] <= h[r]
  BY DEF Tree, Levels
<1>2. ASSUME NEW n \in DOMAIN nd \ LeavesOf(nd) PROVE s[n] \in DOMAIN nd /\ h[s[n]] < h[n]
  <2>1. nd[n] \in InnerNodes
    BY <1>1, NodeFacts DEF LeavesOf
  <2>2. PICK i \in 1 .. Len(nd[n].children) : s[n] = nd[n].children[i]
    OBVIOUS
  <2>3. Child(nd, h, lo, hi, L, R, n, i)
    BY <1>1, <2>1, ChildFacts
  <2>4. s[n] \in DOMAIN nd /\ h[s[n]] + 1 = h[n]
    BY <2>2, <2>3 DEF Child
  <2> QED BY <1>1, <2>4
<1>3. \A n \in DOMAIN nd : s[n] \in DOMAIN nd
  BY <1>2
<1>4. s \in [DOMAIN nd -> DOMAIN nd]
  BY <1>3
<1> QED BY <1>1, <1>2, <1>4 DEF LeavesOf

\* A key is sought in the leaf that takes it.
LEMMA FindLeafFacts ==
  ASSUME NEW h, NEW lo, NEW hi, Tree(node, root, h, lo, hi, Null, 0, Null), NEW k \in Nat
  PROVE  /\ find_leaf(k) \in DOMAIN node /\ node[find_leaf(k)] \in LeafNodes
         /\ lo[find_leaf(k)] <= k /\ Below(k, hi[find_leaf(k)])
<1>1. PICK D, Leaves : D = DOMAIN node /\ Leaves = LeavesOf(node)
  OBVIOUS
<1>2. PICK s : s = [n \in D |-> IF n \in Leaves THEN n
                                ELSE node[n].children[FirstGreater(node[n].keys, k)]]
  OBVIOUS
<1>3. /\ Typed(node) /\ root \in D /\ lo[root] = 0 /\ hi[root] = 0
  <2>1. Typed(node) /\ root \in DOMAIN node /\ lo[root] = 0 /\ Top(hi, Null, Null, root) = 0
    BY DEF Tree, Levels, Bounds
  <2>2. root # Null
    BY <2>1, NodeFacts
  <2> QED BY <1>1, <2>1, <2>2 DEF Top
<1>4. ASSUME NEW n \in D \ Leaves
      PROVE  node[n] \in InnerNodes /\ ~node[n].is_leaf
  <2>1. node[n] \in InnerNodes
    BY <1>1, <1>3, NodeFacts DEF LeavesOf
  <2> QED BY <1>1, <1>3, <2>1, InnerFacts
<1>5. ASSUME NEW n \in Leaves PROVE n \in D /\ node[n] \in LeafNodes /\ node[n].is_leaf
  BY <1>1, <1>3, LeafFacts DEF LeavesOf
<1>6. ASSUME NEW n \in D \ Leaves
      PROVE \E i \in 1 .. Len(node[n].children) : s[n] = node[n].children[i]
  <2>1. PICK q \in Seq(Nat) : q = node[n].keys
    BY <1>1, <1>3, NodeFacts
  <2>2. PICK i : i = FirstGreater(q, k)
    OBVIOUS
  <2>5. i \in 1 .. Len(q) + 1
    BY <2>2, FirstGreaterFacts DEF IsFirstGreater
  <2>3. Len(node[n].children) = Len(q) + 1
    BY <1>1, <1>3, <1>4, <2>1, InnerFacts
  <2>4. s[n] = node[n].children[i]
    BY <1>2, <2>1, <2>2
  <2> QED BY <2>3, <2>4, <2>5
<1>7. s = [n \in D |-> IF n \in Leaves THEN n ELSE s[n]]
  BY <1>2
<1>8. /\ Leaves \in SUBSET D /\ h \in [D -> Nat] /\ s \in [D -> D]
      /\ \A n \in D \ Leaves : h[s[n]] < h[n]
      /\ h[root] \in Nat /\ \A n \in D : h[n] <= h[root]
  BY <1>1, <1>6, <1>7, StepsDown
<1> DEFINE Is(g) == g = [n \in D |-> IF node[n].is_leaf THEN n
                                     ELSE g[node[n].children[FirstGreater(node[n].keys, k)]]]
<1>9. ASSUME NEW g PROVE Is(g) <=> g = [n \in D |-> IF n \in Leaves THEN n ELSE g[s[n]]]
  <2>1. \A n \in D : (IF node[n].is_leaf THEN n
                      ELSE g[node[n].children[FirstGreater(node[n].keys, k)]])
                     = (IF n \in Leaves THEN n ELSE g[s[n]])
    BY <1>2, <1>4, <1>5
  <2> QED BY <2>1
<1>10. PICK g : g = CHOOSE f : Is(f)
  OBVIOUS
<1>11. Is(g)
  <2>1. LeadsAll(D, Leaves, s)
    BY <1>8, DescentEnds
  <2>2. PICK f \in [D -> Leaves] : f = [n \in D |-> IF n \in Leaves THEN n ELSE f[s[n]]]
    BY <2>1 DEF LeadsAll
  <2>3. Is(f)
    BY <1>9, <2>2
  <2> HIDE DEF Is
  <2> QED BY <1>10, <2>3
<1>12. find_leaf(k) = g[root]
  BY <1>1, <1>10 DEF find_leaf
<1>13. PICK P : P = {n \in D : lo[n] <= k /\ Below(k, hi[n])}
  OBVIOUS
<1>14. root \in P
  BY <1>3, <1>13 DEF Below
<1>15. ASSUME NEW n \in P \ Leaves PROVE s[n] \in P
  <2>1. PICK i : i = FirstGreater(node[n].keys, k)
    OBVIOUS
  <2>2. lo[node[n].children[i]] <= k /\ Below(k, hi[node[n].children[i]])
    BY <1>1, <1>4, <1>13, <2>1, ChildFor
  <2>3. s[n] = node[n].children[i] /\ s[n] \in D
    BY <1>2, <1>8, <1>13, <2>1
  <2> QED BY <1>13, <2>2, <2>3
<1>16. g[root] \in P \cap Leaves
  <2>1. g = [n \in D |-> IF n \in Leaves THEN n ELSE g[s[n]]]
    BY <1>9, <1>11
  <2>2. P \in SUBSET D
    BY <1>13
  <2> QED BY <1>8, <1>14, <1>15, <2>1, <2>2, DescentKeeps
<1> QED BY <1>1, <1>5, <1>12, <1>13, <1>16

\* A scan begins in the leaf that takes the least keys.
LEMMA FirstLeafFacts ==
  ASSUME NEW h, NEW lo, NEW hi, NEW L, NEW k, NEW R,
         Tree(node, root, h, lo, hi, L, k, R)
  PROVE  FirstLeaf \in DOMAIN node /\ node[FirstLeaf] \in LeafNodes /\ lo[FirstLeaf] = 0
<1>1. PICK D, Leaves : D = DOMAIN node /\ Leaves = LeavesOf(node)
  OBVIOUS
<1>2. PICK s : s = [n \in D |-> IF n \in Leaves THEN n ELSE node[n].children[1]]
  OBVIOUS
<1>3. Typed(node) /\ Kids(node, h, lo, hi, L, R) /\ root \in D /\ lo[root] = 0
  BY <1>1 DEF Tree, Levels, Bounds
<1>4. ASSUME NEW n \in D \ Leaves
      PROVE  /\ node[n] \in InnerNodes /\ ~node[n].is_leaf /\ 1 \in 1 .. Len(node[n].children)
             /\ s[n] = node[n].children[1]
  <2>1. node[n] \in InnerNodes
    BY <1>1, <1>3, NodeFacts DEF LeavesOf
  <2>2. Len(node[n].children) = Len(node[n].keys) + 1 /\ Len(node[n].keys) \in Nat
    BY <1>1, <1>3, <2>1, InnerFacts, NodeFacts
  <2> QED BY <1>1, <1>2, <1>3, <2>1, <2>2, InnerFacts
<1>5. ASSUME NEW n \in Leaves PROVE n \in D /\ node[n] \in LeafNodes /\ node[n].is_leaf
  BY <1>1, <1>3, LeafFacts DEF LeavesOf
<1>6. s = [n \in D |-> IF n \in Leaves THEN n ELSE s[n]]
  BY <1>2
<1>7. \A n \in D \ Leaves : \E i \in 1 .. Len(node[n].children) : s[n] = node[n].children[i]
  BY <1>4
<1>8. /\ Leaves \in SUBSET D /\ h \in [D -> Nat] /\ s \in [D -> D]
      /\ \A n \in D \ Leaves : h[s[n]] < h[n]
      /\ h[root] \in Nat /\ \A n \in D : h[n] <= h[root]
  BY <1>1, <1>6, <1>7, StepsDown
<1> DEFINE Is(g) == g = [n \in D |-> IF node[n].is_leaf THEN n ELSE g[node[n].children[1]]]
<1>9. ASSUME NEW g PROVE Is(g) <=> g = [n \in D |-> IF n \in Leaves THEN n ELSE g[s[n]]]
  <2>1. \A n \in D : (IF node[n].is_leaf THEN n ELSE g[node[n].children[1]])
                     = (IF n \in Leaves THEN n ELSE g[s[n]])
    BY <1>4, <1>5
  <2> QED BY <2>1
<1>10. PICK g : g = CHOOSE f : Is(f)
  OBVIOUS
<1>11. Is(g)
  <2>1. LeadsAll(D, Leaves, s)
    BY <1>8, DescentEnds
  <2>2. PICK f \in [D -> Leaves] : f = [n \in D |-> IF n \in Leaves THEN n ELSE f[s[n]]]
    BY <2>1 DEF LeadsAll
  <2>3. Is(f)
    BY <1>9, <2>2
  <2> HIDE DEF Is
  <2> QED BY <1>10, <2>3
<1>12. FirstLeaf = g[root]
  BY <1>1, <1>10 DEF FirstLeaf
<1>13. PICK P : P = {n \in D : lo[n] = 0}
  OBVIOUS
<1>14. ASSUME NEW n \in P \ Leaves PROVE s[n] \in P
  <2>1. Child(node, h, lo, hi, L, R, n, 1)
    BY <1>1, <1>3, <1>4, <1>13, ChildFacts
  <2>2. s[n] \in D /\ lo[s[n]] = lo[n]
    BY <1>1, <1>4, <1>13, <2>1 DEF Child
  <2> QED BY <1>13, <2>2
<1>15. g[root] \in P \cap Leaves
  <2>1. g = [n \in D |-> IF n \in Leaves THEN n ELSE g[s[n]]]
    BY <1>9, <1>11
  <2>2. P \in SUBSET D /\ root \in P
    BY <1>3, <1>13
  <2>3. \A n \in P \ Leaves : s[n] \in P
    BY <1>14
  <2> QED BY ONLY <1>8, <2>1, <2>2, <2>3, DescentKeeps
<1> QED BY <1>1, <1>5, <1>12, <1>13, <1>15

-----------------------------------------------------------------------------
(* What the steps do to the tree *)

\* A leaf gets other keys and values of its range.
LEMMA LeafEdited ==
  ASSUME NEW nd, NEW r, NEW h, NEW lo, NEW hi, Tree(nd, r, h, lo, hi, Null, 0, Null),
         NEW l \in DOMAIN nd, nd[l] \in LeafNodes,
         NEW e \in LeafNodes, e.parent = nd[l].parent, e.next = nd[l].next,
         Len(e.values) = Len(e.keys), Sorted(e.keys),
         \A i \in 1 .. Len(e.keys) : lo[l] <= e.keys[i] /\ Below(e.keys[i], hi[l]),
         NEW nd2, DOMAIN nd2 = DOMAIN nd, nd2[l] = e,
         \A n \in DOMAIN nd : n # l => nd2[n] = nd[n]
  PROVE  Tree(nd2, r, h, lo, hi, Null, 0, Null)
<1> DEFINE D == DOMAIN nd
<1>1. /\ Typed(nd) /\ Levels(nd, r, h) /\ Bounds(nd, r, lo, hi, Null, Null) /\ Apart(nd, h, lo, hi)
      /\ Keyed(nd, lo, hi) /\ Kids(nd, h, lo, hi, Null, Null) /\ Listed(nd, r, Null)
      /\ Chained(nd, lo, hi)
  BY DEF Tree
<1>2. \A n \in D : /\ nd2[n] \in LeafNodes <=> nd[n] \in LeafNodes
                   /\ nd2[n] \in InnerNodes <=> nd[n] \in InnerNodes
                   /\ nd2[n] \in InnerNodes => nd2[n] = nd[n] /\ n # l
                   /\ nd2[n].parent = nd[n].parent
                   /\ nd2[n] \in LeafNodes => nd2[n].next = nd[n].next
  <2>1. nd[l] \notin InnerNodes /\ e \notin InnerNodes
    BY DEF LeafNodes, InnerNodes
  <2> QED BY <2>1
<1>3. Typed(nd2)
  BY <1>1, <1>2 DEF Typed
<1>4. Levels(nd2, r, h) /\ Bounds(nd2, r, lo, hi, Null, Null) /\ Apart(nd2, h, lo, hi)
  BY <1>1, <1>2 DEF Levels, Bounds, Apart
<1>5. Keyed(nd2, lo, hi)
  BY <1>1, <1>2 DEF Keyed
<1>6. Kids(nd2, h, lo, hi, Null, Null)
  <2> SUFFICES ASSUME NEW n \in D, nd2[n] \in InnerNodes, NEW i \in 1 .. Len(nd2[n].children)
               PROVE  Child(nd2, h, lo, hi, Null, Null, n, i)
    BY DEF Kids
  <2>1. nd[n] \in InnerNodes /\ nd2[n] = nd[n]
    BY <1>2
  <2>2. Child(nd, h, lo, hi, Null, Null, n, i)
    BY <1>1, <2>1, ChildFacts
  <2> QED BY <1>2, <2>1, <2>2 DEF Child
<1>7. Listed(nd2, r, Null)
  BY <1>1, <1>2 DEF Listed
<1>8. Chained(nd2, lo, hi)
  BY <1>1, <1>2 DEF Chained
<1> QED BY <1>3, <1>4, <1>5, <1>6, <1>7, <1>8 DEF Tree, Pending

\* The ranges when n is cut at k, and F takes the upper part.
Cut(D, n, k, F, h, lo, hi, h2, lo2, hi2) ==
  /\ h2 \in [D \cup {F} -> Nat] /\ lo2 \in [D \cup {F} -> Nat] /\ hi2 \in [D \cup {F} -> Nat]
  /\ \A m \in D : h2[m] = h[m] /\ lo2[m] = lo[m] /\ (m # n => hi2[m] = hi[m])
  /\ h2[F] = h[n] /\ lo2[F] = k /\ hi2[F] = hi[n] /\ hi2[n] = k

\* Heights and ranges for a tree with a node split off exist.
LEMMA CutExists ==
  ASSUME NEW D, NEW n \in D, NEW k \in Nat, NEW F, F \notin D,
         NEW h \in [D -> Nat], NEW lo \in [D -> Nat], NEW hi \in [D -> Nat]
  PROVE  \E h2, lo2, hi2 : Cut(D, n, k, F, h, lo, hi, h2, lo2, hi2)
<1>1. PICK h2 : h2 = [m \in D \cup {F} |-> IF m = F THEN h[n] ELSE h[m]]
  OBVIOUS
<1>2. PICK lo2 : lo2 = [m \in D \cup {F} |-> IF m = F THEN k ELSE lo[m]]
  OBVIOUS
<1>3. PICK hi2 : hi2 = [m \in D \cup {F} |-> IF m = F THEN hi[n] ELSE IF m = n THEN k ELSE hi[m]]
  OBVIOUS
<1>4. h2 \in [D \cup {F} -> Nat] /\ h2[F] = h[n] /\ \A m \in D : h2[m] = h[m]
  BY <1>1
<1>5. lo2 \in [D \cup {F} -> Nat] /\ lo2[F] = k /\ \A m \in D : lo2[m] = lo[m]
  BY <1>2
<1>6. /\ hi2 \in [D \cup {F} -> Nat] /\ hi2[F] = hi[n] /\ hi2[n] = k
      /\ \A m \in D : m # n => hi2[m] = hi[m]
  BY <1>3
<1>7. Cut(D, n, k, F, h, lo, hi, h2, lo2, hi2)
  BY <1>4, <1>5, <1>6 DEF Cut
<1> QED BY <1>7

\* The nodes of nd and F, with their kinds and the parents of the cut.
CutNodes(nd, nd2, r, n, F) ==
  /\ DOMAIN nd2 = DOMAIN nd \cup {F}
  /\ \A m \in DOMAIN nd : nd2[m] \in LeafNodes <=> nd[m] \in LeafNodes
  /\ nd2[F] \in LeafNodes <=> nd[n] \in LeafNodes
  /\ nd2[r].parent = nd[r].parent /\ nd2[F].parent = nd2[n].parent

CutTree(nd2, r, h2, lo2, hi2, n, k, F) ==
  /\ Levels(nd2, r, h2) /\ Bounds(nd2, r, lo2, hi2, n, F) /\ Apart(nd2, h2, lo2, hi2)
  /\ Pending(nd2, r, h2, lo2, hi2, n, k, F)

\* Cutting the range of a node at k keeps heights, ranges and the way to every node.
LEMMA CutBounds ==
  ASSUME NEW nd, NEW r, NEW h, NEW lo, NEW hi, Tree(nd, r, h, lo, hi, Null, 0, Null),
         NEW n \in DOMAIN nd, NEW F \in Nodes, F \notin DOMAIN nd,
         NEW k \in Key, lo[n] < k, Below(k, hi[n]),
         NEW h2, NEW lo2, NEW hi2, Cut(DOMAIN nd, n, k, F, h, lo, hi, h2, lo2, hi2),
         NEW nd2, CutNodes(nd, nd2, r, n, F)
  PROVE  CutTree(nd2, r, h2, lo2, hi2, n, k, F)
<1> DEFINE D == DOMAIN nd
<1>0. /\ DOMAIN nd2 = D \cup {F} /\ \A m \in D : nd2[m] \in LeafNodes <=> nd[m] \in LeafNodes
      /\ nd2[F] \in LeafNodes <=> nd[n] \in LeafNodes
      /\ nd2[r].parent = nd[r].parent /\ nd2[F].parent = nd2[n].parent
  BY DEF CutNodes
<1>1. /\ Typed(nd) /\ Levels(nd, r, h) /\ Bounds(nd, r, lo, hi, Null, Null) /\ Apart(nd, h, lo, hi)
  BY DEF Tree
<1>2. k \in Nat /\ k # 0 /\ n # F /\ F # Null
  <2>1. lo[n] \in Nat /\ k \in Nat
    BY <1>1, TreeFacts DEF Bounds
  <2> QED BY <2>1, TreeFacts
<1>3. /\ h2 \in [D \cup {F} -> Nat] /\ lo2 \in [D \cup {F} -> Nat] /\ hi2 \in [D \cup {F} -> Nat]
      /\ \A m \in D : h2[m] = h[m] /\ lo2[m] = lo[m] /\ (m # n => hi2[m] = hi[m])
      /\ h2[F] = h[n] /\ lo2[F] = k /\ hi2[F] = hi[n] /\ hi2[n] = k
  BY DEF Cut
<1>4. r \in D /\ r # F /\ r # Null /\ h \in [D -> Nat] /\ lo \in [D -> Nat] /\ hi \in [D -> Nat]
  BY <1>1, NodeFacts DEF Levels, Bounds
<1>5. Levels(nd2, r, h2)
  BY <1>0, <1>1, <1>3, <1>4 DEF Levels
<1>6. Bounds(nd2, r, lo2, hi2, n, F)
  <2>1. lo2[r] = 0
    BY <1>1, <1>3, <1>4 DEF Bounds
  <2>2. hi[r] = 0
    BY <1>1, <1>4 DEF Bounds, Top
  <2>3. Top(hi2, n, F, r) = 0
    BY <1>3, <1>4, <2>2 DEF Top
  <2>4. \A m \in D : Below(lo2[m], hi2[m])
    BY <1>1, <1>2, <1>3, <1>4 DEF Bounds, Below
  <2>5. Below(lo2[F], hi2[F])
    BY <1>3
  <2> QED BY <1>0, <1>3, <2>1, <2>3, <2>4, <2>5 DEF Bounds
<1>7. Apart(nd2, h2, lo2, hi2)
  <2> DEFINE Off(a, b) == (hi2[a] # 0 /\ hi2[a] <= lo2[b]) \/ (hi2[b] # 0 /\ hi2[b] <= lo2[a])
  <2>1. ASSUME NEW a \in D, NEW b \in D, a # b, h2[a] = h2[b] PROVE Off(a, b)
    <3>1. (hi[a] # 0 /\ hi[a] <= lo[b]) \/ (hi[b] # 0 /\ hi[b] <= lo[a])
      BY <1>1, <1>3, <2>1 DEF Apart
    <3>2. /\ lo2[a] = lo[a] /\ lo2[b] = lo[b]
          /\ hi2[a] = IF a = n THEN k ELSE hi[a]
          /\ hi2[b] = IF b = n THEN k ELSE hi[b]
      BY <1>3
    <3>3. lo[a] \in Nat /\ lo[b] \in Nat /\ hi[a] \in Nat /\ hi[b] \in Nat /\ hi[n] \in Nat
      BY <1>4
    <3> QED BY <1>2, <2>1, <3>1, <3>2, <3>3 DEF Below
  <2>2. ASSUME NEW a \in D, h2[a] = h2[F] PROVE Off(a, F)
    <3>1. CASE a = n
      BY <1>2, <1>3, <3>1
    <3>2. CASE a # n
      <4>1. (hi[a] # 0 /\ hi[a] <= lo[n]) \/ (hi[n] # 0 /\ hi[n] <= lo[a])
        BY <1>1, <1>3, <2>2, <3>2 DEF Apart
      <4>2. lo[a] \in Nat /\ lo[n] \in Nat /\ hi[a] \in Nat /\ hi[n] \in Nat
        BY <1>4
      <4>3. lo2[a] = lo[a] /\ hi2[a] = hi[a]
        BY <1>3, <3>2
      <4> QED BY <1>2, <1>3, <4>1, <4>2, <4>3
    <3> QED BY <3>1, <3>2
  <2>3. \A a, b \in D \cup {F} : a # b /\ h2[a] = h2[b] => Off(a, b)
    <3> HIDE DEF Off
    <3>1. \A a \in D : h2[F] = h2[a] => Off(F, a)
      BY <2>2 DEF Off
    <3> QED BY <2>1, <2>2, <3>1
  <2> QED BY <1>0, <2>3 DEF Apart
<1>8. Pending(nd2, r, h2, lo2, hi2, n, k, F)
  BY <1>0, <1>2, <1>3, <1>4 DEF Pending
<1> QED BY <1>5, <1>6, <1>7, <1>8 DEF CutTree

\* split_leaf: n keeps the keys below k, the new leaf F takes the others.
LEMMA LeafCut ==
  ASSUME NEW nd, NEW r, NEW h, NEW lo, NEW hi, Tree(nd, r, h, lo, hi, Null, 0, Null),
         NEW n \in DOMAIN nd, nd[n] \in LeafNodes, NEW F \in Nodes, F \notin DOMAIN nd,
         NEW k \in Key, lo[n] < k, Below(k, hi[n]),
         NEW a \in LeafNodes, a.next = F, a.parent = nd[n].parent,
         NEW b \in LeafNodes, b.next = nd[n].next, b.parent = nd[n].parent,
         Len(a.values) = Len(a.keys), Sorted(a.keys), Len(b.values) = Len(b.keys), Sorted(b.keys),
         \A i \in 1 .. Len(a.keys) : lo[n] <= a.keys[i] /\ a.keys[i] < k,
         \A i \in 1 .. Len(b.keys) : k <= b.keys[i] /\ Below(b.keys[i], hi[n]),
         NEW nd2, DOMAIN nd2 = DOMAIN nd \cup {F}, nd2[n] = a, nd2[F] = b,
         \A m \in DOMAIN nd : m # n => nd2[m] = nd[m],
         NEW h2, NEW lo2, NEW hi2, Cut(DOMAIN nd, n, k, F, h, lo, hi, h2, lo2, hi2)
  PROVE  Tree(nd2, r, h2, lo2, hi2, n, k, F)
<1> DEFINE D == DOMAIN nd
<1>1. /\ Typed(nd) /\ Levels(nd, r, h) /\ Bounds(nd, r, lo, hi, Null, Null) /\ Apart(nd, h, lo, hi)
      /\ Keyed(nd, lo, hi) /\ Kids(nd, h, lo, hi, Null, Null) /\ Listed(nd, r, Null)
      /\ Chained(nd, lo, hi)
  BY DEF Tree
<1>2. /\ \A m \in D : /\ nd2[m] \in LeafNodes <=> nd[m] \in LeafNodes
                      /\ nd2[m] \in InnerNodes <=> nd[m] \in InnerNodes
                      /\ nd2[m] \in InnerNodes => nd2[m] = nd[m] /\ m # n
                      /\ nd2[m].parent = nd[m].parent
      /\ nd2[F] \notin InnerNodes
  <2>1. nd[n] \notin InnerNodes /\ a \notin InnerNodes /\ b \notin InnerNodes
    BY DEF LeafNodes, InnerNodes
  <2> QED BY <2>1
<1>3. /\ h2 \in [D \cup {F} -> Nat] /\ lo2 \in [D \cup {F} -> Nat] /\ hi2 \in [D \cup {F} -> Nat]
      /\ \A m \in D : h2[m] = h[m] /\ lo2[m] = lo[m] /\ (m # n => hi2[m] = hi[m])
      /\ h2[F] = h[n] /\ lo2[F] = k /\ hi2[F] = hi[n] /\ hi2[n] = k
  BY DEF Cut
<1>4. /\ k \in Nat /\ n # F /\ F # Null /\ n # Null /\ r \in D /\ k # 0
      /\ \A m \in D : lo[m] \in Nat /\ hi[m] \in Nat
  <2>1. \A m \in D : lo[m] \in Nat /\ hi[m] \in Nat
    BY <1>1 DEF Bounds
  <2>2. n # Null /\ r \in D
    BY <1>1, NodeFacts DEF Levels
  <2> QED BY <2>1, <2>2, TreeFacts
<1>5. Typed(nd2)
  BY <1>1, <1>2 DEF Typed
<1>6. CutTree(nd2, r, h2, lo2, hi2, n, k, F)
  <2>1. nd2[r].parent = nd[r].parent /\ nd2[F].parent = nd2[n].parent
    BY <1>2, <1>4
  <2>2. nd2[F] \in LeafNodes <=> nd[n] \in LeafNodes
    OBVIOUS
  <2>3. \A m \in DOMAIN nd : nd2[m] \in LeafNodes <=> nd[m] \in LeafNodes
    BY <1>2
  <2>4. CutNodes(nd, nd2, r, n, F)
    BY <2>1, <2>2, <2>3 DEF CutNodes
  <2> QED BY <2>4, CutBounds
<1>7. Keyed(nd2, lo2, hi2)
  <2> SUFFICES ASSUME NEW m \in D \cup {F}
               PROVE  /\ Sorted(nd2[m].keys)
                      /\ \A i \in 1 .. Len(nd2[m].keys) :
                           /\ lo2[m] <= nd2[m].keys[i] /\ Below(nd2[m].keys[i], hi2[m])
                           /\ nd2[m] \in InnerNodes => lo2[m] < nd2[m].keys[i]
    BY DEF Keyed
  <2>1. CASE m = F
    BY <1>2, <1>3, <2>1
  <2>2. CASE m = n
    BY <1>2, <1>3, <2>2 DEF Below
  <2>3. CASE m # F /\ m # n
    BY <1>1, <1>2, <1>3, <2>3 DEF Keyed
  <2> QED BY <2>1, <2>2, <2>3
<1>8. Kids(nd2, h2, lo2, hi2, n, F)
  <2> SUFFICES ASSUME NEW m \in D \cup {F}, nd2[m] \in InnerNodes, NEW i \in 1 .. Len(nd2[m].children)
               PROVE  Child(nd2, h2, lo2, hi2, n, F, m, i)
    BY DEF Kids
  <2>1. m \in D /\ nd[m] \in InnerNodes /\ nd2[m] = nd[m] /\ m # n
    BY <1>2
  <2>2. Child(nd, h, lo, hi, Null, Null, m, i)
    BY <1>1, <2>1, ChildFacts
  <2>3. PICK c : c = nd[m].children[i]
    OBVIOUS
  <2>4. /\ c \in D /\ nd[c].parent = m /\ h[c] + 1 = h[m]
        /\ lo[c] = IF i = 1 THEN lo[m] ELSE nd[m].keys[i - 1]
        /\ Top(hi, Null, Null, c) = IF i = Len(nd[m].children) THEN hi[m] ELSE nd[m].keys[i]
    BY <2>2, <2>3 DEF Child
  <2>5. c # Null /\ c # F
    BY <1>1, <2>4, NodeFacts
  <2>6. Top(hi2, n, F, c) = Top(hi, Null, Null, c)
    BY <1>3, <2>4, <2>5 DEF Top
  <2>7. nd2[c].parent = m /\ h2[c] = h[c] /\ h2[m] = h[m] /\ lo2[c] = lo[c] /\ lo2[m] = lo[m] /\ hi2[m] = hi[m]
    BY <1>2, <1>3, <2>1, <2>4
  <2> QED BY <2>1, <2>3, <2>4, <2>5, <2>6, <2>7 DEF Child
<1>9. Listed(nd2, r, F)
  <2> SUFFICES ASSUME NEW m \in D, m # r
               PROVE  /\ nd2[m].parent \in D \cup {F} /\ nd2[nd2[m].parent] \in InnerNodes
                      /\ \E i \in 1 .. Len(nd2[nd2[m].parent].children) :
                           nd2[nd2[m].parent].children[i] = m
    BY DEF Listed
  <2>1. m # Null
    BY <1>1, NodeFacts
  <2>2. PICK p \in D : p = nd[m].parent /\ nd[p] \in InnerNodes
                       /\ \E i \in 1 .. Len(nd[p].children) : nd[p].children[i] = m
    BY <1>1, <2>1 DEF Listed
  <2>3. nd2[m].parent = p /\ nd2[p] = nd[p]
    BY <1>2, <2>2
  <2> QED BY <2>2, <2>3
<1>10. Chained(nd2, lo2, hi2)
  <2> SUFFICES ASSUME NEW m \in D \cup {F}, nd2[m] \in LeafNodes
               PROVE  IF nd2[m].next = Null THEN hi2[m] = 0
                      ELSE /\ nd2[m].next \in D \cup {F} /\ nd2[nd2[m].next] \in LeafNodes
                           /\ hi2[m] # 0 /\ lo2[nd2[m].next] = hi2[m]
    BY DEF Chained
  <2> DEFINE Next2(x) == IF x = Null THEN hi2[m] = 0
                         ELSE /\ x \in D \cup {F} /\ nd2[x] \in LeafNodes
                              /\ hi2[m] # 0 /\ lo2[x] = hi2[m]
  <2>1. CASE m = F
    <3>1. PICK x : x = nd2[m].next
      OBVIOUS
    <3>2. x = nd[n].next
      BY <2>1, <3>1, Zenon
    <3>3. Next2(x)
      BY <1>1, <1>2, <1>3, <2>1, <3>2 DEF Chained
    <3> QED BY <3>1, <3>3
  <2>2. CASE m = n
    BY <1>3, <1>4, <2>2
  <2>3. CASE m # F /\ m # n
    <3>1. m \in D /\ nd2[m] = nd[m] /\ hi2[m] = hi[m] /\ nd[m] \in LeafNodes
      BY <1>3, <2>3
    <3>2. PICK x : x = nd[m].next
      OBVIOUS
    <3>3. Next2(x)
      BY <1>1, <1>2, <1>3, <3>1, <3>2, SMTT(30) DEF Chained
    <3> QED BY <3>1, <3>2, <3>3
  <2> QED BY <2>1, <2>2, <2>3
<1>11. n # Null /\ F # Null
  BY <1>4
<1> QED BY <1>5, <1>6, <1>7, <1>8, <1>9, <1>10, <1>11 DEF Tree, CutTree

\* y has the fields of x but for the parent, and of two links one of the next.
Like(x, y) ==
  /\ y \in LeafNodes <=> x \in LeafNodes
  /\ y \in InnerNodes <=> x \in InnerNodes
  /\ y.keys = x.keys
  /\ x \in LeafNodes => y.values = x.values /\ y.next = x.next
  /\ x \in InnerNodes => y.children = x.children

\* Giving a node another parent changes nothing else.
LEMMA AdoptionKeeps ==
  ASSUME NEW x \in LeafNodes \cup InnerNodes, NEW p \in Nodes \cup {Null}
  PROVE  Like(x, [x EXCEPT !.parent = p]) /\ [x EXCEPT !.parent = p].parent = p
<1>1. CASE x \in LeafNodes
  <2>1. [x EXCEPT !.parent = p] \in LeafNodes
    BY <1>1 DEF LeafNodes
  <2>2. x \notin InnerNodes /\ [x EXCEPT !.parent = p] \notin InnerNodes
    BY <1>1, <2>1 DEF LeafNodes, InnerNodes
  <2>3. /\ [x EXCEPT !.parent = p].keys = x.keys /\ [x EXCEPT !.parent = p].values = x.values
        /\ [x EXCEPT !.parent = p].next = x.next /\ [x EXCEPT !.parent = p].parent = p
    BY <1>1 DEF LeafNodes
  <2> QED BY <1>1, <2>1, <2>2, <2>3 DEF Like
<1>2. CASE x \in InnerNodes
  <2>1. [x EXCEPT !.parent = p] \in InnerNodes
    BY <1>2 DEF InnerNodes
  <2>2. x \notin LeafNodes /\ [x EXCEPT !.parent = p] \notin LeafNodes
    BY <1>2, <2>1 DEF LeafNodes, InnerNodes
  <2>3. /\ [x EXCEPT !.parent = p].keys = x.keys /\ [x EXCEPT !.parent = p].children = x.children
        /\ [x EXCEPT !.parent = p].parent = p
    BY <1>2 DEF InnerNodes
  <2> QED BY <1>2, <2>1, <2>2, <2>3 DEF Like
<1> QED BY <1>1, <1>2

\* NewRoot: the root r and the node R split from it become children of F.
Grown(nd, nd2, r, k, R, F, e) ==
  /\ e \in InnerNodes /\ e.keys = <<k>> /\ e.children = <<r, R>> /\ e.parent = Null
  /\ DOMAIN nd2 = DOMAIN nd \cup {F} /\ nd2[F] = e
  /\ \A m \in {r, R} : Like(nd[m], nd2[m]) /\ nd2[m].parent = F
  /\ \A m \in DOMAIN nd \ {r, R} : nd2[m] = nd[m]

\* A root over the old root and its new half is a tree with nothing pending.
LEMMA RootGrown ==
  ASSUME NEW nd, NEW r, NEW h, NEW lo, NEW hi, NEW k, NEW R, R # Null,
         Tree(nd, r, h, lo, hi, r, k, R),
         NEW F \in Nodes, F \notin DOMAIN nd, NEW e, NEW nd2, Grown(nd, nd2, r, k, R, F, e)
  PROVE  \E h2, lo2, hi2 :
           /\ Tree(nd2, F, h2, lo2, hi2, Null, 0, Null)
           /\ \A m \in DOMAIN nd : h2[m] = h[m] /\ lo2[m] = lo[m] /\ hi2[m] = hi[m]
<1> USE DEF Grown
<1> DEFINE D == DOMAIN nd
           D2 == D \cup {F}
<1>0. PICK ks, cs : ks = nd2[F].keys /\ cs = nd2[F].children
  OBVIOUS
<1>18. ks = <<k>> /\ cs = <<r, R>>
  BY <1>0, Zenon
<1>19. Len(ks) = 1 /\ ks[1] = k /\ Sorted(ks) /\ Len(cs) = 2 /\ cs[1] = r /\ cs[2] = R /\ Len(cs) = Len(ks) + 1
  BY <1>18 DEF Sorted
<1>1. /\ Typed(nd) /\ Levels(nd, r, h) /\ Bounds(nd, r, lo, hi, r, R) /\ Apart(nd, h, lo, hi)
      /\ Keyed(nd, lo, hi) /\ Kids(nd, h, lo, hi, r, R) /\ Listed(nd, r, R)
      /\ Chained(nd, lo, hi) /\ Pending(nd, r, h, lo, hi, r, k, R)
  BY DEF Tree
<1>2. /\ r \in D /\ R \in D /\ r # R /\ h[r] = h[R] /\ nd[r].parent = Null /\ nd[R].parent = Null
      /\ k \in Key /\ k # 0 /\ hi[r] = k /\ lo[R] = k /\ lo[r] = 0 /\ hi[R] = 0
  BY <1>1 DEF Levels, Pending, Bounds, Top
<1>3. /\ k \in Nat /\ F # Null /\ r \in Nodes /\ R \in Nodes /\ F # r /\ F # R /\ e \notin LeafNodes
      /\ h \in [D -> Nat] /\ lo \in [D -> Nat] /\ hi \in [D -> Nat]
  <2>1. r \in Nodes /\ R \in Nodes
    BY <1>1, <1>2, NodeFacts
  <2>2. e \notin LeafNodes
    BY DEF LeafNodes, InnerNodes
  <2>3. h \in [D -> Nat] /\ lo \in [D -> Nat] /\ hi \in [D -> Nat]
    BY <1>1 DEF Levels, Bounds
  <2> QED BY <1>2, <2>1, <2>2, <2>3, TreeFacts
<1>4. PICK h2 : h2 = [m \in D2 |-> IF m = F THEN h[r] + 1 ELSE h[m]]
  OBVIOUS
<1>5. PICK lo2 : lo2 = [m \in D2 |-> IF m = F THEN 0 ELSE lo[m]]
  OBVIOUS
<1>6. PICK hi2 : hi2 = [m \in D2 |-> IF m = F THEN 0 ELSE hi[m]]
  OBVIOUS
<1>7. /\ h2 \in [D2 -> Nat] /\ lo2 \in [D2 -> Nat] /\ hi2 \in [D2 -> Nat]
      /\ h2[F] = h[r] + 1 /\ lo2[F] = 0 /\ hi2[F] = 0 /\ h[r] \in Nat
      /\ \A m \in D : h2[m] = h[m] /\ lo2[m] = lo[m] /\ hi2[m] = hi[m]
  BY <1>2, <1>3, <1>4, <1>5, <1>6
<1>8. \A m \in D : Like(nd[m], nd2[m]) /\ (m # r /\ m # R => nd2[m].parent = nd[m].parent)
  BY DEF Like
<1>9. Typed(nd2)
  <2>1. \A m \in D : nd2[m] \in LeafNodes \cup InnerNodes
    BY <1>1, <1>8 DEF Typed, Like
  <2>2. \A m \in D : nd2[m] \in LeafNodes => Len(nd2[m].values) = Len(nd2[m].keys)
    BY <1>1, <1>8 DEF Typed, Like
  <2>3. \A m \in D : nd2[m] \in InnerNodes => Len(nd2[m].children) = Len(nd2[m].keys) + 1
    BY <1>1, <1>8 DEF Typed, Like
  <2>4. Len(nd2[F].children) = Len(nd2[F].keys) + 1
    BY <1>0, <1>19, Zenon
  <2> QED BY <1>1, <1>3, <2>1, <2>2, <2>3, <2>4 DEF Typed
<1>10. Levels(nd2, F, h2)
  <2>1. \A m \in D : h2[m] <= h2[F] /\ (h2[m] = 0 <=> nd2[m] \in LeafNodes)
    BY <1>1, <1>3, <1>7, <1>8 DEF Levels, Like
  <2> QED BY <1>3, <1>7, <2>1 DEF Levels
<1>11. Bounds(nd2, F, lo2, hi2, Null, Null)
  <2>1. \A m \in D : Below(lo2[m], hi2[m])
    BY <1>1, <1>7 DEF Bounds
  <2> QED BY <1>3, <1>7, <2>1 DEF Bounds, Top, Below
<1>12. Apart(nd2, h2, lo2, hi2)
  <2>1. \A m \in D : h2[m] # h2[F]
    BY <1>1, <1>3, <1>7 DEF Levels
  <2> QED BY <1>1, <1>7, <2>1 DEF Apart
<1>13. Keyed(nd2, lo2, hi2)
  <2>1. ASSUME NEW m \in D
        PROVE  /\ Sorted(nd2[m].keys)
               /\ \A i \in 1 .. Len(nd2[m].keys) :
                    /\ lo2[m] <= nd2[m].keys[i] /\ Below(nd2[m].keys[i], hi2[m])
                    /\ nd2[m] \in InnerNodes => lo2[m] < nd2[m].keys[i]
    BY <1>1, <1>7, <1>8 DEF Keyed, Like
  <2>2. Sorted(nd2[F].keys) /\ Len(nd2[F].keys) = 1 /\ nd2[F].keys[1] = k
    BY <1>0, <1>19, Zenon
  <2>3. /\ \A i \in 1 .. Len(nd2[F].keys) :
               /\ lo2[F] <= nd2[F].keys[i] /\ Below(nd2[F].keys[i], hi2[F])
               /\ nd2[F] \in InnerNodes => lo2[F] < nd2[F].keys[i]
    BY <1>2, <1>3, <1>7, <2>2 DEF Below
  <2> QED BY <2>1, <2>2, <2>3 DEF Keyed
<1>14. Kids(nd2, h2, lo2, hi2, Null, Null)
  <2> SUFFICES ASSUME NEW m \in D2, nd2[m] \in InnerNodes, NEW i \in 1 .. Len(nd2[m].children)
               PROVE  Child(nd2, h2, lo2, hi2, Null, Null, m, i)
    BY DEF Kids
  <2>1. CASE m = F
    <3>1. /\ nd2[m].children[1] = r /\ nd2[m].children[2] = R /\ Len(nd2[m].children) = 2
          /\ nd2[m].keys[1] = k
      BY <1>0, <1>19, <2>1
    <3>2. CASE i = 1
      <4>1. PICK c, q : c = nd2[m].children[i] /\ q = nd2[m].keys[i]
        OBVIOUS
      <4>2. c = r /\ q = k
        BY <3>1, <3>2, <4>1
      <4>3. r \in D2 /\ r # Null
        BY <1>2, <1>3, TreeFacts
      <4>4. /\ c \in D2 /\ c # Null /\ nd2[c].parent = m /\ h2[c] + 1 = h2[m]
            /\ lo2[c] = lo2[m] /\ hi2[c] = q
        BY <1>2, <1>3, <1>7, <2>1, <4>2, <4>3
      <4> QED BY <3>1, <3>2, <4>1, <4>4 DEF Child, Top
    <3>3. CASE i = 2
      <4>1. PICK c, q : c = nd2[m].children[i] /\ q = nd2[m].keys[i - 1]
        OBVIOUS
      <4>2. c = R /\ q = k
        BY <3>1, <3>3, <4>1
      <4>3. /\ c \in D2 /\ c # Null /\ nd2[c].parent = m /\ h2[c] + 1 = h2[m]
            /\ lo2[c] = q /\ hi2[c] = hi2[m]
        BY <1>2, <1>3, <1>7, <2>1, <4>2, TreeFacts
      <4> QED BY <3>1, <3>3, <4>1, <4>3 DEF Child, Top
    <3> QED BY <3>1, <3>2, <3>3
  <2>2. CASE m \in D
    <3>1. nd[m] \in InnerNodes /\ nd2[m].children = nd[m].children /\ nd2[m].keys = nd[m].keys
      BY <1>8, <2>2 DEF Like
    <3>2. Child(nd, h, lo, hi, r, R, m, i)
      BY <1>1, <2>2, <3>1, ChildFacts
    <3>3. PICK c : c = nd[m].children[i]
      OBVIOUS
    <3>4. /\ c \in D /\ c # R /\ nd[c].parent = m /\ h[c] + 1 = h[m]
          /\ lo[c] = IF i = 1 THEN lo[m] ELSE nd[m].keys[i - 1]
          /\ Top(hi, r, R, c) = IF i = Len(nd[m].children) THEN hi[m] ELSE nd[m].keys[i]
      BY <3>2, <3>3 DEF Child
    <3>5. c # Null /\ c # r
      BY <1>1, <1>2, <2>2, <3>4, NodeFacts
    <3>6. Top(hi2, Null, Null, c) = Top(hi, r, R, c)
      BY <1>7, <3>4, <3>5 DEF Top
    <3>7. /\ nd2[c].parent = m /\ h2[c] = h[c] /\ h2[m] = h[m] /\ lo2[c] = lo[c] /\ lo2[m] = lo[m]
          /\ hi2[m] = hi[m]
      BY <1>7, <2>2, <3>4, <3>5
    <3> QED BY <3>1, <3>3, <3>4, <3>5, <3>6, <3>7 DEF Child
  <2> QED BY <2>1, <2>2
<1>15. Listed(nd2, F, Null)
  <2> SUFFICES ASSUME NEW m \in D
               PROVE  /\ nd2[m].parent \in D2 /\ nd2[nd2[m].parent] \in InnerNodes
                      /\ \E i \in 1 .. Len(nd2[nd2[m].parent].children) :
                           nd2[nd2[m].parent].children[i] = m
    BY DEF Listed
  <2>1. CASE m \in {r, R}
    <3>1. e.children[1] = r /\ e.children[2] = R /\ Len(e.children) = 2 /\ nd2[m].parent = F
      BY <1>0, <1>19, <2>1
    <3> QED BY <2>1, <3>1
  <2>2. CASE m \notin {r, R}
    <3>1. PICK p \in D : p = nd[m].parent /\ nd[p] \in InnerNodes
                         /\ \E i \in 1 .. Len(nd[p].children) : nd[p].children[i] = m
      BY <1>1, <2>2 DEF Listed
    <3>2. nd2[m].parent = p /\ nd2[p] \in InnerNodes /\ nd2[p].children = nd[p].children
      BY <1>8, <2>2, <3>1 DEF Like
    <3> QED BY <3>1, <3>2
  <2> QED BY <2>1, <2>2
<1>16. Chained(nd2, lo2, hi2)
  <2> SUFFICES ASSUME NEW m \in D2, nd2[m] \in LeafNodes
               PROVE  IF nd2[m].next = Null THEN hi2[m] = 0
                      ELSE /\ nd2[m].next \in D2 /\ nd2[nd2[m].next] \in LeafNodes
                           /\ hi2[m] # 0 /\ lo2[nd2[m].next] = hi2[m]
    BY DEF Chained
  <2> DEFINE Next2(x) == IF x = Null THEN hi2[m] = 0
                         ELSE /\ x \in D2 /\ nd2[x] \in LeafNodes /\ hi2[m] # 0 /\ lo2[x] = hi2[m]
  <2>1. m \in D
    BY <1>3
  <2>2. PICK x : x = nd[m].next
    OBVIOUS
  <2>3. nd2[m].next = x /\ nd[m] \in LeafNodes
    BY <1>8, <2>1, <2>2 DEF Like
  <2>4. IF x = Null THEN hi[m] = 0
        ELSE /\ x \in D /\ nd[x] \in LeafNodes /\ hi[m] # 0 /\ lo[x] = hi[m]
    BY <1>1, <2>1, <2>2, <2>3 DEF Chained
  <2>5. Next2(x)
    BY <1>7, <1>8, <2>1, <2>4 DEF Like
  <2> QED BY <2>3, <2>5
<1>17. Tree(nd2, F, h2, lo2, hi2, Null, 0, Null)
  BY <1>9, <1>10, <1>11, <1>12, <1>13, <1>14, <1>15, <1>16 DEF Tree, Pending
<1> QED BY <1>7, <1>17

\* The keys q of an inner node, between its bounds.
Ordered(q, m, lower, upper) ==
  /\ \A a, b \in 1 .. m : a < b => q[a] < q[b]
  /\ \A a \in 1 .. m : lower < q[a] /\ Below(q[a], upper) /\ q[a] \in Nat
  /\ lower \in Nat /\ upper \in Nat

\* The keys of an internal node rise strictly within its range.
LEMMA InnerOrdered ==
  ASSUME NEW nd, NEW r, NEW h, NEW lo, NEW hi, NEW L, NEW k, NEW R,
         Tree(nd, r, h, lo, hi, L, k, R), NEW n \in DOMAIN nd, nd[n] \in InnerNodes
  PROVE  Ordered(nd[n].keys, Len(nd[n].keys), lo[n], hi[n])
<1>1. Typed(nd) /\ Keyed(nd, lo, hi) /\ Bounds(nd, r, lo, hi, L, R)
  BY DEF Tree
<1>2. PICK q \in Seq(Nat) : q = nd[n].keys
  BY <1>1, NodeFacts
<1>3. Sorted(q) /\ \A a \in 1 .. Len(q) : lo[n] < q[a] /\ Below(q[a], hi[n])
  BY <1>1, <1>2 DEF Keyed
<1>4. lo[n] \in Nat /\ hi[n] \in Nat
  BY <1>1 DEF Bounds
<1>5. \A a \in 1 .. Len(q) : q[a] \in Nat
  OBVIOUS
<1>6. \A a, b \in 1 .. Len(q) : a < b => q[a] < q[b]
  BY <1>3 DEF Sorted
<1>7. Ordered(q, Len(q), lo[n], hi[n])
  BY <1>3, <1>4, <1>5, <1>6 DEF Ordered
<1> QED BY <1>2, <1>7

\* The children of a node are different nodes.
LEMMA ChildrenDiffer ==
  ASSUME NEW nd, NEW r, NEW h, NEW lo, NEW hi, NEW L, NEW k, NEW R,
         Tree(nd, r, h, lo, hi, L, k, R),
         NEW n \in DOMAIN nd, nd[n] \in InnerNodes,
         NEW i \in 1 .. Len(nd[n].children), NEW j \in 1 .. Len(nd[n].children),
         nd[n].children[i] = nd[n].children[j]
  PROVE  i = j
<1>1. Typed(nd) /\ Kids(nd, h, lo, hi, L, R) /\ Keyed(nd, lo, hi)
  BY DEF Tree
<1>2. PICK q \in Seq(Nat), m \in Nat : q = nd[n].keys /\ m = Len(q)
  BY <1>1, NodeFacts
<1>3. Len(nd[n].children) = m + 1
  BY <1>1, <1>2, InnerFacts
<1>4. PICK c : c = nd[n].children[i] /\ c = nd[n].children[j]
  OBVIOUS
<1>5. Child(nd, h, lo, hi, L, R, n, i) /\ Child(nd, h, lo, hi, L, R, n, j)
  BY <1>1, ChildFacts
<1>6. /\ lo[c] = IF i = 1 THEN lo[n] ELSE q[i - 1]
      /\ lo[c] = IF j = 1 THEN lo[n] ELSE q[j - 1]
  BY <1>2, <1>4, <1>5 DEF Child
<1>7. Ordered(q, m, lo[n], hi[n])
  BY <1>2, InnerOrdered
<1>8. /\ \A a, b \in 1 .. m : a < b => q[a] < q[b]
      /\ \A a \in 1 .. m : lo[n] < q[a] /\ q[a] \in Nat
      /\ lo[n] \in Nat
  BY <1>7 DEF Ordered
<1>9. ASSUME NEW a \in 1 .. m + 1, NEW b \in 1 .. m + 1, a < b,
             lo[c] = IF a = 1 THEN lo[n] ELSE q[a - 1],
             lo[c] = IF b = 1 THEN lo[n] ELSE q[b - 1]
      PROVE  FALSE
  <2>1. lo[c] = q[b - 1] /\ b - 1 \in 1 .. m
    BY <1>9
  <2>2. CASE a = 1
    BY <1>8, <1>9, <2>1, <2>2
  <2>3. CASE a # 1
    <3>1. a - 1 \in 1 .. m /\ a - 1 < b - 1 /\ lo[c] = q[a - 1]
      BY <1>9, <2>3
    <3>2. q[a - 1] < q[b - 1] /\ q[a - 1] \in Nat
      BY <1>8, <2>1, <3>1
    <3> QED BY <2>1, <3>1, <3>2
  <2> QED BY <2>2, <2>3
<1> QED BY <1>3, <1>6, <1>9

\* A key that is put in at its place leaves the keys sorted.
LEMMA InsertedSorted ==
  ASSUME NEW q \in Seq(Nat), Sorted(q), NEW k \in Nat, NEW i \in 1 .. Len(q) + 1,
         \A j \in 1 .. i - 1 : q[j] < k, i <= Len(q) => q[i] > k,
         NEW p \in Seq(Nat), Inserted(q, i, k, p)
  PROVE  Sorted(p)
<1>1. PICK n \in Nat : n = Len(q)
  OBVIOUS
<1>2. /\ Len(p) = n + 1
      /\ \A j \in 1 .. n + 1 : p[j] = IF j < i THEN q[j] ELSE IF j = i THEN k ELSE q[j - 1]
  BY <1>1 DEF Inserted
<1>3. ASSUME NEW j \in 1 .. n, i <= j PROVE q[j] > k
  <2>0. i \in Nat /\ i <= n /\ i \in 1 .. n
    BY <1>1, <1>3
  <2>1. q[i] > k /\ q[i] \in Nat /\ q[j] \in Nat
    BY <1>1, <2>0
  <2>2. q[i] <= q[j]
    <3>1. i < j => q[i] < q[j]
      BY <1>1, <2>0 DEF Sorted
    <3> QED BY <1>3, <2>0, <2>1, <3>1
  <2> QED BY <2>1, <2>2
<1>4. ASSUME NEW a \in 1 .. n + 1, NEW b \in 1 .. n + 1, a < b PROVE p[a] < p[b]
  <2>1. CASE a < i /\ b < i
    <3>1. a \in 1 .. n /\ b \in 1 .. n /\ p[a] = q[a] /\ p[b] = q[b]
      BY <1>1, <1>2, <1>4, <2>1
    <3> QED BY <1>1, <1>4, <3>1 DEF Sorted
  <2>2. CASE a < i /\ b = i
    BY <1>1, <1>2, <1>4, <2>2
  <2>3. CASE a < i /\ b > i
    <3>1. a \in 1 .. n /\ b - 1 \in 1 .. n /\ a < b - 1 /\ p[a] = q[a] /\ p[b] = q[b - 1]
      BY <1>1, <1>2, <1>4, <2>3
    <3> QED BY <1>1, <3>1 DEF Sorted
  <2>4. CASE a = i
    <3>1. b - 1 \in 1 .. n /\ i <= b - 1 /\ p[b] = q[b - 1] /\ p[a] = k
      BY <1>1, <1>2, <1>4, <2>4
    <3>2. q[b - 1] > k
      BY <1>3, <3>1
    <3> QED BY <3>1, <3>2
  <2>5. CASE a > i
    <3>1. a - 1 \in 1 .. n /\ b - 1 \in 1 .. n /\ a - 1 < b - 1 /\ p[a] = q[a - 1] /\ p[b] = q[b - 1]
      BY <1>1, <1>2, <1>4, <2>5
    <3> QED BY <1>1, <3>1 DEF Sorted
  <2> QED BY <2>1, <2>2, <2>3, <2>4, <2>5
<1> QED BY <1>2, <1>4 DEF Sorted

\* The parent of L knows it at the place where the key k goes.
PendingPlace(nd, lo, hi, L, k, p, i) ==
  /\ p \in DOMAIN nd /\ nd[p] \in InnerNodes /\ p # L
  /\ i \in 1 .. Len(nd[p].keys) + 1 /\ nd[p].children[i] = L
  /\ \A j \in 1 .. i - 1 : nd[p].keys[j] < k
  /\ i <= Len(nd[p].keys) => nd[p].keys[i] > k
  /\ lo[p] < k /\ Below(k, hi[p])

\* The place that lower_bound gives for the promoted key is the one just after the split node.
LEMMA PendingPlaced ==
  ASSUME NEW nd, NEW r, NEW h, NEW lo, NEW hi, NEW L, NEW k, NEW R,
         Tree(nd, r, h, lo, hi, L, k, R), R # Null, L # r
  PROVE  PendingPlace(nd, lo, hi, L, k, nd[L].parent, LowerBound(nd[nd[L].parent].keys, k))
<1>1. /\ Typed(nd) /\ Levels(nd, r, h) /\ Bounds(nd, r, lo, hi, L, R) /\ Keyed(nd, lo, hi)
      /\ Kids(nd, h, lo, hi, L, R) /\ Listed(nd, r, R) /\ Pending(nd, r, h, lo, hi, L, k, R)
  BY DEF Tree
<1>2. L \in DOMAIN nd /\ R \in DOMAIN nd /\ L # R /\ k \in Key /\ hi[L] = k /\ lo[R] = k /\ k # 0
  BY <1>1 DEF Pending
<1>3. PICK p \in DOMAIN nd : p = nd[L].parent /\ nd[p] \in InnerNodes
                             /\ \E j \in 1 .. Len(nd[p].children) : nd[p].children[j] = L
  BY <1>1, <1>2 DEF Listed
<1>4. PICK j \in 1 .. Len(nd[p].children) : nd[p].children[j] = L
  BY <1>3
<1>5. PICK q \in Seq(Nat), m \in Nat : q = nd[p].keys /\ m = Len(q)
  BY <1>1, NodeFacts
<1>6. Len(nd[p].children) = m + 1 /\ k \in Nat
  BY <1>1, <1>2, <1>3, <1>5, InnerFacts, TreeFacts
<1>7. Child(nd, h, lo, hi, L, R, p, j)
  BY <1>1, <1>3, ChildFacts
<1>8. /\ h[L] + 1 = h[p]
      /\ lo[L] = IF j = 1 THEN lo[p] ELSE q[j - 1]
      /\ hi[R] = IF j = m + 1 THEN hi[p] ELSE q[j]
  BY <1>4, <1>5, <1>6, <1>7 DEF Child, Top
<1>9. lo[L] < k /\ Below(k, hi[R])
  BY <1>1, <1>2 DEF Bounds, Below
<1>10. /\ \A a, b \in 1 .. m : a < b => q[a] < q[b]
       /\ \A a \in 1 .. m : lo[p] < q[a] /\ Below(q[a], hi[p]) /\ q[a] \in Nat
       /\ lo[p] \in Nat /\ hi[p] \in Nat /\ lo[L] \in Nat /\ hi[R] \in Nat
  <2>1. Ordered(q, m, lo[p], hi[p])
    BY <1>3, <1>5, InnerOrdered
  <2>2. lo[L] \in Nat /\ hi[R] \in Nat
    BY <1>1, <1>2 DEF Bounds
  <2> QED BY <2>1, <2>2 DEF Ordered
<1>11. j <= m => q[j] > k
  BY <1>6, <1>8, <1>9, <1>10 DEF Below
<1>12. ASSUME NEW a \in 1 .. j - 1 PROVE q[a] < k
  <2>1. j - 1 \in 1 .. m /\ a \in 1 .. m /\ a <= j - 1 /\ lo[L] = q[j - 1]
    BY <1>6, <1>8
  <2>2. q[a] <= q[j - 1]
    <3>1. q[a] \in Nat /\ q[j - 1] \in Nat
      BY <1>10, <2>1
    <3>2. a < j - 1 => q[a] < q[j - 1]
      BY <1>10, <2>1
    <3>3. a = j - 1 => q[a] = q[j - 1]
      OBVIOUS
    <3> QED BY <2>1, <3>1, <3>2, <3>3
  <2> QED BY <1>6, <1>9, <1>10, <2>1, <2>2
<1>13. LowerBound(q, k) = j
  <2>1. PICK i : i = LowerBound(q, k)
    OBVIOUS
  <2>2. i \in 1 .. m + 1 /\ (\A a \in 1 .. i - 1 : q[a] < k) /\ (i <= m => q[i] >= k)
    BY <1>5, <1>6, <2>1, LowerBoundFacts DEF IsLowerBound
  <2>3. ~(i < j)
    <3> SUFFICES ASSUME i < j PROVE FALSE
      OBVIOUS
    <3>1. i \in 1 .. m /\ i \in 1 .. j - 1
      BY <1>6, <2>2
    <3> QED BY <1>6, <1>10, <1>12, <2>2, <3>1
  <2>4. ~(j < i)
    <3> SUFFICES ASSUME j < i PROVE FALSE
      OBVIOUS
    <3>1. j \in 1 .. m /\ j \in 1 .. i - 1
      BY <1>6, <2>2
    <3> QED BY <1>6, <1>10, <1>11, <2>2, <3>1
  <2> QED BY <1>6, <2>1, <2>2, <2>3, <2>4
<1>14. lo[p] < k
  <2>1. CASE j = 1
    BY <1>8, <1>9, <2>1
  <2>2. CASE j # 1
    <3>1. j - 1 \in 1 .. m /\ lo[L] = q[j - 1]
      BY <1>6, <1>8, <2>2
    <3> QED BY <1>6, <1>9, <1>10, <3>1
  <2> QED BY <2>1, <2>2
<1>15. Below(k, hi[p])
  <2>1. CASE j = m + 1
    BY <1>8, <1>9, <2>1
  <2>2. CASE j # m + 1
    <3>1. j \in 1 .. m
      BY <1>6, <2>2
    <3> QED BY <1>6, <1>10, <1>11, <3>1 DEF Below
  <2> QED BY <2>1, <2>2
<1>16. p # L
  BY <1>1, <1>2, <1>8 DEF Levels
<1>17. \A a \in 1 .. j - 1 : q[a] < k
  BY <1>12
<1>18. PendingPlace(nd, lo, hi, L, k, p, j)
  BY <1>3, <1>4, <1>5, <1>6, <1>11, <1>14, <1>15, <1>16, <1>17 DEF PendingPlace
<1> QED BY <1>3, <1>5, <1>13, <1>18

\* insert_into_parent: p lists the new node R behind L.
LEMMA ParentTold ==
  ASSUME NEW nd, NEW r, NEW h, NEW lo, NEW hi, NEW L, NEW k, NEW R,
         Tree(nd, r, h, lo, hi, L, k, R), R # Null, L # r,
         NEW p, p = nd[L].parent, NEW i, i = LowerBound(nd[p].keys, k),
         NEW e \in InnerNodes, e.parent = nd[p].parent,
         Inserted(nd[p].keys, i, k, e.keys), Inserted(nd[p].children, i + 1, R, e.children),
         NEW nd2, DOMAIN nd2 = DOMAIN nd, nd2[p] = e,
         Like(nd[R], nd2[R]), nd2[R].parent = p,
         \A m \in DOMAIN nd \ {p, R} : nd2[m] = nd[m]
  PROVE  Tree(nd2, r, h, lo, hi, Null, 0, Null)
<1> DEFINE D == DOMAIN nd
<1>0. PendingPlace(nd, lo, hi, L, k, p, i)
  <2>1. PendingPlace(nd, lo, hi, L, k, nd[L].parent, LowerBound(nd[nd[L].parent].keys, k))
    BY PendingPlaced
  <2> QED BY <2>1, Zenon
<1>1. /\ Typed(nd) /\ Levels(nd, r, h) /\ Bounds(nd, r, lo, hi, L, R) /\ Apart(nd, h, lo, hi)
      /\ Keyed(nd, lo, hi) /\ Kids(nd, h, lo, hi, L, R) /\ Listed(nd, r, R)
      /\ Chained(nd, lo, hi) /\ Pending(nd, r, h, lo, hi, L, k, R)
  BY DEF Tree
<1>2. /\ L \in D /\ R \in D /\ L # R /\ R # r /\ h[L] = h[R] /\ nd[R].parent = p
      /\ k \in Key /\ k # 0 /\ hi[L] = k /\ lo[R] = k
  BY <1>1 DEF Pending
<1>3. PICK q \in Seq(Nat), n \in Nat, cs \in Seq(Nodes) :
        q = nd[p].keys /\ n = Len(q) /\ cs = nd[p].children /\ Len(cs) = n + 1
  <2>1. p \in D /\ nd[p] \in InnerNodes
    BY <1>0 DEF PendingPlace
  <2>2. nd[p].keys \in Seq(Nat) /\ Len(nd[p].keys) \in Nat
    BY <1>1, <2>1, NodeFacts
  <2>3. nd[p].children \in Seq(Nodes) /\ Len(nd[p].children) = Len(nd[p].keys) + 1
    BY <1>1, <2>1, InnerFacts
  <2> QED BY <2>2, <2>3
<1>4. /\ p \in D /\ nd[p] \in InnerNodes /\ p # L
      /\ i \in 1 .. n + 1 /\ cs[i] = L /\ (\A j \in 1 .. i - 1 : q[j] < k) /\ (i <= n => q[i] > k)
      /\ lo[p] < k /\ Below(k, hi[p]) /\ k \in Nat
  <2>1. k \in Nat
    BY <1>2, TreeFacts
  <2> QED BY <1>0, <1>3, <2>1 DEF PendingPlace
<1>5. Child(nd, h, lo, hi, L, R, p, i)
  BY <1>1, <1>3, <1>4, ChildFacts
<1>6. /\ h[L] + 1 = h[p] /\ nd[L].parent = p
      /\ lo[L] = IF i = 1 THEN lo[p] ELSE q[i - 1]
      /\ hi[R] = IF i = n + 1 THEN hi[p] ELSE q[i]
  BY <1>3, <1>4, <1>5 DEF Child, Top
<1>7. p # R /\ h \in [D -> Nat] /\ lo \in [D -> Nat] /\ hi \in [D -> Nat]
  <2>1. h \in [D -> Nat] /\ lo \in [D -> Nat] /\ hi \in [D -> Nat]
    BY <1>1 DEF Levels, Bounds
  <2>2. h[R] + 1 = h[p] /\ h[R] \in Nat
    BY <1>2, <1>6, <2>1
  <2>3. p # R
    <3> SUFFICES ASSUME p = R PROVE FALSE
      OBVIOUS
    <3>1. h[R] + 1 = h[R]
      BY <2>2, Zenon
    <3> QED BY ONLY <2>2, <3>1
  <2> QED BY <2>1, <2>3
<1>8. PICK q2, cs2 : q2 = e.keys /\ cs2 = e.children
  OBVIOUS
<1>9. /\ Len(q2) = n + 1 /\ Len(cs2) = n + 2 /\ q2 \in Seq(Nat) /\ cs2 \in Seq(Nodes)
      /\ \A j \in 1 .. n + 1 : q2[j] = IF j < i THEN q[j] ELSE IF j = i THEN k ELSE q[j - 1]
      /\ \A j \in 1 .. n + 2 :
           cs2[j] = IF j < i + 1 THEN cs[j] ELSE IF j = i + 1 THEN R ELSE cs[j - 1]
  <2>1. /\ Len(q2) = n + 1
        /\ \A j \in 1 .. n + 1 : q2[j] = IF j < i THEN q[j] ELSE IF j = i THEN k ELSE q[j - 1]
    BY <1>3, <1>8 DEF Inserted
  <2>2. Inserted(cs, i + 1, R, cs2)
    BY <1>3, <1>8
  <2>3. /\ Len(cs2) = n + 1 + 1
        /\ \A j \in 1 .. n + 1 + 1 :
             cs2[j] = IF j < i + 1 THEN cs[j] ELSE IF j = i + 1 THEN R ELSE cs[j - 1]
    BY <1>3, <2>2 DEF Inserted
  <2>4. n + 1 + 1 = n + 2
    OBVIOUS
  <2>5. e.keys \in Seq(Key) /\ e.children \in Seq(Nodes)
    BY DEF InnerNodes
  <2>6. q2 \in Seq(Nat)
    BY <1>8, <2>5, KeySeq
  <2> QED BY <1>8, <2>1, <2>3, <2>4, <2>5, <2>6
<1>10. /\ \A m \in D : /\ nd2[m] \in LeafNodes <=> nd[m] \in LeafNodes
                       /\ nd2[m] \in InnerNodes <=> nd[m] \in InnerNodes
                       /\ nd2[m].parent = nd[m].parent
       /\ \A m \in D : m # p => Like(nd[m], nd2[m])
  <2>1. e \notin LeafNodes /\ nd[p] \notin LeafNodes
    BY <1>4 DEF LeafNodes, InnerNodes
  <2>2. \A m \in D : m # p => Like(nd[m], nd2[m])
    BY DEF Like
  <2>3. ASSUME NEW m \in D
        PROVE /\ nd2[m] \in LeafNodes <=> nd[m] \in LeafNodes
              /\ nd2[m] \in InnerNodes <=> nd[m] \in InnerNodes
              /\ nd2[m].parent = nd[m].parent
    <3>1. CASE m = p
      BY <1>4, <2>1, <3>1
    <3>2. CASE m = R
      BY <1>2, <3>2 DEF Like
    <3>3. CASE m # p /\ m # R
      BY <3>3
    <3> QED BY <3>1, <3>2, <3>3
  <2> QED BY <2>2, <2>3
<1>11. Typed(nd2)
  <2> SUFFICES ASSUME NEW m \in D
               PROVE  /\ nd2[m] \in LeafNodes \cup InnerNodes
                      /\ nd2[m] \in LeafNodes => Len(nd2[m].values) = Len(nd2[m].keys)
                      /\ nd2[m] \in InnerNodes => Len(nd2[m].children) = Len(nd2[m].keys) + 1
    BY <1>1 DEF Typed
  <2>1. CASE m = p
    <3>1. Len(cs2) = Len(q2) + 1
      BY <1>9
    <3>2. nd2[m].children = cs2 /\ nd2[m].keys = q2
      BY <1>8, <2>1, Zenon
    <3>3. nd2[m] \in InnerNodes /\ nd2[m] \notin LeafNodes
      BY <1>4, <1>10, <2>1 DEF LeafNodes, InnerNodes
    <3> QED BY <3>1, <3>2, <3>3
  <2>2. CASE m # p
    BY <1>1, <1>10, <2>2 DEF Typed, Like
  <2> QED BY <2>1, <2>2
<1>12. Levels(nd2, r, h) /\ Apart(nd2, h, lo, hi)
  BY <1>1, <1>10 DEF Levels, Apart
<1>13. Bounds(nd2, r, lo, hi, Null, Null)
  <2>1. hi[r] = 0 /\ lo[r] = 0 /\ \A m \in D : Below(lo[m], hi[m])
    BY <1>1 DEF Bounds, Top
  <2> QED BY <1>7, <2>1 DEF Bounds, Top
<1>14. Keyed(nd2, lo, hi)
  <2> SUFFICES ASSUME NEW m \in D
               PROVE  /\ Sorted(nd2[m].keys)
                      /\ \A j \in 1 .. Len(nd2[m].keys) :
                           /\ lo[m] <= nd2[m].keys[j] /\ Below(nd2[m].keys[j], hi[m])
                           /\ nd2[m] \in InnerNodes => lo[m] < nd2[m].keys[j]
    BY DEF Keyed
  <2>1. CASE m = p
    <3>1. nd2[m].keys = q2
      BY <1>8, <2>1, Zenon
    <3>2. Ordered(q, n, lo[p], hi[p])
      BY <1>3, <1>4, InnerOrdered
    <3>3. Sorted(q2)
      <4>1. Sorted(q)
        BY <1>1, <1>3, <1>4 DEF Keyed
      <4>2. Inserted(q, i, k, q2)
        BY <1>3, <1>8
      <4> QED BY <1>3, <1>4, <1>9, <4>1, <4>2, InsertedSorted
    <3>4. ASSUME NEW j \in 1 .. n + 1
          PROVE  lo[p] < q2[j] /\ Below(q2[j], hi[p]) /\ lo[p] <= q2[j]
      <4>1. q2[j] = IF j < i THEN q[j] ELSE IF j = i THEN k ELSE q[j - 1]
        BY <1>9
      <4>2. lo[p] \in Nat /\ \A a \in 1 .. n : lo[p] < q[a] /\ Below(q[a], hi[p]) /\ q[a] \in Nat
        BY <3>2 DEF Ordered
      <4>3. CASE j < i
        BY <1>4, <4>1, <4>2, <4>3
      <4>4. CASE j = i
        BY <1>4, <4>1, <4>2, <4>4
      <4>5. CASE j > i
        <5>1. j - 1 \in 1 .. n /\ q2[j] = q[j - 1]
          BY <1>4, <4>1, <4>5
        <5> QED BY <4>2, <5>1
      <4> QED BY <1>4, <4>3, <4>4, <4>5
    <3> QED BY <1>9, <2>1, <3>1, <3>3, <3>4
  <2>2. CASE m # p
    BY <1>1, <1>10, <2>2 DEF Keyed, Like
  <2> QED BY <2>1, <2>2
<1>15. ASSUME NEW j \in 1 .. n + 1
       PROVE  /\ cs[j] \in D /\ cs[j] # R /\ nd[cs[j]].parent = p /\ h[cs[j]] + 1 = h[p]
              /\ lo[cs[j]] = IF j = 1 THEN lo[p] ELSE q[j - 1]
              /\ j # i => hi[cs[j]] = IF j = n + 1 THEN hi[p] ELSE q[j]
              /\ j # i => cs[j] # L
  <2>1. Child(nd, h, lo, hi, L, R, p, j)
    BY <1>1, <1>3, <1>4, ChildFacts
  <2>2. j # i => cs[j] # L
    <3> SUFFICES ASSUME cs[j] = L PROVE j = i
      OBVIOUS
    <3>1. /\ j \in 1 .. Len(nd[p].children) /\ i \in 1 .. Len(nd[p].children)
          /\ nd[p].children[j] = nd[p].children[i]
      BY <1>3, <1>4
    <3>2. Tree(nd, r, h, lo, hi, L, k, R) /\ p \in DOMAIN nd /\ nd[p] \in InnerNodes
      BY <1>4
    <3> QED BY ONLY <3>1, <3>2, ChildrenDiffer
  <2> QED BY <1>3, <2>1, <2>2 DEF Child, Top
<1>16. \A m \in D : Top(hi, Null, Null, m) = hi[m]
  BY <1>1, NodeFacts DEF Top
<1>17. Kids(nd2, h, lo, hi, Null, Null)
  <2> SUFFICES ASSUME NEW m \in D, nd2[m] \in InnerNodes, NEW j \in 1 .. Len(nd2[m].children)
               PROVE  Child(nd2, h, lo, hi, Null, Null, m, j)
    BY DEF Kids
  <2>1. CASE m = p
    <3>1. nd2[m].children = cs2 /\ nd2[m].keys = q2
      BY <1>8, <2>1, Zenon
    <3>2. PICK c : c = cs2[j]
      OBVIOUS
    <3>3. j \in 1 .. n + 2
      BY <1>9, <3>1
    <3>4. /\ c \in D /\ nd2[c].parent = p /\ h[c] + 1 = h[p]
          /\ lo[c] = IF j = 1 THEN lo[p] ELSE q2[j - 1]
          /\ hi[c] = IF j = n + 2 THEN hi[p] ELSE q2[j]
      <4>1. CASE j < i
        <5>1. j \in 1 .. n + 1 /\ j < i + 1 /\ j # n + 2 /\ j # i /\ j # n + 1
          BY <1>4, <3>3, <4>1
        <5>2. c = cs[j] /\ q2[j] = q[j]
          BY <1>9, <3>2, <3>3, <4>1, <5>1
        <5>3. j # 1 => q2[j - 1] = q[j - 1]
          <6>1. j # 1 => j - 1 \in 1 .. n + 1 /\ j - 1 < i
            BY <5>1, <4>1, <1>4
          <6> QED BY <1>9, <6>1
        <5>4. /\ c \in D /\ nd[c].parent = p /\ h[c] + 1 = h[p]
              /\ lo[c] = IF j = 1 THEN lo[p] ELSE q[j - 1]
              /\ hi[c] = q[j]
          BY <1>15, <5>1, <5>2
        <5> QED BY <1>10, <5>1, <5>2, <5>3, <5>4
      <4>2. CASE j = i
        <5>1. j \in 1 .. n + 1 /\ j < i + 1 /\ j # n + 2
          BY <1>4, <4>2
        <5>2. c = L /\ q2[j] = k
          BY <1>4, <1>9, <3>2, <3>3, <4>2, <5>1
        <5>3. j # 1 => q2[j - 1] = q[j - 1]
          <6>1. j # 1 => j - 1 \in 1 .. n + 1 /\ j - 1 < i
            BY <5>1, <4>2
          <6> QED BY <1>9, <6>1
        <5>4. lo[c] = IF j = 1 THEN lo[p] ELSE q2[j - 1]
          BY <1>6, <4>2, <5>2, <5>3
        <5> QED BY <1>2, <1>6, <1>10, <5>1, <5>2, <5>4
      <4>3. CASE j = i + 1
        <5>1. ~(j < i + 1) /\ j # 1 /\ j - 1 = i /\ (j = n + 2 <=> i = n + 1)
          BY <1>4, <4>3
        <5>2. c = R /\ q2[j - 1] = k
          BY <1>4, <1>9, <3>2, <3>3, <4>3, <5>1
        <5>3. j # n + 2 => q2[j] = q[i]
          <6>1. j # n + 2 => j \in 1 .. n + 1 /\ ~(j < i) /\ j # i
            BY <3>3, <4>3, <1>4
          <6> QED BY <1>9, <5>1, <6>1
        <5>4. hi[c] = IF j = n + 2 THEN hi[p] ELSE q2[j]
          BY <1>6, <5>1, <5>2, <5>3
        <5> QED BY <1>2, <1>6, <5>1, <5>2, <5>4
      <4>4. CASE j > i + 1
        <5>1. /\ j - 1 \in 1 .. n + 1 /\ j - 1 # i /\ j # 1 /\ j - 1 # 1 /\ ~(j < i + 1) /\ j # i + 1
              /\ ~(j - 1 < i) /\ (j - 1 = n + 1 <=> j = n + 2)
          <6>1. n \in Nat /\ i \in 1 .. n + 1 /\ j \in 1 .. n + 2 /\ j > i + 1
            BY <1>4, <3>3, <4>4
          <6> QED BY ONLY <6>1
        <5>2. c = cs[j - 1] /\ q2[j - 1] = q[(j - 1) - 1]
          BY <1>9, <3>2, <3>3, <5>1
        <5>3. j # n + 2 => q2[j] = q[j - 1]
          <6>1. j # n + 2 => j \in 1 .. n + 1 /\ ~(j < i) /\ j # i
            BY <1>4, <3>3, <4>4
          <6> QED BY <1>9, <6>1
        <5>4. /\ c \in D /\ nd[c].parent = p /\ h[c] + 1 = h[p]
              /\ lo[c] = q[(j - 1) - 1]
              /\ hi[c] = IF j = n + 2 THEN hi[p] ELSE q[j - 1]
          BY <1>15, <5>1, <5>2
        <5> QED BY <1>10, <5>1, <5>2, <5>3, <5>4
      <4> QED BY <1>4, <3>3, <4>1, <4>2, <4>3, <4>4
    <3>5. c # Null
      BY <1>1, <3>4, NodeFacts
    <3> QED BY <1>9, <1>16, <2>1, <3>1, <3>2, <3>4, <3>5 DEF Child
  <2>2. CASE m # p
    <3>1. nd[m] \in InnerNodes /\ nd2[m].children = nd[m].children /\ nd2[m].keys = nd[m].keys
      BY <1>10, <2>2 DEF Like
    <3>2. Child(nd, h, lo, hi, L, R, m, j)
      BY <1>1, <3>1, ChildFacts
    <3>3. PICK c : c = nd[m].children[j]
      OBVIOUS
    <3>4. /\ c \in D /\ c # R /\ nd[c].parent = m /\ h[c] + 1 = h[m]
          /\ lo[c] = IF j = 1 THEN lo[m] ELSE nd[m].keys[j - 1]
          /\ Top(hi, L, R, c) = IF j = Len(nd[m].children) THEN hi[m] ELSE nd[m].keys[j]
      BY <3>2, <3>3 DEF Child
    <3>5. c # Null /\ c # L
      BY <1>1, <1>6, <2>2, <3>4, NodeFacts
    <3>6. Top(hi, Null, Null, c) = Top(hi, L, R, c)
      BY <3>5 DEF Top
    <3> QED BY <1>10, <3>1, <3>3, <3>4, <3>5, <3>6 DEF Child
  <2> QED BY <2>1, <2>2
<1>18. Listed(nd2, r, Null)
  <2> SUFFICES ASSUME NEW m \in D, m # r
               PROVE  /\ nd2[m].parent \in D /\ nd2[nd2[m].parent] \in InnerNodes
                      /\ \E j \in 1 .. Len(nd2[nd2[m].parent].children) :
                           nd2[nd2[m].parent].children[j] = m
    BY DEF Listed
  <2>1. nd2[p].children = cs2 /\ nd2[p] \in InnerNodes
    BY <1>8, Zenon
  <2>2. CASE m = R
    <3>1. i + 1 \in 1 .. n + 2 /\ cs2[i + 1] = R
      BY <1>4, <1>9
    <3> QED BY <1>2, <1>4, <1>9, <1>10, <2>1, <2>2, <3>1
  <2>3. CASE m # R
    <3>1. PICK x \in D : x = nd[m].parent /\ nd[x] \in InnerNodes
                         /\ \E j \in 1 .. Len(nd[x].children) : nd[x].children[j] = m
      BY <1>1, <2>3 DEF Listed
    <3>2. PICK j \in 1 .. Len(nd[x].children) : nd[x].children[j] = m
      BY <3>1
    <3>3. CASE x = p
      <4>1. j \in 1 .. n + 1 /\ cs[j] = m
        BY <1>3, <3>2, <3>3
      <4>2. CASE j < i + 1
        <5>1. j \in 1 .. n + 2 /\ cs2[j] = m
          BY <1>9, <4>1, <4>2
        <5> QED BY <1>9, <1>10, <2>1, <3>1, <3>3, <5>1
      <4>3. CASE ~(j < i + 1)
        <5>1. j + 1 \in 1 .. n + 2 /\ ~(j + 1 < i + 1) /\ j + 1 # i + 1 /\ (j + 1) - 1 = j
          <6>1. n \in Nat /\ i \in 1 .. n + 1 /\ j \in 1 .. n + 1 /\ ~(j < i + 1)
            BY <1>4, <4>1, <4>3
          <6> QED BY ONLY <6>1
        <5>2. cs2[j + 1] = m
          BY <1>9, <4>1, <5>1
        <5> QED BY <1>9, <1>10, <2>1, <3>1, <3>3, <5>1, <5>2
      <4> QED BY <4>2, <4>3
    <3>4. CASE x # p
      <4>1. nd2[m].parent = x /\ nd2[x] \in InnerNodes /\ nd2[x].children = nd[x].children
        BY <1>10, <3>1, <3>4 DEF Like
      <4> QED BY <3>1, <4>1
    <3> QED BY <3>3, <3>4
  <2> QED BY <2>2, <2>3
<1>19. Chained(nd2, lo, hi)
  <2> SUFFICES ASSUME NEW m \in D, nd2[m] \in LeafNodes
               PROVE  IF nd2[m].next = Null THEN hi[m] = 0
                      ELSE /\ nd2[m].next \in D /\ nd2[nd2[m].next] \in LeafNodes
                           /\ hi[m] # 0 /\ lo[nd2[m].next] = hi[m]
    BY DEF Chained
  <2>1. nd[m] \in LeafNodes /\ m # p
    BY <1>4, <1>10 DEF LeafNodes, InnerNodes
  <2>2. nd2[m].next = nd[m].next
    BY <1>10, <2>1 DEF Like
  <2>3. PICK x : x = nd[m].next
    OBVIOUS
  <2>4. IF x = Null THEN hi[m] = 0
        ELSE /\ x \in D /\ nd[x] \in LeafNodes /\ hi[m] # 0 /\ lo[x] = hi[m]
    BY <1>1, <2>1, <2>3 DEF Chained
  <2> QED BY <1>10, <2>2, <2>3, <2>4
<1> QED BY <1>11, <1>12, <1>13, <1>14, <1>17, <1>18, <1>19 DEF Tree, Pending

\* split_internal: n keeps the keys and children up to the place mid, F takes
\* those after it with their children, and the key at mid goes up.
InnerHalves(nd, nd2, n, F, q, cs, mid, a, b) ==
  /\ q = nd[n].keys /\ cs = nd[n].children /\ mid \in 1 .. Len(q)
  /\ a \in InnerNodes /\ a.parent = nd[n].parent
  /\ Part(q, 1, mid - 1, a.keys) /\ Part(cs, 1, mid, a.children)
  /\ b \in InnerNodes /\ b.parent = nd[n].parent
  /\ Part(q, mid + 1, Len(q), b.keys) /\ Part(cs, mid + 1, Len(q) + 1, b.children)
  /\ DOMAIN nd2 = DOMAIN nd \cup {F} /\ nd2[n] = a /\ nd2[F] = b
  /\ \A m \in DOMAIN nd : m # n =>
       /\ Like(nd[m], nd2[m])
       /\ nd2[m].parent = IF \E j \in mid + 1 .. Len(q) + 1 : cs[j] = m THEN F ELSE nd[m].parent

\* split_internal: the halves of an internal node, with its middle key pending, are a tree.
LEMMA InnerCut ==
  ASSUME NEW nd, NEW r, NEW h, NEW lo, NEW hi, Tree(nd, r, h, lo, hi, Null, 0, Null),
         NEW n \in DOMAIN nd, nd[n] \in InnerNodes, NEW F \in Nodes, F \notin DOMAIN nd,
         NEW q, NEW cs, NEW mid, NEW a, NEW b, NEW nd2, InnerHalves(nd, nd2, n, F, q, cs, mid, a, b),
         NEW k, k = q[mid],
         NEW h2, NEW lo2, NEW hi2, Cut(DOMAIN nd, n, k, F, h, lo, hi, h2, lo2, hi2)
  PROVE  Tree(nd2, r, h2, lo2, hi2, n, k, F)
<1> SUFFICES ASSUME NEW N, N = Len(q), q = nd[n].keys, cs = nd[n].children, mid \in 1 .. N,
                    a \in InnerNodes, a.parent = nd[n].parent,
                    Part(q, 1, mid - 1, a.keys), Part(cs, 1, mid, a.children),
                    b \in InnerNodes, b.parent = nd[n].parent,
                    Part(q, mid + 1, N, b.keys), Part(cs, mid + 1, N + 1, b.children),
                    DOMAIN nd2 = DOMAIN nd \cup {F}, nd2[n] = a, nd2[F] = b,
                    \A m \in DOMAIN nd : m # n =>
                      /\ Like(nd[m], nd2[m])
                      /\ nd2[m].parent = IF \E j \in mid + 1 .. N + 1 : cs[j] = m THEN F ELSE nd[m].parent
             PROVE  Tree(nd2, r, h2, lo2, hi2, n, k, F)
  BY DEF InnerHalves
<1> DEFINE D == DOMAIN nd
           D2 == D \cup {F}
<1>1. /\ Typed(nd) /\ Levels(nd, r, h) /\ Bounds(nd, r, lo, hi, Null, Null) /\ Apart(nd, h, lo, hi)
      /\ Keyed(nd, lo, hi) /\ Kids(nd, h, lo, hi, Null, Null) /\ Listed(nd, r, Null)
      /\ Chained(nd, lo, hi)
  BY DEF Tree
<1>2. q \in Seq(Nat) /\ q \in Seq(Key) /\ N \in Nat /\ Len(cs) = N + 1 /\ mid \in Nat
  BY <1>1, NodeFacts, InnerFacts
<1>3. Ordered(q, N, lo[n], hi[n])
  BY InnerOrdered
<1>4. k \in Key /\ k \in Nat /\ lo[n] < k /\ Below(k, hi[n])
  <2>1. k \in Key
    BY <1>2
  <2> QED BY <1>3, <2>1, TreeFacts DEF Ordered
<1>5. /\ h2 \in [D2 -> Nat] /\ lo2 \in [D2 -> Nat] /\ hi2 \in [D2 -> Nat]
      /\ \A m \in D : h2[m] = h[m] /\ lo2[m] = lo[m] /\ (m # n => hi2[m] = hi[m])
      /\ h2[F] = h[n] /\ lo2[F] = k /\ hi2[F] = hi[n] /\ hi2[n] = k
  BY DEF Cut
<1>6. PICK qa, qb, ca, cb : qa = a.keys /\ qb = b.keys /\ ca = a.children /\ cb = b.children
  OBVIOUS
<1>7. /\ qa \in Seq(Nat) /\ Len(qa) = mid - 1 /\ Len(ca) = mid
      /\ \A j \in 1 .. mid - 1 : qa[j] = q[j]
      /\ \A j \in 1 .. mid : ca[j] = cs[j]
  <2>1. /\ Len(qa) = (mid - 1) - 1 + 1 /\ Len(ca) = mid - 1 + 1
        /\ \A j \in 1 .. (mid - 1) - 1 + 1 : qa[j] = q[j + (1 - 1)]
        /\ \A j \in 1 .. mid - 1 + 1 : ca[j] = cs[j + (1 - 1)]
    BY <1>6 DEF Part
  <2>2. (mid - 1) - 1 + 1 = mid - 1 /\ mid - 1 + 1 = mid /\ \A j \in Nat : j + (1 - 1) = j
    BY <1>2
  <2>3. qa \in Seq(Nat)
    BY <1>6, KeySeq DEF InnerNodes
  <2> QED BY <2>1, <2>2, <2>3
<1>8. /\ qb \in Seq(Nat) /\ Len(qb) = N - mid /\ Len(cb) = N + 1 - mid
      /\ \A j \in 1 .. N - mid : qb[j] = q[j + mid]
      /\ \A j \in 1 .. N + 1 - mid : cb[j] = cs[j + mid]
  <2>1. /\ Len(qb) = N - (mid + 1) + 1 /\ Len(cb) = (N + 1) - (mid + 1) + 1
        /\ \A j \in 1 .. N - (mid + 1) + 1 : qb[j] = q[j + ((mid + 1) - 1)]
        /\ \A j \in 1 .. (N + 1) - (mid + 1) + 1 : cb[j] = cs[j + ((mid + 1) - 1)]
    <3>1. Part(q, mid + 1, N, qb) /\ Part(cs, mid + 1, N + 1, cb)
      BY <1>6
    <3>2. /\ Len(qb) = N - (mid + 1) + 1
          /\ \A j \in 1 .. N - (mid + 1) + 1 : qb[j] = q[j + ((mid + 1) - 1)]
      BY <3>1, Zenon DEF Part
    <3>3. /\ Len(cb) = (N + 1) - (mid + 1) + 1
          /\ \A j \in 1 .. (N + 1) - (mid + 1) + 1 : cb[j] = cs[j + ((mid + 1) - 1)]
      BY <3>1, Zenon DEF Part
    <3> QED BY <3>2, <3>3
  <2>2. N - (mid + 1) + 1 = N - mid /\ (N + 1) - (mid + 1) + 1 = N + 1 - mid /\ (mid + 1) - 1 = mid
    <3>1. N \in Nat /\ mid \in Nat
      BY <1>2
    <3> QED BY ONLY <3>1
  <2>3. qb \in Seq(Nat)
    BY <1>6, KeySeq DEF InnerNodes
  <2> QED BY <2>1, <2>2, <2>3, ZenonT(30)
<1>9. ASSUME NEW j \in 1 .. N + 1
      PROVE  /\ cs[j] \in D /\ nd[cs[j]].parent = n /\ h[cs[j]] + 1 = h[n] /\ cs[j] # n /\ cs[j] # Null
             /\ lo[cs[j]] = IF j = 1 THEN lo[n] ELSE q[j - 1]
             /\ hi[cs[j]] = IF j = N + 1 THEN hi[n] ELSE q[j]
  <2>1. Child(nd, h, lo, hi, Null, Null, n, j)
    BY <1>1, <1>2, ChildFacts
  <2>2. /\ cs[j] \in D /\ nd[cs[j]].parent = n /\ h[cs[j]] + 1 = h[n]
        /\ lo[cs[j]] = IF j = 1 THEN lo[n] ELSE q[j - 1]
        /\ Top(hi, Null, Null, cs[j]) = IF j = N + 1 THEN hi[n] ELSE q[j]
    BY <1>2, <2>1 DEF Child
  <2>3. cs[j] # Null
    BY <1>1, <2>2, NodeFacts
  <2>4. Top(hi, Null, Null, cs[j]) = hi[cs[j]]
    BY <2>3 DEF Top
  <2>5. cs[j] # n
    BY <1>1, <2>2 DEF Levels
  <2> QED BY <2>2, <2>3, <2>4, <2>5
<1>10. ASSUME NEW i \in 1 .. N + 1, NEW j \in 1 .. N + 1, cs[i] = cs[j] PROVE i = j
  BY <1>2, <1>10, ChildrenDiffer
<1>11. /\ nd[n] \notin LeafNodes /\ a \notin LeafNodes /\ b \notin LeafNodes
       /\ \A m \in D : /\ nd2[m] \in LeafNodes <=> nd[m] \in LeafNodes
                       /\ nd2[m] \in InnerNodes <=> nd[m] \in InnerNodes
  <2>1. nd[n] \notin LeafNodes /\ a \notin LeafNodes /\ b \notin LeafNodes
    BY DEF LeafNodes, InnerNodes
  <2> QED BY <2>1 DEF Like
<1>12. ASSUME NEW m \in D, nd[m].parent # n PROVE nd2[m].parent = nd[m].parent
  <2>1. ~(\E j \in mid + 1 .. N + 1 : cs[j] = m)
    <3>1. \A j \in mid + 1 .. N + 1 : j \in 1 .. N + 1
      BY <1>2
    <3> QED BY <1>9, <1>12, <3>1
  <2> QED BY <2>1
<1>13. n # Null /\ F # Null /\ n # F /\ r \in D /\ nd[r].parent = Null
  BY <1>1, NodeFacts, TreeFacts DEF Levels
<1>14. Typed(nd2)
  <2> SUFFICES ASSUME NEW m \in D2
               PROVE  /\ nd2[m] \in LeafNodes \cup InnerNodes
                      /\ nd2[m] \in LeafNodes => Len(nd2[m].values) = Len(nd2[m].keys)
                      /\ nd2[m] \in InnerNodes => Len(nd2[m].children) = Len(nd2[m].keys) + 1
    BY <1>1 DEF Typed
  <2>1. CASE m = n
    <3>1. Len(ca) = Len(qa) + 1
      BY <1>2, <1>7
    <3>2. nd2[m].children = ca /\ nd2[m].keys = qa
      BY <1>6, <2>1, Zenon
    <3>3. nd2[m] \in InnerNodes /\ nd2[m] \notin LeafNodes
      BY <1>11, <2>1
    <3> QED BY <3>1, <3>2, <3>3
  <2>2. CASE m = F
    <3>1. Len(cb) = Len(qb) + 1
      BY <1>2, <1>8
    <3>2. nd2[m].children = cb /\ nd2[m].keys = qb
      BY <1>6, <2>2, Zenon
    <3>3. nd2[m] \in InnerNodes /\ nd2[m] \notin LeafNodes
      BY <1>11, <2>2
    <3> QED BY <3>1, <3>2, <3>3
  <2>3. CASE m # n /\ m # F
    BY <1>1, <1>11, <2>3, SMTT(30) DEF Typed, Like
  <2> QED BY <2>1, <2>2, <2>3
<1>15. CutTree(nd2, r, h2, lo2, hi2, n, k, F)
  <2>1. nd2[r].parent = nd[r].parent
    <3>1. nd[r].parent # n
      BY <1>13
    <3> QED BY <1>12, <1>13, <3>1
  <2>2. nd2[F].parent = nd2[n].parent
    OBVIOUS
  <2>3. CutNodes(nd, nd2, r, n, F)
    BY <1>11, <2>1, <2>2 DEF CutNodes
  <2> QED BY <1>4, <2>3, CutBounds
<1>16. Keyed(nd2, lo2, hi2)
  <2> SUFFICES ASSUME NEW m \in D2
               PROVE  /\ Sorted(nd2[m].keys)
                      /\ \A j \in 1 .. Len(nd2[m].keys) :
                           /\ lo2[m] <= nd2[m].keys[j] /\ Below(nd2[m].keys[j], hi2[m])
                           /\ nd2[m] \in InnerNodes => lo2[m] < nd2[m].keys[j]
    BY DEF Keyed
  <2>1. /\ \A i, j \in 1 .. N : i < j => q[i] < q[j]
        /\ \A i \in 1 .. N : lo[n] < q[i] /\ Below(q[i], hi[n]) /\ q[i] \in Nat
        /\ lo[n] \in Nat
    BY <1>3 DEF Ordered
  <2>2. CASE m = n
    <3>1. nd2[m].keys = qa
      BY <1>6, <2>2, Zenon
    <3>2. Sorted(qa)
      <4> SUFFICES ASSUME NEW i \in 1 .. mid - 1, NEW j \in 1 .. mid - 1, i < j PROVE qa[i] < qa[j]
        BY <1>7 DEF Sorted
      <4>1. i \in 1 .. N /\ j \in 1 .. N
        BY <1>2, SMTT(30)
      <4> QED BY <1>7, <2>1, <4>1
    <3>3. ASSUME NEW j \in 1 .. mid - 1
          PROVE  lo2[m] <= qa[j] /\ Below(qa[j], hi2[m]) /\ lo2[m] < qa[j]
      <4>1. j \in 1 .. N /\ j < mid /\ qa[j] = q[j] /\ mid \in 1 .. N
        BY <1>2, <1>7, SMTT(30)
      <4>2. q[j] < k /\ lo[n] < q[j] /\ q[j] \in Nat
        BY <2>1, <4>1
      <4> QED BY <1>5, <2>1, <2>2, <4>1, <4>2, SMTT(30) DEF Below
    <3> QED BY <1>7, <3>1, <3>2, <3>3
  <2>3. CASE m = F
    <3>1. nd2[m].keys = qb
      BY <1>6, <2>3, Zenon
    <3>2. Sorted(qb)
      <4> SUFFICES ASSUME NEW i \in 1 .. N - mid, NEW j \in 1 .. N - mid, i < j PROVE qb[i] < qb[j]
        BY <1>8 DEF Sorted
      <4>1. i + mid \in 1 .. N /\ j + mid \in 1 .. N /\ i + mid < j + mid
        BY <1>2
      <4> QED BY <1>8, <2>1, <4>1
    <3>3. ASSUME NEW j \in 1 .. N - mid
          PROVE  lo2[m] <= qb[j] /\ Below(qb[j], hi2[m]) /\ lo2[m] < qb[j]
      <4>1. j + mid \in 1 .. N /\ mid < j + mid /\ qb[j] = q[j + mid] /\ mid \in 1 .. N
        BY <1>2, <1>8
      <4>2. k < q[j + mid] /\ q[j + mid] \in Nat /\ Below(q[j + mid], hi[n])
        BY <2>1, <4>1
      <4> QED BY <1>4, <1>5, <2>3, <4>1, <4>2, SMTT(30)
    <3> QED BY <1>8, <3>1, <3>2, <3>3
  <2>4. CASE m # n /\ m # F
    <3>1. PICK x : x = nd[m].keys
      OBVIOUS
    <3>2. m \in D /\ nd2[m].keys = x /\ (nd2[m] \in InnerNodes <=> nd[m] \in InnerNodes)
      BY <2>4, <3>1 DEF Like
    <3>3. lo2[m] = lo[m] /\ hi2[m] = hi[m]
      BY <1>5, <2>4, <3>2
    <3>4. /\ Sorted(x)
          /\ \A j \in 1 .. Len(x) : /\ lo[m] <= x[j] /\ Below(x[j], hi[m])
                                    /\ nd[m] \in InnerNodes => lo[m] < x[j]
      BY <1>1, <3>1, <3>2 DEF Keyed
    <3> QED BY <3>2, <3>3, <3>4
  <2> QED BY <2>2, <2>3, <2>4
<1>17. Kids(nd2, h2, lo2, hi2, n, F)
  <2> SUFFICES ASSUME NEW m \in D2, nd2[m] \in InnerNodes, NEW j \in 1 .. Len(nd2[m].children)
               PROVE  Child(nd2, h2, lo2, hi2, n, F, m, j)
    BY DEF Kids
  <2>1. CASE m = n
    <3>1. nd2[m].keys = qa /\ nd2[m].children = ca
      BY <1>6, <2>1, Zenon
    <3>2. j \in 1 .. mid /\ j \in 1 .. N + 1 /\ j # N + 1
      BY <1>2, <1>7, <3>1, SMTT(30)
    <3>3. PICK c : c = ca[j]
      OBVIOUS
    <3>4. c = cs[j]
      BY <1>7, <3>2, <3>3
    <3>5. /\ c \in D /\ nd[c].parent = n /\ h[c] + 1 = h[n] /\ c # n
          /\ lo[c] = IF j = 1 THEN lo[n] ELSE q[j - 1]
          /\ hi[c] = q[j]
      BY <1>9, <3>2, <3>4
    <3>6. nd2[c].parent = n
      <4>1. \A i \in mid + 1 .. N + 1 : cs[i] # c
        <5> SUFFICES ASSUME NEW i \in mid + 1 .. N + 1, cs[i] = c PROVE FALSE
          OBVIOUS
        <5>1. i \in 1 .. N + 1 /\ i # j
          BY <1>2, <3>2
        <5> QED BY <1>10, <3>2, <3>4, <5>1
      <4> QED BY <3>5, <4>1
    <3>7. j # 1 => qa[j - 1] = q[j - 1]
      <4>1. j # 1 => j - 1 \in 1 .. mid - 1
        BY <1>2, <3>2
      <4> QED BY <1>7, <4>1
    <3>8. hi[c] = IF j = mid THEN k ELSE qa[j]
      <4>1. j # mid => j \in 1 .. mid - 1
        BY <1>2, <3>2
      <4>2. j # mid => qa[j] = q[j]
        BY <1>7, <4>1
      <4> QED BY <3>5, <4>2
    <3>9. Top(hi2, n, F, c) = hi[c] /\ c # F
      BY <1>5, <3>5 DEF Top
    <3> QED BY <1>5, <1>7, <2>1, <3>1, <3>3, <3>5, <3>6, <3>7, <3>8, <3>9 DEF Child
  <2>2. CASE m = F
    <3>1. nd2[m].keys = qb /\ nd2[m].children = cb
      BY <1>6, <2>2, Zenon
    <3>2. j \in 1 .. N + 1 - mid /\ j + mid \in 1 .. N + 1 /\ j + mid # 1
      BY <1>2, <1>8, <3>1, SMTT(30)
    <3>3. PICK c : c = cb[j]
      OBVIOUS
    <3>4. c = cs[j + mid]
      BY <1>8, <3>2, <3>3
    <3>5. /\ c \in D /\ nd[c].parent = n /\ h[c] + 1 = h[n] /\ c # n
          /\ lo[c] = q[(j + mid) - 1]
          /\ hi[c] = IF j + mid = N + 1 THEN hi[n] ELSE q[j + mid]
      BY <1>9, <3>2, <3>4
    <3>6. nd2[c].parent = F
      <4>1. j + mid \in mid + 1 .. N + 1
        BY <1>2, <3>2
      <4> QED BY <3>4, <3>5, <4>1
    <3>7. lo[c] = IF j = 1 THEN k ELSE qb[j - 1]
      <4>1. CASE j = 1
        <5>1. (j + mid) - 1 = mid
          BY <1>2, <4>1
        <5> QED BY <3>5, <4>1, <5>1
      <4>2. CASE j # 1
        <5>1. j - 1 \in 1 .. N - mid /\ (j - 1) + mid = (j + mid) - 1
          BY ONLY <1>2, <3>2, <4>2
        <5>2. qb[j - 1] = q[(j - 1) + mid]
          BY <1>8, <5>1
        <5> QED BY <3>5, <4>2, <5>1, <5>2
      <4> QED BY <4>1, <4>2
    <3>8. hi[c] = IF j = N + 1 - mid THEN hi[n] ELSE qb[j]
      <4>1. j = N + 1 - mid <=> j + mid = N + 1
        BY <1>2, <3>2
      <4>2. j # N + 1 - mid => j \in 1 .. N - mid
        BY ONLY <1>2, <3>2
      <4>3. j # N + 1 - mid => qb[j] = q[j + mid]
        BY <1>8, <4>2
      <4> QED BY <3>5, <4>1, <4>3
    <3>9. Top(hi2, n, F, c) = hi[c] /\ c # F
      BY <1>5, <3>5 DEF Top
    <3>10. h2[c] = h[c] /\ lo2[c] = lo[c] /\ h2[m] = h[n] /\ lo2[m] = k /\ hi2[m] = hi[n]
      BY <1>5, <2>2, <3>5
    <3>11. /\ lo2[c] = IF j = 1 THEN lo2[m] ELSE nd2[m].keys[j - 1]
           /\ Top(hi2, n, F, c) = IF j = N + 1 - mid THEN hi2[m] ELSE nd2[m].keys[j]
      BY <3>1, <3>7, <3>8, <3>9, <3>10
    <3>12. Len(nd2[m].children) = N + 1 - mid
      BY <1>8, <3>1
    <3>13. c \in DOMAIN nd2 /\ c # F /\ nd2[c].parent = m /\ h2[c] + 1 = h2[m]
      BY <2>2, <3>5, <3>6, <3>9, <3>10
    <3>14. nd2[m].children[j] = c
      BY <3>1, <3>3
    <3> QED BY <3>11, <3>12, <3>13, <3>14, Zenon DEF Child
  <2>3. CASE m # n /\ m # F
    <3>1. /\ m \in D /\ nd[m] \in InnerNodes /\ nd2[m].children = nd[m].children
          /\ nd2[m].keys = nd[m].keys
      BY <2>3 DEF Like
    <3>2. Child(nd, h, lo, hi, Null, Null, m, j)
      BY <1>1, <3>1, ChildFacts
    <3>3. PICK c : c = nd[m].children[j]
      OBVIOUS
    <3>4. /\ c \in D /\ nd[c].parent = m /\ h[c] + 1 = h[m]
          /\ lo[c] = IF j = 1 THEN lo[m] ELSE nd[m].keys[j - 1]
          /\ Top(hi, Null, Null, c) = IF j = Len(nd[m].children) THEN hi[m] ELSE nd[m].keys[j]
      BY <3>2, <3>3 DEF Child
    <3>5. c # Null /\ c # F
      BY <1>1, <3>4, NodeFacts
    <3>6. Top(hi2, n, F, c) = Top(hi, Null, Null, c)
      BY <1>5, <3>4, <3>5 DEF Top
    <3>7. nd2[c].parent = m
      BY <1>12, <2>3, <3>4
    <3>8. h2[c] = h[c] /\ h2[m] = h[m] /\ lo2[c] = lo[c] /\ lo2[m] = lo[m] /\ hi2[m] = hi[m]
      BY <1>5, <2>3, <3>1, <3>4
    <3> QED BY <3>1, <3>3, <3>4, <3>5, <3>6, <3>7, <3>8 DEF Child
  <2> QED BY <2>1, <2>2, <2>3
<1>18. Listed(nd2, r, F)
  <2> SUFFICES ASSUME NEW m \in D, m # r
               PROVE  /\ nd2[m].parent \in D2 /\ nd2[nd2[m].parent] \in InnerNodes
                      /\ \E j \in 1 .. Len(nd2[nd2[m].parent].children) :
                           nd2[nd2[m].parent].children[j] = m
    BY DEF Listed
  <2>1. m # Null
    BY <1>1, NodeFacts
  <2>2. PICK x \in D : x = nd[m].parent /\ nd[x] \in InnerNodes
                       /\ \E j \in 1 .. Len(nd[x].children) : nd[x].children[j] = m
    BY <1>1, <2>1 DEF Listed
  <2>3. PICK j \in 1 .. Len(nd[x].children) : nd[x].children[j] = m
    BY <2>2
  <2>4. nd2[x] \in InnerNodes
    BY <1>11, <2>2
  <2>5. CASE x = n
    <3>1. j \in 1 .. N + 1 /\ cs[j] = m /\ m # n
      BY <1>2, <1>9, <2>3, <2>5
    <3>2. CASE j <= mid
      <4>1. j \in 1 .. mid /\ ca[j] = m
        BY <1>2, <1>7, <3>1, <3>2
      <4>2. nd2[m].parent = n
        <5>1. \A i \in mid + 1 .. N + 1 : cs[i] # m
          <6> SUFFICES ASSUME NEW i \in mid + 1 .. N + 1, cs[i] = m PROVE FALSE
            OBVIOUS
          <6>1. i \in 1 .. N + 1 /\ i # j
            BY <1>2, <3>1, <3>2
          <6> QED BY <1>10, <3>1, <6>1
        <5>2. nd2[m].parent = nd[m].parent
          BY <3>1, <5>1
        <5> QED BY <2>2, <2>5, <5>2
      <4>3. nd2[n].children = ca
        BY <1>6, Zenon
      <4> QED BY <1>7, <2>4, <2>5, <4>1, <4>2, <4>3
    <3>3. CASE ~(j <= mid)
      <4>1. j \in mid + 1 .. N + 1 /\ j - mid \in 1 .. N + 1 - mid /\ (j - mid) + mid = j
        BY <1>2, <3>1, <3>3
      <4>2. cb[j - mid] = m
        BY <1>8, <3>1, <4>1
      <4>3. nd2[m].parent = F
        BY <3>1, <4>1
      <4>4. nd2[F].children = cb
        BY <1>6, Zenon
      <4>5. nd2[F] \in InnerNodes
        OBVIOUS
      <4> QED BY <1>8, <4>1, <4>2, <4>3, <4>4, <4>5
    <3> QED BY <3>2, <3>3
  <2>6. CASE x # n
    <3>1. nd2[m].parent = x
      BY <1>12, <2>2, <2>6
    <3>2. nd2[x].children = nd[x].children
      BY <2>2, <2>6 DEF Like
    <3> QED BY <2>3, <2>4, <3>1, <3>2
  <2> QED BY <2>5, <2>6
<1>19. Chained(nd2, lo2, hi2)
  <2> SUFFICES ASSUME NEW m \in D2, nd2[m] \in LeafNodes
               PROVE  IF nd2[m].next = Null THEN hi2[m] = 0
                      ELSE /\ nd2[m].next \in D2 /\ nd2[nd2[m].next] \in LeafNodes
                           /\ hi2[m] # 0 /\ lo2[nd2[m].next] = hi2[m]
    BY DEF Chained
  <2>1. m \in D /\ m # n /\ nd[m] \in LeafNodes
    BY <1>11
  <2>2. nd2[m].next = nd[m].next
    BY <2>1 DEF Like
  <2>3. PICK x : x = nd[m].next
    OBVIOUS
  <2>4. IF x = Null THEN hi[m] = 0
        ELSE /\ x \in D /\ nd[x] \in LeafNodes /\ hi[m] # 0 /\ lo[x] = hi[m]
    BY <1>1, <2>1, <2>3 DEF Chained
  <2> QED BY <1>5, <1>11, <2>1, <2>2, <2>3, <2>4
<1> QED BY <1>13, <1>14, <1>15, <1>16, <1>17, <1>18, <1>19 DEF Tree, CutTree

\* The leaves a and b are the children of p at i and i + 1: b follows a.
Neighbours(nd, h, lo, hi, p, i, a, b) ==
  /\ p \in DOMAIN nd /\ nd[p] \in InnerNodes /\ i \in 1 .. Len(nd[p].keys)
  /\ a = nd[p].children[i] /\ b = nd[p].children[i + 1]
  /\ a \in DOMAIN nd /\ b \in DOMAIN nd /\ a # b /\ a # p /\ b # p
  /\ nd[a] \in LeafNodes /\ nd[b] \in LeafNodes /\ nd[a].parent = p /\ nd[b].parent = p
  /\ h[a] = 0 /\ h[b] = 0 /\ h[p] = 1
  /\ hi[a] = nd[p].keys[i] /\ lo[b] = nd[p].keys[i] /\ hi[a] # 0
  /\ lo[a] = IF i = 1 THEN lo[p] ELSE nd[p].keys[i - 1]
  /\ hi[b] = IF i = Len(nd[p].keys) THEN hi[p] ELSE nd[p].keys[i + 1]
  /\ nd[a].next = b
  /\ \A x \in DOMAIN nd : nd[x] \in LeafNodes /\ nd[x].next = b => x = a

\* Two children side by side, over the leaves, are leaves whose ranges meet at the key between them.
LEMMA NeighboursFound ==
  ASSUME NEW nd, NEW r, NEW h, NEW lo, NEW hi, Tree(nd, r, h, lo, hi, Null, 0, Null),
         NEW p \in DOMAIN nd, nd[p] \in InnerNodes, h[p] = 1,
         NEW i \in 1 .. Len(nd[p].keys)
  PROVE  Neighbours(nd, h, lo, hi, p, i, nd[p].children[i], nd[p].children[i + 1])
<1>1. /\ Typed(nd) /\ Levels(nd, r, h) /\ Bounds(nd, r, lo, hi, Null, Null) /\ Apart(nd, h, lo, hi)
      /\ Kids(nd, h, lo, hi, Null, Null) /\ Chained(nd, lo, hi)
  BY DEF Tree
<1>2. PICK q \in Seq(Nat), n \in Nat : q = nd[p].keys /\ n = Len(q)
  BY <1>1, NodeFacts
<1>3. Len(nd[p].children) = n + 1 /\ i \in 1 .. n /\ i \in 1 .. n + 1 /\ i + 1 \in 1 .. n + 1
  BY <1>1, <1>2, InnerFacts
<1>4. PICK a, b : a = nd[p].children[i] /\ b = nd[p].children[i + 1]
  OBVIOUS
<1>5. Child(nd, h, lo, hi, Null, Null, p, i) /\ Child(nd, h, lo, hi, Null, Null, p, i + 1)
  BY <1>1, <1>3, ChildFacts
<1>6. \A m \in DOMAIN nd : m # Null /\ Top(hi, Null, Null, m) = hi[m]
  BY <1>1, NodeFacts DEF Top
<1>7. /\ a \in DOMAIN nd /\ nd[a].parent = p /\ h[a] + 1 = h[p]
      /\ lo[a] = IF i = 1 THEN lo[p] ELSE q[i - 1]
      /\ hi[a] = q[i]
  <2>1. i # n + 1
    BY <1>3
  <2> QED BY <1>2, <1>3, <1>4, <1>5, <1>6, <2>1 DEF Child
<1>8. /\ b \in DOMAIN nd /\ nd[b].parent = p /\ h[b] + 1 = h[p]
      /\ lo[b] = q[i]
      /\ hi[b] = IF i = n THEN hi[p] ELSE q[i + 1]
  <2>1. i + 1 # 1 /\ (i + 1) - 1 = i /\ (i + 1 = n + 1 <=> i = n)
    BY <1>3
  <2>2. /\ b \in DOMAIN nd /\ nd[b].parent = p /\ h[b] + 1 = h[p]
        /\ lo[b] = IF i + 1 = 1 THEN lo[p] ELSE q[(i + 1) - 1]
        /\ Top(hi, Null, Null, b) = IF i + 1 = n + 1 THEN hi[p] ELSE q[i + 1]
    BY <1>2, <1>3, <1>4, <1>5 DEF Child
  <2> QED BY <1>6, <2>1, <2>2
<1>9. h[a] = 0 /\ h[b] = 0 /\ nd[a] \in LeafNodes /\ nd[b] \in LeafNodes /\ a # p /\ b # p
  <2>1. h[a] = 0 /\ h[b] = 0
    <3>1. PICK x, y : x = h[a] /\ y = h[b]
      OBVIOUS
    <3>2. x \in Nat /\ y \in Nat
      BY <1>1, <1>7, <1>8, <3>1 DEF Levels
    <3>3. x + 1 = 1 /\ y + 1 = 1
      BY <1>7, <1>8, <3>1
    <3>4. x = 0 /\ y = 0
      BY ONLY <3>2, <3>3
    <3> QED BY <3>1, <3>4
  <2> QED BY <1>1, <1>7, <1>8, <2>1 DEF Levels
<1>10. Ordered(q, n, lo[p], hi[p])
  BY <1>2, InnerOrdered
<1>11. lo[p] < q[i] /\ q[i] \in Nat /\ lo[p] \in Nat /\ hi[a] # 0
  BY <1>3, <1>7, <1>10 DEF Ordered
<1>12. a # b
  <2>1. Below(lo[a], hi[a])
    BY <1>1, <1>7 DEF Bounds
  <2> QED BY <1>7, <1>8, <1>11, <2>1 DEF Below
<1>13. \A x \in DOMAIN nd : lo[x] \in Nat /\ hi[x] \in Nat /\ Below(lo[x], hi[x])
  BY <1>1 DEF Bounds
<1>14. \A x \in DOMAIN nd : nd[x] \in LeafNodes => h[x] = 0
  BY <1>1 DEF Levels
<1>15. ASSUME NEW x \in DOMAIN nd, NEW y \in DOMAIN nd, h[x] = h[y], lo[x] = lo[y] PROVE x = y
  <2>1. lo[x] \in Nat /\ lo[y] <= lo[x] /\ lo[x] <= lo[x] /\ Below(lo[x], hi[x]) /\ Below(lo[x], hi[y])
    BY <1>13, <1>15
  <2> QED BY <1>1, <1>13, <1>15, <2>1 DEF Apart, Below
<1>16. ASSUME NEW x \in DOMAIN nd, NEW y \in DOMAIN nd, h[x] = h[y], hi[x] = hi[y], hi[x] # 0
       PROVE  x = y
  <2>1. lo[x] \in Nat /\ lo[y] \in Nat /\ hi[x] \in Nat /\ hi[y] \in Nat /\ lo[x] < hi[x] /\ lo[y] < hi[x]
    BY <1>13, <1>16 DEF Below
  <2> QED BY <1>1, <1>16, <2>1 DEF Apart
<1>17. nd[a].next = b
  <2>1. PICK x : x = nd[a].next
    OBVIOUS
  <2>2. x \in DOMAIN nd /\ nd[x] \in LeafNodes /\ lo[x] = hi[a]
    BY <1>1, <1>7, <1>9, <1>11, <2>1 DEF Chained
  <2> QED BY <1>7, <1>8, <1>9, <1>14, <1>15, <2>1, <2>2
<1>18. ASSUME NEW x \in DOMAIN nd, nd[x] \in LeafNodes, nd[x].next = b PROVE x = a
  <2>1. hi[x] # 0 /\ lo[b] = hi[x]
    BY <1>1, <1>6, <1>8, <1>18 DEF Chained
  <2> QED BY <1>7, <1>8, <1>9, <1>14, <1>16, <1>18, <2>1
<1>19. Neighbours(nd, h, lo, hi, p, i, a, b)
  BY <1>2, <1>3, <1>4, <1>7, <1>8, <1>9, <1>11, <1>12, <1>17, <1>18 DEF Neighbours
<1> QED BY <1>4, <1>19

\* The keys of a leaf, within bounds.
Within(e, lower, upper) ==
  /\ e \in LeafNodes /\ Len(e.values) = Len(e.keys) /\ Sorted(e.keys)
  /\ \A i \in 1 .. Len(e.keys) : lower <= e.keys[i] /\ Below(e.keys[i], upper)

\* Borrowing: entries move between a and b, and s takes the place of the key
\* between them in the parent p.
ShiftedTo(nd, nd2, lo, hi, p, i, a, b, s, ea, eb, e) ==
  /\ s \in Key /\ lo[a] < s /\ Below(s, hi[b])
  /\ Within(ea, lo[a], s) /\ ea.parent = p /\ ea.next = b
  /\ Within(eb, s, hi[b]) /\ eb.parent = p /\ eb.next = nd[b].next
  /\ e \in InnerNodes /\ e.children = nd[p].children /\ e.parent = nd[p].parent
  /\ Len(e.keys) = Len(nd[p].keys)
  /\ \A j \in 1 .. Len(nd[p].keys) : e.keys[j] = IF j = i THEN s ELSE nd[p].keys[j]
  /\ DOMAIN nd2 = DOMAIN nd /\ nd2[a] = ea /\ nd2[b] = eb /\ nd2[p] = e
  /\ \A m \in DOMAIN nd : m # a /\ m # b /\ m # p => nd2[m] = nd[m]

\* A borrow: moving the bound between two neighbours with the key of the parent leaves a tree.
LEMMA Shifted ==
  ASSUME NEW nd, NEW r, NEW h, NEW lo, NEW hi, Tree(nd, r, h, lo, hi, Null, 0, Null),
         NEW p, NEW i, NEW a, NEW b, Neighbours(nd, h, lo, hi, p, i, a, b),
         NEW s, NEW ea, NEW eb, NEW e, NEW nd2, ShiftedTo(nd, nd2, lo, hi, p, i, a, b, s, ea, eb, e),
         NEW lo2, lo2 = [lo EXCEPT ![b] = s], NEW hi2, hi2 = [hi EXCEPT ![a] = s]
  PROVE  Tree(nd2, r, h, lo2, hi2, Null, 0, Null)
<1> USE DEF ShiftedTo
<1> DEFINE D == DOMAIN nd
<1>1. /\ Typed(nd) /\ Levels(nd, r, h) /\ Bounds(nd, r, lo, hi, Null, Null) /\ Apart(nd, h, lo, hi)
      /\ Keyed(nd, lo, hi) /\ Kids(nd, h, lo, hi, Null, Null) /\ Listed(nd, r, Null)
      /\ Chained(nd, lo, hi)
  BY DEF Tree
<1>2. PICK q, n : q = nd[p].keys /\ n = Len(q)
  OBVIOUS
<1>3. /\ p \in D /\ nd[p] \in InnerNodes /\ i \in 1 .. n
      /\ a = nd[p].children[i] /\ b = nd[p].children[i + 1]
      /\ a \in D /\ b \in D /\ a # b /\ a # p /\ b # p
      /\ nd[a] \in LeafNodes /\ nd[b] \in LeafNodes /\ nd[a].parent = p /\ nd[b].parent = p
      /\ h[a] = 0 /\ h[b] = 0 /\ h[p] = 1
      /\ hi[a] = q[i] /\ lo[b] = q[i] /\ hi[a] # 0
      /\ lo[a] = (IF i = 1 THEN lo[p] ELSE q[i - 1])
      /\ hi[b] = (IF i = n THEN hi[p] ELSE q[i + 1])
      /\ nd[a].next = b
      /\ \A x \in D : nd[x] \in LeafNodes /\ nd[x].next = b => x = a
  BY <1>2 DEF Neighbours
<1>4. q \in Seq(Nat) /\ n \in Nat /\ s \in Nat /\ s # 0
  <2>1. q \in Seq(Nat) /\ n \in Nat
    BY <1>1, <1>2, <1>3, NodeFacts
  <2>2. lo[a] \in Nat /\ s \in Nat
    BY <1>1, <1>3, TreeFacts DEF Bounds
  <2> QED BY <2>1, <2>2
<1>5. \A m \in D : lo[m] \in Nat /\ hi[m] \in Nat /\ Below(lo[m], hi[m]) /\ m # Null
  BY <1>1, NodeFacts DEF Bounds
<1>6. /\ lo2 \in [D -> Nat] /\ hi2 \in [D -> Nat]
      /\ \A m \in D : /\ lo2[m] = IF m = b THEN s ELSE lo[m]
                      /\ hi2[m] = IF m = a THEN s ELSE hi[m]
  <2>1. lo \in [D -> Nat] /\ hi \in [D -> Nat]
    BY <1>1 DEF Bounds
  <2> QED BY <1>4, <2>1
<1>7. ea \in LeafNodes /\ eb \in LeafNodes /\ ea \notin InnerNodes /\ eb \notin InnerNodes
      /\ e \notin LeafNodes /\ nd[p] \notin LeafNodes /\ nd[a] \notin InnerNodes /\ nd[b] \notin InnerNodes
  <2>1. ea \in LeafNodes /\ eb \in LeafNodes
    BY DEF Within
  <2> QED BY <1>3, <2>1 DEF LeafNodes, InnerNodes
<1>8. \A m \in D : /\ nd2[m] \in LeafNodes <=> nd[m] \in LeafNodes
                   /\ nd2[m] \in InnerNodes <=> nd[m] \in InnerNodes
                   /\ nd2[m].parent = nd[m].parent
                   /\ nd2[m] \in InnerNodes => m # a /\ m # b /\ nd2[m].children = nd[m].children
                                               /\ Len(nd2[m].keys) = Len(nd[m].keys)
                   /\ nd2[m] \in LeafNodes => m # p /\ nd2[m].next = nd[m].next
  <2> SUFFICES ASSUME NEW m \in D
               PROVE  /\ nd2[m] \in LeafNodes <=> nd[m] \in LeafNodes
                      /\ nd2[m] \in InnerNodes <=> nd[m] \in InnerNodes
                      /\ nd2[m].parent = nd[m].parent
                      /\ nd2[m] \in InnerNodes => m # a /\ m # b /\ nd2[m].children = nd[m].children
                                               /\ Len(nd2[m].keys) = Len(nd[m].keys)
                      /\ nd2[m] \in LeafNodes => m # p /\ nd2[m].next = nd[m].next
    OBVIOUS
  <2>1. CASE m = a
    BY <1>3, <1>7, <2>1
  <2>2. CASE m = b
    BY <1>3, <1>7, <2>2
  <2>3. CASE m = p
    BY <1>3, <1>7, <2>3
  <2>4. CASE m # a /\ m # b /\ m # p
    BY <1>3, <1>7, <2>4
  <2> QED BY <2>1, <2>2, <2>3, <2>4
<1>9. Typed(nd2)
  <2> SUFFICES ASSUME NEW m \in D
               PROVE  /\ nd2[m] \in LeafNodes \cup InnerNodes
                      /\ nd2[m] \in LeafNodes => Len(nd2[m].values) = Len(nd2[m].keys)
                      /\ nd2[m] \in InnerNodes => Len(nd2[m].children) = Len(nd2[m].keys) + 1
    BY <1>1 DEF Typed
  <2>1. nd2[m] \in InnerNodes => Len(nd2[m].children) = Len(nd2[m].keys) + 1
    <3> SUFFICES ASSUME nd2[m] \in InnerNodes PROVE Len(nd2[m].children) = Len(nd2[m].keys) + 1
      OBVIOUS
    <3>1. /\ nd[m] \in InnerNodes /\ nd2[m].children = nd[m].children
          /\ Len(nd2[m].keys) = Len(nd[m].keys)
      BY <1>8
    <3>2. Len(nd[m].children) = Len(nd[m].keys) + 1
      BY <1>1, <3>1 DEF Typed
    <3> QED BY <3>1, <3>2
  <2>2. nd2[m] \in LeafNodes \cup InnerNodes
    BY <1>1, <1>8, SMTT(30) DEF Typed
  <2>3. nd2[m] \in LeafNodes => Len(nd2[m].values) = Len(nd2[m].keys)
    <3>1. CASE m = a
      BY <3>1 DEF Within
    <3>2. CASE m = b
      BY <3>2 DEF Within
    <3>3. CASE m # a /\ m # b
      BY <1>1, <1>8, <3>3 DEF Typed
    <3> QED BY <3>1, <3>2, <3>3
  <2> QED BY <2>1, <2>2, <2>3
<1>10. Levels(nd2, r, h)
  BY <1>1, <1>8 DEF Levels
<1>11. Bounds(nd2, r, lo2, hi2, Null, Null)
  <2>1. r \in D /\ r # a /\ r # b /\ lo[r] = 0 /\ hi[r] = 0
    BY <1>1, <1>3, <1>5 DEF Levels, Bounds, Top
  <2>2. ASSUME NEW m \in D PROVE Below(lo2[m], hi2[m])
    BY <1>3, <1>4, <1>5, <1>6 DEF Below
  <2> QED BY <1>5, <1>6, <2>1, <2>2 DEF Bounds, Top
<1>12. Apart(nd2, h, lo2, hi2)
  <2> DEFINE Off(x, y) == (hi[x] # 0 /\ hi[x] <= lo[y]) \/ (hi[y] # 0 /\ hi[y] <= lo[x])
             Off2(x, y) == (hi2[x] # 0 /\ hi2[x] <= lo2[y]) \/ (hi2[y] # 0 /\ hi2[y] <= lo2[x])
  <2>1. \A x, y \in D : x # y /\ h[x] = h[y] => Off(x, y)
    BY <1>1 DEF Apart
  <2>2. Off2(a, b)
    BY <1>3, <1>4, <1>6
  <2>3. ASSUME NEW x \in D, x # a, x # b, h[x] = 0 PROVE Off2(x, a) /\ Off2(x, b)
    <3>1. Off(x, a) /\ Off(x, b)
      BY <1>3, <2>1, <2>3
    <3>2. lo2[x] = lo[x] /\ hi2[x] = hi[x] /\ lo2[a] = lo[a] /\ hi2[a] = s /\ lo2[b] = s /\ hi2[b] = hi[b]
      BY <1>3, <1>6, <2>3
    <3>3. /\ lo[x] \in Nat /\ hi[x] \in Nat /\ lo[a] \in Nat /\ hi[a] \in Nat /\ lo[b] \in Nat /\ hi[b] \in Nat
          /\ Below(lo[x], hi[x]) /\ Below(lo[a], hi[a]) /\ Below(lo[b], hi[b]) /\ hi[a] = lo[b] /\ hi[a] # 0
      BY <1>3, <1>5
    <3> QED BY ONLY <1>4, <3>1, <3>2, <3>3, lo[a] < s, Below(s, hi[b]) DEF Below
  <2>4. ASSUME NEW x \in D, NEW y \in D, x # y, h[x] = h[y] PROVE Off2(x, y)
    <3>1. CASE x \in {a, b} /\ y \in {a, b}
      BY <2>2, <2>4, <3>1
    <3>2. CASE x \notin {a, b} /\ y \in {a, b}
      <4>1. h[x] = 0
        BY <1>3, <2>4, <3>2
      <4> QED BY <2>3, <3>2, <4>1
    <3>3. CASE x \in {a, b} /\ y \notin {a, b}
      <4>1. h[y] = 0
        BY <1>3, <2>4, <3>3
      <4> QED BY <2>3, <3>3, <4>1
    <3>4. CASE x \notin {a, b} /\ y \notin {a, b}
      BY <1>6, <2>1, <2>4, <3>4
    <3> QED BY <3>1, <3>2, <3>3, <3>4
  <2> QED BY <2>4 DEF Apart
<1>13. Keyed(nd2, lo2, hi2)
  <2> SUFFICES ASSUME NEW m \in D
               PROVE  /\ Sorted(nd2[m].keys)
                      /\ \A j \in 1 .. Len(nd2[m].keys) :
                           /\ lo2[m] <= nd2[m].keys[j] /\ Below(nd2[m].keys[j], hi2[m])
                           /\ nd2[m] \in InnerNodes => lo2[m] < nd2[m].keys[j]
    BY DEF Keyed
  <2>1. CASE m = a
    BY <1>3, <1>6, <1>7, <2>1 DEF Within
  <2>2. CASE m = b
    BY <1>3, <1>6, <1>7, <2>2 DEF Within
  <2>3. CASE m = p
    <3>1. PICK q2 : q2 = e.keys
      OBVIOUS
    <3>2. /\ Len(q2) = n /\ \A j \in 1 .. n : q2[j] = IF j = i THEN s ELSE q[j]
          /\ nd2[m].keys = q2 /\ lo2[m] = lo[p] /\ hi2[m] = hi[p]
      BY <1>2, <1>3, <1>6, <2>3, <3>1
    <3>3. /\ \A x, y \in 1 .. n : x < y => q[x] < q[y]
          /\ \A x \in 1 .. n : lo[p] < q[x] /\ Below(q[x], hi[p]) /\ q[x] \in Nat
          /\ lo[p] \in Nat /\ hi[p] \in Nat
      BY <1>2, <1>3, InnerOrdered DEF Ordered
    <3>4. \A j \in 1 .. i - 1 : q[j] < s
      <4> SUFFICES ASSUME NEW j \in 1 .. i - 1 PROVE q[j] < s
        OBVIOUS
      <4>1. j \in 1 .. n /\ i - 1 \in 1 .. n /\ i # 1 /\ j <= i - 1
        BY <1>3, <1>4
      <4>2. lo[a] = q[i - 1]
        BY <1>3, <4>1
      <4>3. q[j] \in Nat /\ q[i - 1] \in Nat /\ (j < i - 1 => q[j] < q[i - 1])
        BY <3>3, <4>1
      <4> QED BY <1>4, <4>1, <4>2, <4>3
    <3>5. \A j \in i + 1 .. n : s < q[j]
      <4> SUFFICES ASSUME NEW j \in i + 1 .. n PROVE s < q[j]
        OBVIOUS
      <4>1. j \in 1 .. n /\ i + 1 \in 1 .. n /\ i # n /\ i + 1 <= j
        BY <1>3, <1>4
      <4>2. hi[b] = q[i + 1]
        BY <1>3, <4>1
      <4>3. q[j] \in Nat /\ q[i + 1] \in Nat /\ (i + 1 < j => q[i + 1] < q[j]) /\ lo[p] < q[i + 1]
        BY <3>3, <4>1
      <4> QED BY <1>4, <3>3, <4>1, <4>2, <4>3 DEF Below
    <3>6. lo[p] < s /\ Below(s, hi[p])
      <4>1. lo[p] < s
        <5>1. CASE i = 1
          BY <1>3, <5>1
        <5>2. CASE i # 1
          <6>1. i - 1 \in 1 .. n /\ i - 1 \in 1 .. i - 1
            BY <1>3, <1>4, <5>2
          <6>2. q[i - 1] < s /\ lo[p] < q[i - 1] /\ q[i - 1] \in Nat
            BY <3>3, <3>4, <6>1
          <6> QED BY <1>4, <3>3, <6>2
        <5> QED BY <5>1, <5>2
      <4>2. Below(s, hi[p])
        <5>1. CASE i = n
          BY <1>3, <5>1
        <5>2. CASE i # n
          <6>1. i + 1 \in 1 .. n /\ i + 1 \in i + 1 .. n
            BY <1>3, <1>4, <5>2
          <6>2. s < q[i + 1] /\ Below(q[i + 1], hi[p]) /\ q[i + 1] \in Nat
            BY <3>3, <3>5, <6>1
          <6> QED BY <1>4, <3>3, <6>2 DEF Below
        <5> QED BY <5>1, <5>2
      <4> QED BY <4>1, <4>2
    <3>7. Sorted(q2)
      <4> SUFFICES ASSUME NEW x \in 1 .. n, NEW y \in 1 .. n, x < y PROVE q2[x] < q2[y]
        BY <3>2 DEF Sorted
      <4>1. CASE x = i
        <5>1. y \in i + 1 .. n /\ y # i
          BY <1>3, <1>4, <4>1
        <5> QED BY <3>2, <3>5, <4>1, <5>1
      <4>2. CASE y = i
        <5>1. x \in 1 .. i - 1 /\ x # i
          BY <1>3, <1>4, <4>2
        <5> QED BY <3>2, <3>4, <4>2, <5>1
      <4>3. CASE x # i /\ y # i
        BY <3>2, <3>3, <4>3
      <4> QED BY <4>1, <4>2, <4>3
    <3>8. ASSUME NEW j \in 1 .. n PROVE lo[p] < q2[j] /\ Below(q2[j], hi[p]) /\ lo[p] <= q2[j]
      <4>1. CASE j = i
        <5>1. q2[j] = s
          BY <3>2, <4>1
        <5> QED BY <1>4, <3>3, <3>6, <5>1
      <4>2. CASE j # i
        <5>1. q2[j] = q[j] /\ q[j] \in Nat /\ lo[p] < q[j] /\ Below(q[j], hi[p])
          BY <3>2, <3>3, <4>2
        <5> QED BY <3>3, <5>1
      <4> QED BY <4>1, <4>2
    <3> QED BY <3>2, <3>7, <3>8
  <2>4. CASE m # a /\ m # b /\ m # p
    BY <1>1, <1>6, <2>4 DEF Keyed
  <2> QED BY <2>1, <2>2, <2>3, <2>4
<1>14. Kids(nd2, h, lo2, hi2, Null, Null)
  <2> SUFFICES ASSUME NEW m \in D, nd2[m] \in InnerNodes, NEW j \in 1 .. Len(nd2[m].children)
               PROVE  Child(nd2, h, lo2, hi2, Null, Null, m, j)
    BY DEF Kids
  <2>1. /\ nd[m] \in InnerNodes /\ nd2[m].children = nd[m].children /\ m # a /\ m # b
        /\ lo2[m] = lo[m] /\ hi2[m] = hi[m]
    BY <1>6, <1>8
  <2>2. Child(nd, h, lo, hi, Null, Null, m, j)
    BY <1>1, <2>1, ChildFacts
  <2>3. PICK c : c = nd[m].children[j]
    OBVIOUS
  <2>4. /\ c \in D /\ nd[c].parent = m /\ h[c] + 1 = h[m]
        /\ lo[c] = IF j = 1 THEN lo[m] ELSE nd[m].keys[j - 1]
        /\ Top(hi, Null, Null, c) = IF j = Len(nd[m].children) THEN hi[m] ELSE nd[m].keys[j]
    BY <2>2, <2>3 DEF Child
  <2>5. Top(hi, Null, Null, c) = hi[c] /\ Top(hi2, Null, Null, c) = hi2[c] /\ nd2[c].parent = m
        /\ c # Null
    BY <1>5, <1>8, <2>4 DEF Top
  <2>6. CASE m = p
    <3>1. Len(nd[m].children) = n + 1
      BY <1>1, <1>2, <2>1, <2>6, InnerFacts
    <3>2. PICK q2 : q2 = nd2[m].keys
      OBVIOUS
    <3>3. Len(q2) = n /\ \A x \in 1 .. n : q2[x] = IF x = i THEN s ELSE q[x]
      BY <1>2, <2>6, <3>2
    <3>4. j \in 1 .. n + 1 /\ i \in 1 .. n + 1 /\ i + 1 \in 1 .. n + 1
      BY <1>3, <1>4, <2>1, <3>1
    <3>5. (c = a <=> j = i) /\ (c = b <=> j = i + 1)
      BY <1>3, <2>1, <2>3, <2>6, <3>1, <3>4, ChildrenDiffer
    <3>6. lo2[c] = IF j = 1 THEN lo2[m] ELSE q2[j - 1]
      <4>1. CASE j = 1
        <5>1. c # b
          BY <1>3, <1>4, <3>5, <4>1
        <5> QED BY <1>6, <2>1, <2>4, <4>1, <5>1
      <4>2. CASE j # 1
        <5>1. j - 1 \in 1 .. n /\ (j - 1 = i <=> j = i + 1)
          BY <1>3, <1>4, <3>4, <4>2
        <5>2. lo[c] = q[j - 1]
          BY <1>2, <2>4, <2>6, <4>2
        <5> QED BY <1>6, <2>4, <3>3, <3>5, <4>2, <5>1, <5>2
      <4> QED BY <4>1, <4>2
    <3>7. hi2[c] = IF j = n + 1 THEN hi2[m] ELSE q2[j]
      <4>1. CASE j = n + 1
        <5>1. c # a
          BY <1>3, <1>4, <3>5, <4>1
        <5> QED BY <1>6, <2>1, <2>4, <2>5, <3>1, <4>1, <5>1
      <4>2. CASE j # n + 1
        <5>1. j \in 1 .. n
          BY <1>4, <3>4, <4>2
        <5>2. hi[c] = q[j]
          BY <1>2, <2>4, <2>5, <2>6, <3>1, <4>2
        <5> QED BY <1>6, <2>4, <3>3, <3>5, <4>2, <5>1, <5>2
      <4> QED BY <4>1, <4>2
    <3> QED BY <2>1, <2>3, <2>4, <2>5, <3>1, <3>2, <3>6, <3>7 DEF Child
  <2>7. CASE m # p
    <3>1. c # a /\ c # b /\ nd2[m].keys = nd[m].keys
      BY <1>3, <2>1, <2>4, <2>7
    <3>2. lo2[c] = lo[c] /\ hi2[c] = hi[c]
      BY <1>6, <2>4, <3>1
    <3> QED BY <2>1, <2>3, <2>4, <2>5, <3>1, <3>2 DEF Child
  <2> QED BY <2>6, <2>7
<1>15. Listed(nd2, r, Null)
  <2> SUFFICES ASSUME NEW m \in D, m # r
               PROVE  /\ nd2[m].parent \in D /\ nd2[nd2[m].parent] \in InnerNodes
                      /\ \E j \in 1 .. Len(nd2[nd2[m].parent].children) :
                           nd2[nd2[m].parent].children[j] = m
    BY DEF Listed
  <2>1. PICK x \in D : x = nd[m].parent /\ nd[x] \in InnerNodes
                       /\ \E j \in 1 .. Len(nd[x].children) : nd[x].children[j] = m
    BY <1>1, <1>5 DEF Listed
  <2>2. nd2[m].parent = x /\ nd2[x] \in InnerNodes /\ nd2[x].children = nd[x].children
    BY <1>8, <2>1
  <2> QED BY <2>1, <2>2
<1>16. Chained(nd2, lo2, hi2)
  <2> SUFFICES ASSUME NEW m \in D, nd2[m] \in LeafNodes
               PROVE  IF nd2[m].next = Null THEN hi2[m] = 0
                      ELSE /\ nd2[m].next \in D /\ nd2[nd2[m].next] \in LeafNodes
                           /\ hi2[m] # 0 /\ lo2[nd2[m].next] = hi2[m]
    BY DEF Chained
  <2>1. nd[m] \in LeafNodes /\ nd2[m].next = nd[m].next
    BY <1>8
  <2>2. PICK x : x = nd[m].next
    OBVIOUS
  <2>3. IF x = Null THEN hi[m] = 0
        ELSE /\ x \in D /\ nd[x] \in LeafNodes /\ hi[m] # 0 /\ lo[x] = hi[m]
    BY <1>1, <2>1, <2>2 DEF Chained
  <2>4. CASE m = a
    BY <1>3, <1>4, <1>5, <1>6, <1>8, <2>1, <2>4
  <2>5. CASE m # a
    <3>1. x # b /\ hi2[m] = hi[m]
      BY <1>3, <1>6, <2>1, <2>2, <2>5
    <3> QED BY <1>6, <1>8, <2>1, <2>2, <2>3, <3>1
  <2> QED BY <2>4, <2>5
<1> QED BY <1>9, <1>10, <1>11, <1>12, <1>13, <1>14, <1>15, <1>16 DEF Tree, Pending

\* The ranges when the leaf b becomes part of a.
Fused(D, a, b, h, lo, hi, h2, lo2, hi2) ==
  /\ h2 \in [D \ {b} -> Nat] /\ lo2 \in [D \ {b} -> Nat] /\ hi2 \in [D \ {b} -> Nat]
  /\ \A m \in D \ {b} : /\ h2[m] = h[m] /\ lo2[m] = lo[m]
                        /\ hi2[m] = IF m = a THEN hi[b] ELSE hi[m]

\* Heights and ranges for a tree with one node merged into another exist.
LEMMA FusedExists ==
  ASSUME NEW D, NEW a \in D, NEW b \in D, a # b,
         NEW h \in [D -> Nat], NEW lo \in [D -> Nat], NEW hi \in [D -> Nat]
  PROVE  \E h2, lo2, hi2 : Fused(D, a, b, h, lo, hi, h2, lo2, hi2)
<1>1. PICK h2 : h2 = [m \in D \ {b} |-> h[m]]
  OBVIOUS
<1>2. PICK lo2 : lo2 = [m \in D \ {b} |-> lo[m]]
  OBVIOUS
<1>3. PICK hi2 : hi2 = [m \in D \ {b} |-> IF m = a THEN hi[b] ELSE hi[m]]
  OBVIOUS
<1>4. h2 \in [D \ {b} -> Nat] /\ lo2 \in [D \ {b} -> Nat] /\ hi2 \in [D \ {b} -> Nat]
  BY <1>1, <1>2, <1>3
<1>5. Fused(D, a, b, h, lo, hi, h2, lo2, hi2)
  BY <1>1, <1>2, <1>3, <1>4 DEF Fused
<1> QED BY <1>5

\* A merge: a takes the entries of b, and p loses b and the key before it.
MergedTo(nd, nd2, lo, hi, p, i, a, b, ea, e) ==
  /\ Within(ea, lo[a], hi[b]) /\ ea.parent = p /\ ea.next = nd[b].next
  /\ e \in InnerNodes /\ e.parent = nd[p].parent
  /\ Removed(nd[p].keys, i, e.keys) /\ Removed(nd[p].children, i + 1, e.children)
  /\ DOMAIN nd2 = DOMAIN nd \ {b} /\ nd2[a] = ea /\ nd2[p] = e
  /\ \A m \in DOMAIN nd : m # a /\ m # b /\ m # p => nd2[m] = nd[m]

\* A merge: one leaf with the range of both, the other unlinked and its key removed, is a tree.
LEMMA Merged ==
  ASSUME NEW nd, NEW r, NEW h, NEW lo, NEW hi, Tree(nd, r, h, lo, hi, Null, 0, Null),
         NEW p, NEW i, NEW a, NEW b, Neighbours(nd, h, lo, hi, p, i, a, b),
         NEW ea, NEW e, NEW nd2, MergedTo(nd, nd2, lo, hi, p, i, a, b, ea, e),
         NEW h2, NEW lo2, NEW hi2, Fused(DOMAIN nd, a, b, h, lo, hi, h2, lo2, hi2)
  PROVE  Tree(nd2, r, h2, lo2, hi2, Null, 0, Null)
<1> USE DEF MergedTo
<1> DEFINE D == DOMAIN nd
           D2 == D \ {b}
<1>1. /\ Typed(nd) /\ Levels(nd, r, h) /\ Bounds(nd, r, lo, hi, Null, Null) /\ Apart(nd, h, lo, hi)
      /\ Keyed(nd, lo, hi) /\ Kids(nd, h, lo, hi, Null, Null) /\ Listed(nd, r, Null)
      /\ Chained(nd, lo, hi)
  BY DEF Tree
<1>2. PICK q, n, cs : q = nd[p].keys /\ n = Len(q) /\ cs = nd[p].children
  OBVIOUS
<1>3. /\ p \in D /\ nd[p] \in InnerNodes /\ i \in 1 .. n /\ a = cs[i] /\ b = cs[i + 1]
      /\ a \in D /\ b \in D /\ a # b /\ a # p /\ b # p
      /\ nd[a] \in LeafNodes /\ nd[b] \in LeafNodes /\ nd[a].parent = p /\ nd[b].parent = p
      /\ h[a] = 0 /\ h[b] = 0 /\ h[p] = 1
      /\ hi[a] = q[i] /\ lo[b] = q[i] /\ hi[a] # 0
      /\ lo[a] = (IF i = 1 THEN lo[p] ELSE q[i - 1])
      /\ hi[b] = (IF i = n THEN hi[p] ELSE q[i + 1])
      /\ nd[a].next = b
      /\ \A x \in D : nd[x] \in LeafNodes /\ nd[x].next = b => x = a
  BY <1>2 DEF Neighbours
<1>4. q \in Seq(Nat) /\ n \in Nat /\ Len(cs) = n + 1
  BY <1>1, <1>2, <1>3, NodeFacts, InnerFacts
<1>5. \A m \in D : lo[m] \in Nat /\ hi[m] \in Nat /\ Below(lo[m], hi[m]) /\ m # Null
  BY <1>1, NodeFacts DEF Bounds
<1>6. /\ h2 \in [D2 -> Nat] /\ lo2 \in [D2 -> Nat] /\ hi2 \in [D2 -> Nat]
      /\ \A m \in D2 : /\ h2[m] = h[m] /\ lo2[m] = lo[m]
                       /\ hi2[m] = IF m = a THEN hi[b] ELSE hi[m]
  BY DEF Fused
<1>7. PICK q2, cs2 : q2 = e.keys /\ cs2 = e.children
  OBVIOUS
<1>8. /\ Len(q2) = n - 1 /\ Len(cs2) = n /\ q2 \in Seq(Nat)
      /\ \A j \in 1 .. n - 1 : q2[j] = IF j < i THEN q[j] ELSE q[j + 1]
      /\ \A j \in 1 .. n : cs2[j] = IF j < i + 1 THEN cs[j] ELSE cs[j + 1]
  <2>1. /\ Len(q2) = n - 1 /\ \A j \in 1 .. n - 1 : q2[j] = IF j < i THEN q[j] ELSE q[j + 1]
    BY <1>2, <1>7 DEF Removed
  <2>2. Removed(cs, i + 1, cs2) /\ Len(cs) - 1 = n
    BY <1>2, <1>4, <1>7
  <2>3. /\ Len(cs2) = Len(cs) - 1
        /\ \A j \in 1 .. Len(cs) - 1 : cs2[j] = IF j < i + 1 THEN cs[j] ELSE cs[j + 1]
    BY <2>2 DEF Removed
  <2>4. q2 \in Seq(Nat)
    BY <1>7, KeySeq DEF InnerNodes
  <2> QED BY <2>1, <2>2, <2>3, <2>4
<1>9. ea \in LeafNodes /\ ea \notin InnerNodes /\ e \notin LeafNodes
      /\ nd[p] \notin LeafNodes /\ nd[a] \notin InnerNodes
  <2>1. ea \in LeafNodes
    BY DEF Within
  <2> QED BY <1>3, <2>1 DEF LeafNodes, InnerNodes
<1>10. \A m \in D2 : /\ nd2[m] \in LeafNodes <=> nd[m] \in LeafNodes
                     /\ nd2[m] \in InnerNodes <=> nd[m] \in InnerNodes
                     /\ nd2[m].parent = nd[m].parent
                     /\ m # a /\ m # p => nd2[m] = nd[m]
  BY <1>3, <1>9
<1>11. Typed(nd2)
  <2> SUFFICES ASSUME NEW m \in D2
               PROVE  /\ nd2[m] \in LeafNodes \cup InnerNodes
                      /\ nd2[m] \in LeafNodes => Len(nd2[m].values) = Len(nd2[m].keys)
                      /\ nd2[m] \in InnerNodes => Len(nd2[m].children) = Len(nd2[m].keys) + 1
    BY <1>1 DEF Typed
  <2>1. CASE m = a
    BY <1>9, <2>1 DEF Within
  <2>2. CASE m = p
    <3>1. Len(cs2) = Len(q2) + 1
      BY <1>4, <1>8
    <3>2. nd2[m].children = cs2 /\ nd2[m].keys = q2
      BY <1>7, <2>2, Zenon
    <3> QED BY <1>9, <2>2, <3>1, <3>2
  <2>3. CASE m # a /\ m # p
    BY <1>1, <1>10, <2>3 DEF Typed
  <2> QED BY <2>1, <2>2, <2>3
<1>12. r \in D2 /\ r # a /\ r # b /\ nd2[r].parent = Null
  <2>1. r \in D /\ nd[r].parent = Null
    BY <1>1 DEF Levels
  <2>2. r # a /\ r # b
    BY <1>3, <1>5, <2>1
  <2> QED BY <1>10, <2>1, <2>2
<1>13. Levels(nd2, r, h2)
  BY <1>1, <1>6, <1>10, <1>12 DEF Levels
<1>14. Bounds(nd2, r, lo2, hi2, Null, Null)
  <2>1. lo[r] = 0 /\ hi[r] = 0
    BY <1>1, <1>5, <1>12 DEF Levels, Bounds, Top
  <2>2. ASSUME NEW m \in D2 PROVE Below(lo2[m], hi2[m])
    <3>1. CASE m = a
      <4>1. Below(lo[a], hi[a]) /\ Below(lo[b], hi[b])
        BY <1>3, <1>5
      <4>2. lo[a] \in Nat /\ hi[a] \in Nat /\ lo[b] \in Nat /\ hi[b] \in Nat
        BY <1>3, <1>5
      <4> QED BY <1>3, <1>6, <3>1, <4>1, <4>2 DEF Below
    <3>2. CASE m # a
      BY <1>5, <1>6, <3>2
    <3> QED BY <3>1, <3>2
  <2>3. r # Null
    BY <1>5, <1>12
  <2> QED BY <1>6, <1>12, <2>1, <2>2, <2>3 DEF Bounds, Top
<1>15. Apart(nd2, h2, lo2, hi2)
  <2> DEFINE Off(x, y) == (hi[x] # 0 /\ hi[x] <= lo[y]) \/ (hi[y] # 0 /\ hi[y] <= lo[x])
             Off2(x, y) == (hi2[x] # 0 /\ hi2[x] <= lo2[y]) \/ (hi2[y] # 0 /\ hi2[y] <= lo2[x])
  <2>1. \A x, y \in D : x # y /\ h[x] = h[y] => Off(x, y)
    BY <1>1 DEF Apart
  <2>2. ASSUME NEW x \in D2, x # a, h[x] = 0 PROVE Off2(x, a)
    <3>1. Off(x, a) /\ Off(x, b)
      BY <1>3, <2>1, <2>2
    <3>2. lo2[x] = lo[x] /\ hi2[x] = hi[x] /\ lo2[a] = lo[a] /\ hi2[a] = hi[b]
      BY <1>3, <1>6, <2>2
    <3>3. /\ lo[x] \in Nat /\ hi[x] \in Nat /\ lo[a] \in Nat /\ hi[a] \in Nat /\ lo[b] \in Nat /\ hi[b] \in Nat
          /\ Below(lo[x], hi[x]) /\ Below(lo[a], hi[a]) /\ Below(lo[b], hi[b]) /\ hi[a] = lo[b] /\ hi[a] # 0
      BY <1>3, <1>5
    <3> QED BY ONLY <3>1, <3>2, <3>3 DEF Below
  <2>3. ASSUME NEW x \in D2, NEW y \in D2, x # y, h2[x] = h2[y] PROVE Off2(x, y)
    <3>1. CASE y = a
      <4>1. h[x] = 0
        BY <1>3, <1>6, <2>3, <3>1
      <4> QED BY <2>2, <2>3, <3>1, <4>1
    <3>2. CASE x = a
      <4>1. h[y] = 0
        BY <1>3, <1>6, <2>3, <3>2
      <4> QED BY <2>2, <2>3, <3>2, <4>1
    <3>3. CASE x # a /\ y # a
      BY <1>6, <2>1, <2>3, <3>3
    <3> QED BY <3>1, <3>2, <3>3
  <2> QED BY <2>3 DEF Apart
<1>16. Ordered(q, n, lo[p], hi[p])
  BY <1>2, <1>3, InnerOrdered
<1>17. Keyed(nd2, lo2, hi2)
  <2> SUFFICES ASSUME NEW m \in D2
               PROVE  /\ Sorted(nd2[m].keys)
                      /\ \A j \in 1 .. Len(nd2[m].keys) :
                           /\ lo2[m] <= nd2[m].keys[j] /\ Below(nd2[m].keys[j], hi2[m])
                           /\ nd2[m] \in InnerNodes => lo2[m] < nd2[m].keys[j]
    BY DEF Keyed
  <2>1. CASE m = a
    BY <1>3, <1>6, <1>9, <2>1 DEF Within
  <2>2. CASE m = p
    <3>1. nd2[m].keys = q2 /\ lo2[m] = lo[p] /\ hi2[m] = hi[p]
      BY <1>3, <1>6, <1>7, <2>2
    <3>2. /\ \A x, y \in 1 .. n : x < y => q[x] < q[y]
          /\ \A x \in 1 .. n : lo[p] < q[x] /\ Below(q[x], hi[p]) /\ q[x] \in Nat
          /\ lo[p] \in Nat
      BY <1>16 DEF Ordered
    <3>3. \A j \in 1 .. n - 1 : j \in 1 .. n /\ j + 1 \in 1 .. n
      BY <1>4
    <3>4. \A j \in 1 .. n - 1 : lo[p] < q2[j] /\ Below(q2[j], hi[p]) /\ lo[p] <= q2[j]
      <4> SUFFICES ASSUME NEW j \in 1 .. n - 1
                   PROVE  lo[p] < q2[j] /\ Below(q2[j], hi[p]) /\ lo[p] <= q2[j]
        OBVIOUS
      <4>1. PICK y \in 1 .. n : q2[j] = q[y]
        BY <1>8, <3>3
      <4> QED BY <3>2, <4>1
    <3>5. Sorted(q2)
      <4> SUFFICES ASSUME NEW x \in 1 .. n - 1, NEW y \in 1 .. n - 1, x < y PROVE q2[x] < q2[y]
        BY <1>8 DEF Sorted
      <4>1. CASE y < i
        <5>1. q2[x] = q[x] /\ q2[y] = q[y]
          BY <1>3, <1>4, <1>8, <4>1, SMTT(30)
        <5> QED BY <3>2, <3>3, <5>1
      <4>2. CASE x < i /\ ~(y < i)
        <5>1. x < y + 1 /\ q2[x] = q[x] /\ q2[y] = q[y + 1]
          BY <1>8, <4>2
        <5> QED BY <3>2, <3>3, <5>1
      <4>3. CASE ~(x < i)
        <5>1. x + 1 < y + 1 /\ q2[x] = q[x + 1] /\ q2[y] = q[y + 1]
          BY <1>3, <1>4, <1>8, <4>3, SMTT(30)
        <5> QED BY <3>2, <3>3, <5>1
      <4> QED BY <4>1, <4>2, <4>3
    <3> QED BY <1>8, <3>1, <3>4, <3>5
  <2>3. CASE m # a /\ m # p
    BY <1>1, <1>6, <1>10, <2>3 DEF Keyed
  <2> QED BY <2>1, <2>2, <2>3
<1>18. ASSUME NEW j \in 1 .. n + 1
       PROVE  /\ cs[j] \in D /\ nd[cs[j]].parent = p /\ h[cs[j]] + 1 = h[p]
              /\ lo[cs[j]] = IF j = 1 THEN lo[p] ELSE q[j - 1]
              /\ hi[cs[j]] = IF j = n + 1 THEN hi[p] ELSE q[j]
              /\ (cs[j] = a <=> j = i) /\ (cs[j] = b <=> j = i + 1)
  <2>1. Child(nd, h, lo, hi, Null, Null, p, j)
    BY <1>1, <1>2, <1>3, <1>4, ChildFacts
  <2>2. /\ cs[j] \in D /\ nd[cs[j]].parent = p /\ h[cs[j]] + 1 = h[p]
        /\ lo[cs[j]] = IF j = 1 THEN lo[p] ELSE q[j - 1]
        /\ Top(hi, Null, Null, cs[j]) = IF j = n + 1 THEN hi[p] ELSE q[j]
    BY <1>2, <1>4, <2>1 DEF Child
  <2>3. Top(hi, Null, Null, cs[j]) = hi[cs[j]]
    BY <1>5, <2>2 DEF Top
  <2>4. i \in 1 .. n + 1 /\ i + 1 \in 1 .. n + 1
    BY <1>3, <1>4
  <2>5. (cs[j] = a <=> j = i) /\ (cs[j] = b <=> j = i + 1)
    BY <1>2, <1>3, <1>4, <2>4, ChildrenDiffer
  <2> QED BY <2>2, <2>3, <2>5
<1>19. \A m \in D2 : Top(hi2, Null, Null, m) = hi2[m]
  BY <1>5 DEF Top
<1>20. Kids(nd2, h2, lo2, hi2, Null, Null)
  <2> SUFFICES ASSUME NEW m \in D2, nd2[m] \in InnerNodes, NEW j \in 1 .. Len(nd2[m].children)
               PROVE  Child(nd2, h2, lo2, hi2, Null, Null, m, j)
    BY DEF Kids
  <2>1. nd[m] \in InnerNodes /\ m # a /\ lo2[m] = lo[m] /\ hi2[m] = hi[m] /\ h2[m] = h[m]
    BY <1>6, <1>9, <1>10
  <2>2. CASE m = p
    <3>1. nd2[m].children = cs2 /\ nd2[m].keys = q2
      BY <1>7, <2>2, Zenon
    <3>2. PICK c : c = cs2[j]
      OBVIOUS
    <3>3. j \in 1 .. n
      BY <1>8, <3>1
    <3>4. /\ c \in D2 /\ nd[c].parent = p /\ h[c] + 1 = h[p]
          /\ lo[c] = IF j = 1 THEN lo[p] ELSE q2[j - 1]
          /\ hi2[c] = IF j = n THEN hi[p] ELSE q2[j]
      <4>1. CASE j < i
        <5>1. j \in 1 .. n + 1 /\ j < i + 1 /\ j # n /\ j # i /\ j # i + 1 /\ j # n + 1
          BY <1>3, <1>4, <3>3, <4>1
        <5>2. c = cs[j] /\ q2[j] = q[j]
          <6>1. j \in 1 .. n - 1
            BY <1>3, <1>4, <3>3, <4>1
          <6> QED BY <1>8, <3>2, <3>3, <4>1, <5>1, <6>1
        <5>3. j # 1 => q2[j - 1] = q[j - 1]
          <6>1. j # 1 => j - 1 \in 1 .. n - 1 /\ j - 1 < i
            BY <1>3, <1>4, <3>3, <4>1
          <6> QED BY <1>8, <6>1
        <5>4. /\ c \in D /\ nd[c].parent = p /\ h[c] + 1 = h[p] /\ c # a /\ c # b
              /\ lo[c] = IF j = 1 THEN lo[p] ELSE q[j - 1]
              /\ hi[c] = q[j]
          BY <1>18, <5>1, <5>2
        <5>5. hi2[c] = hi[c]
          BY <1>6, <5>4
        <5> QED BY <5>1, <5>2, <5>3, <5>4, <5>5
      <4>2. CASE j = i
        <5>1. j \in 1 .. n + 1 /\ j < i + 1
          BY <1>3, <1>4, <3>3, <4>2
        <5>2. c = a
          BY <1>3, <1>8, <3>2, <3>3, <4>2, <5>1
        <5>3. j # 1 => q2[j - 1] = q[j - 1]
          <6>1. j # 1 => j - 1 \in 1 .. n - 1 /\ j - 1 < i
            BY <1>3, <1>4, <3>3, <4>2
          <6> QED BY <1>8, <6>1
        <5>4. j # n => q2[j] = q[j + 1]
          <6>1. j # n => j \in 1 .. n - 1 /\ ~(j < i)
            BY <1>3, <1>4, <3>3, <4>2
          <6> QED BY <1>8, <6>1
        <5>5. hi2[c] = IF j = n THEN hi[p] ELSE q2[j]
          BY <1>3, <1>6, <4>2, <5>2, <5>4
        <5>6. lo[c] = IF j = 1 THEN lo[p] ELSE q2[j - 1]
          BY <1>3, <4>2, <5>2, <5>3
        <5>7. c \in D2 /\ nd[c].parent = p /\ h[c] + 1 = h[p]
          BY <1>3, <5>2
        <5> QED BY <5>5, <5>6, <5>7
      <4>3. CASE j > i
        <5>1. /\ j + 1 \in 1 .. n + 1 /\ ~(j < i + 1) /\ j + 1 # i /\ j + 1 # i + 1 /\ j + 1 # 1 /\ j # 1
              /\ (j + 1) - 1 = j /\ (j + 1 = n + 1 <=> j = n)
          BY <1>3, <1>4, <3>3, <4>3
        <5>2. c = cs[j + 1]
          BY <1>8, <3>2, <3>3, <5>1
        <5>3. q2[j - 1] = q[j]
          <6>1. j - 1 \in 1 .. n - 1 /\ ~(j - 1 < i) /\ (j - 1) + 1 = j
            BY <1>3, <1>4, <3>3, <4>3
          <6>2. q2[j - 1] = q[(j - 1) + 1]
            BY <1>8, <6>1
          <6> QED BY <6>1, <6>2
        <5>4. j # n => q2[j] = q[j + 1]
          <6>1. j # n => j \in 1 .. n - 1 /\ ~(j < i)
            BY <1>3, <1>4, <3>3, <4>3
          <6> QED BY <1>8, <6>1
        <5>5. /\ c \in D /\ nd[c].parent = p /\ h[c] + 1 = h[p] /\ c # a /\ c # b
              /\ lo[c] = q[(j + 1) - 1]
              /\ hi[c] = IF j + 1 = n + 1 THEN hi[p] ELSE q[j + 1]
          BY <1>18, <5>1, <5>2
        <5>6. hi2[c] = hi[c]
          BY <1>6, <5>5
        <5> QED BY <5>1, <5>3, <5>4, <5>5, <5>6
      <4> QED BY <1>3, <1>4, <3>3, <4>1, <4>2, <4>3
    <3>5. /\ nd2[c].parent = m /\ h2[c] + 1 = h2[m] /\ c # Null
          /\ lo2[c] = IF j = 1 THEN lo2[m] ELSE nd2[m].keys[j - 1]
          /\ Top(hi2, Null, Null, c) = IF j = n THEN hi2[m] ELSE nd2[m].keys[j]
      BY <1>5, <1>6, <1>10, <1>19, <2>1, <2>2, <3>1, <3>4
    <3>6. Len(nd2[m].children) = n /\ nd2[m].children[j] = c /\ c \in DOMAIN nd2
      BY <1>8, <3>1, <3>2, <3>4
    <3> QED BY <3>5, <3>6, Zenon DEF Child
  <2>3. CASE m # p
    <3>1. nd2[m] = nd[m]
      BY <1>10, <2>1, <2>3
    <3>2. Child(nd, h, lo, hi, Null, Null, m, j)
      BY <1>1, <2>1, <3>1, ChildFacts
    <3>3. PICK c : c = nd[m].children[j]
      OBVIOUS
    <3>4. /\ c \in D /\ nd[c].parent = m /\ h[c] + 1 = h[m]
          /\ lo[c] = IF j = 1 THEN lo[m] ELSE nd[m].keys[j - 1]
          /\ Top(hi, Null, Null, c) = IF j = Len(nd[m].children) THEN hi[m] ELSE nd[m].keys[j]
      BY <3>2, <3>3 DEF Child
    <3>5. c # Null /\ c # a /\ c # b
      BY <1>3, <1>5, <2>3, <3>4
    <3>6. /\ c \in D2 /\ Top(hi2, Null, Null, c) = Top(hi, Null, Null, c) /\ nd2[c].parent = m
          /\ h2[c] = h[c] /\ lo2[c] = lo[c]
      BY <1>6, <1>10, <3>4, <3>5 DEF Top
    <3> QED BY <2>1, <3>1, <3>3, <3>4, <3>5, <3>6 DEF Child
  <2> QED BY <2>2, <2>3
<1>21. Listed(nd2, r, Null)
  <2> SUFFICES ASSUME NEW m \in D2, m # r
               PROVE  /\ nd2[m].parent \in D2 /\ nd2[nd2[m].parent] \in InnerNodes
                      /\ \E j \in 1 .. Len(nd2[nd2[m].parent].children) :
                           nd2[nd2[m].parent].children[j] = m
    BY DEF Listed
  <2>1. PICK x \in D : x = nd[m].parent /\ nd[x] \in InnerNodes
                       /\ \E j \in 1 .. Len(nd[x].children) : nd[x].children[j] = m
    BY <1>1, <1>5 DEF Listed
  <2>2. PICK j \in 1 .. Len(nd[x].children) : nd[x].children[j] = m
    BY <2>1
  <2>3. x \in D2 /\ x # a /\ nd2[x] \in InnerNodes /\ nd2[m].parent = x
    <3>1. nd[b] \notin InnerNodes
      BY <1>3 DEF LeafNodes, InnerNodes
    <3> QED BY <1>9, <1>10, <2>1, <3>1
  <2>4. CASE x = p
    <3>1. nd2[x].children = cs2
      BY <1>7, <2>4, Zenon
    <3>2. j \in 1 .. n + 1 /\ cs[j] = m
      BY <1>2, <1>4, <2>2, <2>4
    <3>3. j # i + 1
      BY <1>18, <3>2
    <3>4. CASE j < i + 1
      <4>1. j \in 1 .. n
        BY <1>3, <1>4, <3>2, <3>4
      <4>2. cs2[j] = m
        BY <1>8, <3>2, <3>4, <4>1
      <4> QED BY <1>8, <2>3, <3>1, <4>1, <4>2
    <3>5. CASE ~(j < i + 1)
      <4>1. j - 1 \in 1 .. n /\ ~(j - 1 < i + 1) /\ (j - 1) + 1 = j
        BY <1>3, <1>4, <3>2, <3>3, <3>5
      <4>2. cs2[j - 1] = m
        BY <1>8, <3>2, <4>1
      <4> QED BY <1>8, <2>3, <3>1, <4>1, <4>2
    <3> QED BY <3>4, <3>5
  <2>5. CASE x # p
    <3>1. nd2[x] = nd[x]
      BY <1>10, <2>3, <2>5
    <3> QED BY <2>2, <2>3, <3>1
  <2> QED BY <2>4, <2>5
<1>22. Chained(nd2, lo2, hi2)
  <2> SUFFICES ASSUME NEW m \in D2, nd2[m] \in LeafNodes
               PROVE  IF nd2[m].next = Null THEN hi2[m] = 0
                      ELSE /\ nd2[m].next \in D2 /\ nd2[nd2[m].next] \in LeafNodes
                           /\ hi2[m] # 0 /\ lo2[nd2[m].next] = hi2[m]
    BY DEF Chained
  <2> DEFINE Next2(x) == IF x = Null THEN hi2[m] = 0
                         ELSE /\ x \in D2 /\ nd2[x] \in LeafNodes /\ hi2[m] # 0 /\ lo2[x] = hi2[m]
  <2>1. nd[m] \in LeafNodes
    BY <1>10
  <2>2. PICK x : x = nd2[m].next
    OBVIOUS
  <2>3. CASE m = a
    <3>1. x = nd[b].next
      BY <2>2, <2>3, Zenon
    <3>2. IF x = Null THEN hi[b] = 0
          ELSE /\ x \in D /\ nd[x] \in LeafNodes /\ hi[b] # 0 /\ lo[x] = hi[b]
      BY <1>1, <1>3, <3>1 DEF Chained
    <3>3. x # b
      BY <1>3, <1>5, <3>2 DEF Below
    <3>4. Next2(x)
      BY <1>6, <1>10, <2>3, <3>2, <3>3
    <3> QED BY <2>2, <3>4
  <2>4. CASE m # a
    <3>1. x = nd[m].next
      BY <1>9, <1>10, <2>2, <2>4
    <3>2. IF x = Null THEN hi[m] = 0
          ELSE /\ x \in D /\ nd[x] \in LeafNodes /\ hi[m] # 0 /\ lo[x] = hi[m]
      BY <1>1, <2>1, <3>1 DEF Chained
    <3>3. x # b
      BY <1>3, <2>1, <2>4, <3>1
    <3>4. Next2(x)
      BY <1>6, <1>10, <2>4, <3>2, <3>3
    <3> QED BY <2>2, <3>4
  <2> QED BY <2>3, <2>4
<1> QED BY <1>11, <1>13, <1>14, <1>15, <1>17, <1>20, <1>21, <1>22 DEF Tree, Pending

\* A root with one key and two leaves is the whole tree.
LEMMA LastThree ==
  ASSUME NEW nd, NEW r, NEW h, NEW lo, NEW hi, Tree(nd, r, h, lo, hi, Null, 0, Null),
         NEW i, NEW a, NEW b, Neighbours(nd, h, lo, hi, r, i, a, b), Len(nd[r].keys) = 1
  PROVE  DOMAIN nd = {a, b, r}
<1>1. /\ Typed(nd) /\ Levels(nd, r, h) /\ Kids(nd, h, lo, hi, Null, Null) /\ Listed(nd, r, Null)
  BY DEF Tree
<1>2. /\ r \in DOMAIN nd /\ nd[r] \in InnerNodes /\ i \in 1 .. 1 /\ h[r] = 1
      /\ a = nd[r].children[i] /\ b = nd[r].children[i + 1] /\ a \in DOMAIN nd /\ b \in DOMAIN nd
  BY DEF Neighbours
<1>3. i = 1 /\ Len(nd[r].children) = 2
  <2>1. Len(nd[r].children) = Len(nd[r].keys) + 1
    BY <1>1, <1>2, InnerFacts
  <2> QED BY <1>2, <2>1
<1>4. ASSUME NEW m \in DOMAIN nd, m # r
      PROVE  /\ nd[m].parent \in DOMAIN nd /\ h[m] + 1 = h[nd[m].parent]
             /\ \E j \in 1 .. Len(nd[nd[m].parent].children) : nd[nd[m].parent].children[j] = m
  <2>1. m # Null
    BY <1>1, NodeFacts
  <2>2. PICK x \in DOMAIN nd : x = nd[m].parent /\ nd[x] \in InnerNodes
                       /\ \E j \in 1 .. Len(nd[x].children) : nd[x].children[j] = m
    BY <1>1, <1>4, <2>1 DEF Listed
  <2>3. PICK j \in 1 .. Len(nd[x].children) : nd[x].children[j] = m
    BY <2>2
  <2>4. Child(nd, h, lo, hi, Null, Null, x, j)
    BY <1>1, <2>2, ChildFacts
  <2>5. h[m] + 1 = h[x]
    BY <2>3, <2>4 DEF Child
  <2> QED BY <2>2, <2>5
<1>5. \A m \in DOMAIN nd : h[m] \in Nat /\ h[m] <= 1
  BY <1>1, <1>2 DEF Levels
<1>6. ASSUME NEW m \in DOMAIN nd, m # r PROVE m = a \/ m = b
  <2>1. PICK x \in DOMAIN nd : x = nd[m].parent /\ h[m] + 1 = h[x]
                               /\ \E j \in 1 .. Len(nd[x].children) : nd[x].children[j] = m
    BY <1>4, <1>6
  <2>2. h[x] = 1
    BY <1>5, <2>1
  <2>3. x = r
    <3> SUFFICES ASSUME x # r PROVE FALSE
      OBVIOUS
    <3>1. nd[x].parent \in DOMAIN nd /\ h[x] + 1 = h[nd[x].parent]
      BY <1>4
    <3> QED BY <1>5, <2>2, <3>1
  <2>4. PICK j \in 1 .. 2 : nd[r].children[j] = m
    BY <1>3, <2>1, <2>3
  <2> QED BY <1>2, <1>3, <2>4
<1> QED BY <1>2, <1>6

-----------------------------------------------------------------------------
(* The chain of the leaves.  s leads from a leaf to the next one, End are the  *)
(* leaves where it stops, q gives each its keys; h goes down along it.         *)

\* From every leaf of rank m or less the keys along the chain are a sequence.
ChainedUpTo(D, End, h, s, q, m) ==
  \E g \in [{n \in D : h[n] <= m} -> Seq(Nat)] :
    \A n \in {x \in D : h[x] <= m} : g[n] = q[n] \o (IF n \in End THEN << >> ELSE g[s[n]])

\* A chain that goes down in rank has an end: by a least rank where it would not.
LEMMA ChainTo ==
  ASSUME NEW D, NEW End \in SUBSET D, NEW h \in [D -> Nat], NEW s \in [D -> D],
         NEW q \in [D -> Seq(Nat)], \A n \in D \ End : h[s[n]] < h[n]
  PROVE  \A m \in Nat : ChainedUpTo(D, End, h, s, q, m)
<1> DEFINE Low(m) == {n \in D : h[n] <= m}
           Good(m) == \E g \in [Low(m) -> Seq(Nat)] :
                        \A n \in Low(m) : g[n] = q[n] \o (IF n \in End THEN << >> ELSE g[s[n]])
<1>1. ASSUME NEW x \in Seq(Nat), NEW y \in Seq(Nat) PROVE x \o y \in Seq(Nat)
  BY ConcatProperties
<1>2. << >> \in Seq(Nat)
  OBVIOUS
<1>3. Good(0)
  <2>1. \A n \in Low(0) : n \in End /\ n \in D
    BY Z3
  <2>2. PICK g : g = [n \in Low(0) |-> q[n] \o << >>]
    OBVIOUS
  <2> HIDE DEF Low
  <2>3. \A n \in Low(0) : q[n] \in Seq(Nat)
    BY <2>1
  <2>4. g \in [Low(0) -> Seq(Nat)]
    BY <1>1, <1>2, <2>2, <2>3
  <2>5. \A n \in Low(0) : g[n] = q[n] \o (IF n \in End THEN << >> ELSE g[s[n]])
    BY <2>1, <2>2
  <2> QED BY <2>4, <2>5
<1>4. ASSUME NEW m \in Nat, Good(m) PROVE Good(m + 1)
  <2>1. PICK g \in [Low(m) -> Seq(Nat)] :
          \A n \in Low(m) : g[n] = q[n] \o (IF n \in End THEN << >> ELSE g[s[n]])
    BY <1>4
  <2>2. \A n \in Low(m + 1) : n \notin End => s[n] \in Low(m)
    BY Z3
  <2>3. PICK f : f = [n \in Low(m + 1) |-> q[n] \o (IF n \in End THEN << >> ELSE g[s[n]])]
    OBVIOUS
  <2>4. Low(m) \subseteq Low(m + 1)
    OBVIOUS
  <2>5. \A n \in Low(m + 1) : q[n] \in Seq(Nat)
    OBVIOUS
  <2> HIDE DEF Low
  <2>6. f \in [Low(m + 1) -> Seq(Nat)]
    <3>1. ASSUME NEW n \in Low(m + 1) PROVE (IF n \in End THEN << >> ELSE g[s[n]]) \in Seq(Nat)
      BY <1>2, <2>1, <2>2
    <3>2. \A n \in Low(m + 1) : f[n] \in Seq(Nat)
      BY <1>1, <2>3, <2>5, <3>1
    <3> QED BY <2>3, <3>2
  <2>7. \A n \in Low(m) : f[n] = g[n]
    BY <2>1, <2>3, <2>4
  <2>8. \A n \in Low(m + 1) : f[n] = q[n] \o (IF n \in End THEN << >> ELSE f[s[n]])
    BY <2>2, <2>3, <2>7
  <2> QED BY <2>6, <2>8
<1> HIDE DEF Good
<1>5. \A m \in Nat : Good(m)
  <2> SUFFICES ASSUME NEW b \in Nat, ~Good(b) PROVE FALSE
    OBVIOUS
  <2>1. PICK T : T = {m \in Nat : ~Good(m)}
    OBVIOUS
  <2>2. T \in SUBSET Nat /\ T # {}
    BY <2>1
  <2>3. PICK m \in T : \A x \in T : m <= x
    BY <2>2, Least
  <2>4. m \in Nat /\ ~Good(m) /\ m # 0
    BY <1>3, <2>1, <2>3
  <2>5. m - 1 \in Nat /\ (m - 1) + 1 = m /\ ~(m <= m - 1)
    BY <2>4
  <2>6. Good(m - 1)
    BY <2>1, <2>3, <2>5
  <2> QED BY <1>4, <2>4, <2>5, <2>6
<1> QED BY <1>5 DEF Good, ChainedUpTo

\* q has the members of S in their order.
Ascending(q, S) == q \in Seq(Nat) /\ Sorted(q) /\ Range(q) = S

\* Sorted keys followed by sorted keys above them.
LEMMA AscendingJoined ==
  ASSUME NEW p, NEW S, Ascending(p, S), NEW r, NEW T, Ascending(r, T),
         \A x \in S, y \in T : x < y
  PROVE  Ascending(p \o r, S \cup T)
<1>1. PICK q : q = p \o r
  OBVIOUS
<1>2. PICK m \in Nat, n \in Nat : m = Len(p) /\ n = Len(r)
  BY DEF Ascending
<1>3. q \in Seq(Nat) /\ Len(q) = m + n
      /\ (\A j \in 1 .. m : q[j] = p[j]) /\ \A j \in 1 .. n : q[m + j] = r[j]
  BY <1>1, <1>2, JoinFacts DEF Ascending, Joined
<1>4. S = {p[j] : j \in 1 .. m} /\ T = {r[j] : j \in 1 .. n}
  <2>1. DOMAIN p = 1 .. m /\ DOMAIN r = 1 .. n /\ Range(p) = S /\ Range(r) = T
    BY <1>2 DEF Ascending
  <2> QED BY <2>1, Zenon DEF Range
<1>5. \A j \in 1 .. m + n : j \in 1 .. m \/ (j - m \in 1 .. n /\ j = m + (j - m))
  OBVIOUS
<1>6. Range(q) = S \cup T
  <2>1. Range(q) = {q[j] : j \in 1 .. m + n}
    <3>1. DOMAIN q = 1 .. m + n
      BY <1>3
    <3> QED BY <3>1, Zenon DEF Range
  <2>2. \A j \in 1 .. m + n : q[j] \in S \cup T
    BY <1>3, <1>4, <1>5
  <2>3. (\A j \in 1 .. m : j \in 1 .. m + n) /\ \A j \in 1 .. n : m + j \in 1 .. m + n
    OBVIOUS
  <2>4. \A x \in S \cup T : \E j \in 1 .. m + n : q[j] = x
    BY <1>3, <1>4, <2>3
  <2> QED BY <2>1, <2>2, <2>4
<1>7. ASSUME NEW i \in 1 .. m + n, NEW j \in 1 .. m + n, i < j PROVE q[i] < q[j]
  <2>1. CASE i \in 1 .. m /\ j \in 1 .. m
    <3>1. p[i] < p[j]
      BY <1>2, <1>7, <2>1 DEF Ascending, Sorted
    <3> QED BY <1>3, <2>1, <3>1
  <2>2. CASE i \in 1 .. m /\ j \notin 1 .. m
    <3>1. q[i] \in S /\ q[j] \in T
      BY <1>3, <1>4, <1>5, <2>2
    <3> QED BY <3>1
  <2>3. CASE i \notin 1 .. m
    <3>1. j \notin 1 .. m
      BY <1>7, <2>3
    <3>2. PICK a \in 1 .. n, b \in 1 .. n : i = m + a /\ j = m + b
      BY <1>5, <2>3, <3>1
    <3>3. a < b
      BY <1>7, <3>2
    <3>4. r[a] < r[b]
      BY <1>2, <3>3 DEF Ascending, Sorted
    <3> QED BY <1>3, <3>2, <3>4
  <2> QED BY <2>1, <2>2, <2>3
<1> QED BY <1>1, <1>3, <1>6, <1>7 DEF Ascending, Sorted

\* Every node of the chain sc among finitely many D has its part of the keys S: those from its
\* bound to the bound of the next, the last one all from its own.
Links(D, End, s, q, lo, S) ==
  /\ IsFiniteSet(D) /\ End \in SUBSET D /\ s \in [D -> D]
  /\ q \in [D -> Seq(Nat)] /\ lo \in [D -> Nat] /\ S \in SUBSET Nat
  /\ \A n \in End : Ascending(q[n], {x \in S : lo[n] <= x})
  /\ \A n \in D \ End : /\ lo[n] < lo[s[n]]
                        /\ Ascending(q[n], {x \in S : lo[n] <= x /\ x < lo[s[n]]})

\* g follows the chain.
Follows(g, D, End, s, q) == g = [n \in D |-> q[n] \o (IF n \in End THEN << >> ELSE g[s[n]])]

\* How many nodes begin above n: the rank that goes down along the chain.
Rank(D, lo, n) == Cardinality({m \in D : lo[n] < lo[m]})

\* The next node of the chain has fewer nodes above it.
LEMMA RankFalls ==
  ASSUME NEW D, IsFiniteSet(D), NEW lo \in [D -> Nat]
  PROVE  /\ \A n \in D : Rank(D, lo, n) \in Nat
         /\ \A m, n \in D : lo[m] < lo[n] => Rank(D, lo, n) < Rank(D, lo, m)
<1> DEFINE Above(n) == {m \in D : lo[n] < lo[m]}
<1>1. ASSUME NEW n \in D
      PROVE  Above(n) \in SUBSET D /\ IsFiniteSet(Above(n)) /\ Cardinality(Above(n)) \in Nat
  <2>1. Above(n) \in SUBSET D
    OBVIOUS
  <2> HIDE DEF Above
  <2> QED BY <2>1, FS_Subset, FS_CardinalityType
<1>2. ASSUME NEW m \in D, NEW n \in D, lo[m] < lo[n]
      PROVE  Cardinality(Above(n)) < Cardinality(Above(m))
  <2>1. Above(n) \in SUBSET Above(m)
    BY <1>2
  <2>2. n \in Above(m) /\ n \notin Above(n)
    BY <1>2
  <2>3. /\ Cardinality(Above(n)) <= Cardinality(Above(m))
        /\ Cardinality(Above(m)) = Cardinality(Above(n)) => Above(m) = Above(n)
    <3> HIDE DEF Above
    <3> QED BY <1>1, <2>1, FS_Subset
  <2>4. Cardinality(Above(n)) # Cardinality(Above(m))
    BY ONLY <2>2, <2>3
  <2>5. Cardinality(Above(n)) \in Nat /\ Cardinality(Above(m)) \in Nat
    BY <1>1
  <2> QED BY ONLY <2>3, <2>4, <2>5
<1> QED BY <1>1, <1>2 DEF Rank

\* The keys along the chain, whatever function computes them.
LEMMA ChainEnds ==
  ASSUME NEW D, NEW End, NEW s, NEW q, NEW lo, NEW S, Links(D, End, s, q, lo, S)
  PROVE  \E g : Follows(g, D, End, s, q)
<1>1. /\ IsFiniteSet(D) /\ End \in SUBSET D /\ s \in [D -> D]
      /\ q \in [D -> Seq(Nat)] /\ lo \in [D -> Nat] /\ \A n \in D \ End : lo[n] < lo[s[n]]
  BY DEF Links
<1>2. PICK h : h = [n \in D |-> Rank(D, lo, n)]
  OBVIOUS
<1>3. /\ h \in [D -> Nat] /\ \A m, n \in D : lo[m] < lo[n] => h[n] < h[m]
  BY <1>1, <1>2, RankFalls
<1>4. \A n \in D \ End : h[s[n]] < h[n]
  BY <1>1, <1>3
<1>5. PICK b \in Nat : \A n \in D : h[n] <= b
  <2>1. IsFiniteSet(D) /\ Cardinality(D) \in Nat
    BY <1>1, FS_CardinalityType
  <2>2. ASSUME NEW n \in D PROVE h[n] <= Cardinality(D)
    <3>1. {m \in D : lo[n] < lo[m]} \in SUBSET D
      OBVIOUS
    <3> QED BY <1>2, <2>1, <3>1, FS_Subset DEF Rank
  <2> QED BY <2>1, <2>2
<1>6. ChainedUpTo(D, End, h, s, q, b)
  BY <1>1, <1>3, <1>4, ChainTo
<1>7. {n \in D : h[n] <= b} = D
  BY <1>5
<1>8. PICK g \in [D -> Seq(Nat)] : \A n \in D : g[n] = q[n] \o (IF n \in End THEN << >> ELSE g[s[n]])
  BY <1>6, <1>7 DEF ChainedUpTo
<1> QED BY <1>8 DEF Follows

\* They are the keys from the first node's bound on, in their order.
LEMMA ChainAscends ==
  ASSUME NEW D, NEW End, NEW s, NEW q, NEW lo, NEW S, Links(D, End, s, q, lo, S),
         NEW g, Follows(g, D, End, s, q), NEW a \in D
  PROVE  Ascending(g[a], {x \in S : lo[a] <= x})
<1> DEFINE From(n) == {x \in S : lo[n] <= x}
           To(n) == {x \in S : lo[n] <= x /\ x < lo[s[n]]}
<1>1. /\ IsFiniteSet(D) /\ End \in SUBSET D /\ s \in [D -> D]
      /\ q \in [D -> Seq(Nat)] /\ lo \in [D -> Nat] /\ S \in SUBSET Nat
      /\ \A n \in D \ End : lo[n] < lo[s[n]]
  BY DEF Links
<1>2. (\A n \in End : Ascending(q[n], From(n))) /\ \A n \in D \ End : Ascending(q[n], To(n))
  BY DEF Links
<1>3. /\ \A n \in D : Rank(D, lo, n) \in Nat
      /\ \A m, n \in D : lo[m] < lo[n] => Rank(D, lo, n) < Rank(D, lo, m)
  BY <1>1, RankFalls
<1>4. ASSUME NEW n \in End PROVE g[n] = q[n]
  <2>1. g[n] = q[n] \o << >> /\ q[n] \in Seq(Nat)
    BY <1>1 DEF Follows
  <2> QED BY <2>1, ConcatEmptySeq
<1>5. ASSUME NEW n \in D \ End PROVE g[n] = q[n] \o g[s[n]]
  BY DEF Follows
<1>6. ASSUME NEW n \in D \ End
      PROVE  From(n) = To(n) \cup From(s[n]) /\ \A x \in To(n), y \in From(s[n]) : x < y
  <2>1. PICK u \in Nat, v \in Nat : u = lo[n] /\ v = lo[s[n]] /\ u < v
    BY <1>1
  <2>2. S \in SUBSET Nat
    BY <1>1
  <2>3. /\ {x \in S : u <= x} = {x \in S : u <= x /\ x < v} \cup {x \in S : v <= x}
        /\ \A x \in {x \in S : u <= x /\ x < v}, y \in {x \in S : v <= x} : x < y
    <3>1. \A x \in S : x \in Nat
      BY <2>2
    <3>2. \A x \in S : u <= x <=> (u <= x /\ x < v) \/ v <= x
      BY ONLY <2>1, <3>1
    <3>3. \A x, y \in S : x < v /\ v <= y => x < y
      BY ONLY <2>1, <3>1
    <3> QED BY ONLY <3>2, <3>3
  <2> QED BY <2>1, <2>3, Zenon
<1> HIDE DEF From, To
<1> SUFFICES ASSUME ~Ascending(g[a], From(a)) PROVE FALSE
  BY DEF From
<1>7. PICK T : T = {m \in Nat : \E n \in D : Rank(D, lo, n) = m /\ ~Ascending(g[n], From(n))}
  OBVIOUS
<1>8. T \in SUBSET Nat /\ T # {}
  BY <1>3, <1>7
<1>9. PICK m \in T : \A x \in T : m <= x
  BY <1>8, Least
<1>10. PICK n \in D : Rank(D, lo, n) = m /\ ~Ascending(g[n], From(n))
  BY <1>7
<1>11. CASE n \in End
  BY <1>2, <1>4, <1>10, <1>11
<1>12. CASE n \notin End
  <2>1. s[n] \in D /\ Rank(D, lo, s[n]) < m /\ Rank(D, lo, s[n]) \in Nat
    BY <1>1, <1>3, <1>10, <1>12
  <2>2. Rank(D, lo, s[n]) \notin T
    BY <1>8, <1>9, <2>1
  <2>3. Ascending(g[s[n]], From(s[n]))
    BY <1>7, <2>1, <2>2
  <2>4. Ascending(q[n], To(n))
    BY <1>2, <1>12
  <2>5. Ascending(q[n] \o g[s[n]], To(n) \cup From(s[n]))
    BY <1>6, <1>12, <2>3, <2>4, AscendingJoined
  <2> QED BY <1>5, <1>6, <1>10, <1>12, <2>5
<1> QED BY <1>11, <1>12

=============================================================================
