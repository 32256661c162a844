---------------------------- MODULE MemoryProofs ----------------------------
(***************************************************************************)
(* Proofs about the kernel's memory management: the pool and the page      *)
(* tables, for any sizes, any requests and any amount of memory.           *)
(***************************************************************************)
EXTENDS MCMemory, SequenceTheorems, FiniteSetTheorems,
        FunctionTheorems, WellFoundedInduction, TLAPS

-----------------------------------------------------------------------------
(* The list of blocks *)

Node == [addr : Nat, size : Nat, requested : Nat, free : BOOLEAN]

\* The blocks ns tile the arena up to the address end.
Linked(ns, end) ==
    /\ ns \in Seq(Node) /\ Len(ns) > 0
    /\ ns[1].addr = 0 /\ Ex!End(ns[Len(ns)]) = end
    /\ \A i \in 1..Len(ns) :
          /\ ns[i].size > 0
          /\ ~ns[i].free => ns[i].requested + POOL_GUARD <= ns[i].size
    /\ \A i \in 1..(Len(ns) - 1) : Ex!End(ns[i]) = ns[i + 1].addr

\* No two neighbours are free, but for those that the block k makes.
ApartBut(ns, k) ==
    \A i \in 1..(Len(ns) - 1) : i = k \/ i + 1 = k \/ ~(ns[i].free /\ ns[i + 1].free)

Apart(ns) == \A i \in 1..(Len(ns) - 1) : ~(ns[i].free /\ ns[i + 1].free)

\* The inductive invariant.
PoolInv ==
    /\ Linked(nodes, heap_end) /\ Apart(nodes)
    /\ heap_end \in Nat /\ frames \in 0..Memory

\* Rounding up does not round down, and reaches the unit at least.
LEMMA RoundedUp ==
    ASSUME NEW x \in Nat \ {0}, NEW a \in Nat \ {0}
    PROVE  Ex!ALIGN_UP_BY(x, a) \in Nat /\ Ex!ALIGN_UP_BY(x, a) >= x /\ Ex!ALIGN_UP_BY(x, a) >= a
<1> DEFINE n == x + a - 1
           q == n \div a
           m == n % a
<1>1. n \in Nat /\ n >= a
  OBVIOUS
<1>2. q \in Nat /\ m \in 0..(a - 1) /\ n = q * a + m
  BY <1>1
<1>3. q >= 1 /\ q * a \in Nat
  BY <1>1, <1>2
<1>4. q * a >= x
  BY <1>1, <1>2, <1>3
<1>5. q * a >= a
  BY <1>2, <1>3
<1>6. QED
  BY <1>3, <1>4, <1>5 DEF Ex!ALIGN_UP_BY

\* new is the list ns with b for block i.
Changed(new, ns, i, b) ==
    /\ Len(new) = Len(ns)
    /\ \A k \in 1..Len(ns) : new[k] = IF k = i THEN b ELSE ns[k]

LEMMA ReplaceBlock ==
    ASSUME NEW ns, NEW end, Linked(ns, end), NEW i \in 1..Len(ns), NEW b \in Node,
           b.addr = ns[i].addr, b.size = ns[i].size,
           b.free \/ b.requested + POOL_GUARD <= b.size,
           NEW new, new = [ns EXCEPT ![i] = b]
    PROVE  Linked(new, end) /\ Changed(new, ns, i, b)
<1>1. new \in Seq(Node) /\ Len(new) = Len(ns)
      /\ \A k \in 1..Len(ns) : new[k] = IF k = i THEN b ELSE ns[k]
  BY DEF Linked
<1>2. \A k \in 1..Len(ns) : new[k].addr = ns[k].addr /\ new[k].size = ns[k].size
  BY <1>1
<1>3. \A k \in 1..Len(ns) : Ex!End(new[k]) = Ex!End(ns[k])
  BY <1>2 DEF Ex!End
<1>4. Len(ns) \in Nat
  BY DEF Linked
<1>5. Linked(new, end)
  <2>1. \A k \in 1..Len(ns) :
          /\ new[k].size > 0
          /\ ~new[k].free => new[k].requested + POOL_GUARD <= new[k].size
    BY <1>1, <1>2 DEF Linked
  <2>2. new[1].addr = 0 /\ Ex!End(new[Len(ns)]) = end
    BY <1>2, <1>3, <1>4 DEF Linked
  <2>3. \A k \in 1..(Len(ns) - 1) : Ex!End(new[k]) = new[k + 1].addr
    BY <1>2, <1>3, <1>4 DEF Linked
  <2>4. QED
    BY <1>1, <2>1, <2>2, <2>3 DEF Linked
<1>6. QED
  BY <1>1, <1>5 DEF Changed

\* s is the list ns with e put in after block i.
Inserted(s, ns, i, e) ==
    /\ Len(s) = Len(ns) + 1
    /\ \A k \in 1..i : s[k] = ns[k]
    /\ s[i + 1] = e
    /\ \A k \in (i + 2)..(Len(ns) + 1) : s[k] = ns[k - 1]

\* s is the list ns without the block after block i.
Removed(s, ns, i) ==
    /\ Len(s) = Len(ns) - 1
    /\ \A k \in 1..i : s[k] = ns[k]
    /\ \A k \in (i + 1)..(Len(ns) - 1) : s[k] = ns[k + 1]

LEMMA Joined ==
    ASSUME NEW S, NEW a \in Seq(S), NEW b \in Seq(S)
    PROVE  /\ a \o b \in Seq(S) /\ Len(a \o b) = Len(a) + Len(b)
           /\ \A k \in 1..Len(a) : (a \o b)[k] = a[k]
           /\ \A k \in (Len(a) + 1)..(Len(a) + Len(b)) : (a \o b)[k] = b[k - Len(a)]
  OBVIOUS

LEMMA InsertedAfter ==
    ASSUME NEW S, NEW ns \in Seq(S), NEW i \in 1..Len(ns), NEW e \in S
    PROVE  Ex!InsertAt(ns, i + 1, e) \in Seq(S) /\ Inserted(Ex!InsertAt(ns, i + 1, e), ns, i, e)
<1>1. Ex!InsertAt(ns, i + 1, e)
        = (SubSeq(ns, 1, (i + 1) - 1) \o <<e>>) \o SubSeq(ns, i + 1, Len(ns))
  BY DEF Ex!InsertAt
<1>2. PICK a : a = SubSeq(ns, 1, (i + 1) - 1)
  OBVIOUS
<1>3. PICK b : b = SubSeq(ns, i + 1, Len(ns))
  OBVIOUS
<1>4. PICK c : c = a \o <<e>>
  OBVIOUS
<1>5. a \in Seq(S) /\ Len(a) = i /\ \A k \in 1..i : a[k] = ns[k]
  BY <1>2
<1>6. /\ b \in Seq(S) /\ Len(b) = Len(ns) - i
      /\ \A k \in 1..(Len(ns) - i) : b[k] = ns[k + i]
  BY <1>3
<1>7. c \in Seq(S) /\ Len(c) = i + 1 /\ c[i + 1] = e /\ \A k \in 1..i : c[k] = ns[k]
  BY <1>4, <1>5
<1>8. Ex!InsertAt(ns, i + 1, e) = c \o b
  BY <1>1, <1>2, <1>3, <1>4, Zenon
<1>9. /\ c \o b \in Seq(S) /\ Len(c \o b) = Len(c) + Len(b)
      /\ \A k \in 1..Len(c) : (c \o b)[k] = c[k]
      /\ \A k \in (Len(c) + 1)..(Len(c) + Len(b)) : (c \o b)[k] = b[k - Len(c)]
  BY <1>6, <1>7, Joined
<1>10. PICK d : d = c \o b
  OBVIOUS
<1>11. /\ d \in Seq(S) /\ Len(d) = Len(ns) + 1 /\ d[i + 1] = e
       /\ \A k \in 1..i : d[k] = ns[k]
  <2>1. d \in Seq(S) /\ Len(d) = Len(c) + Len(b)
        /\ \A k \in 1..Len(c) : d[k] = c[k]
    BY <1>9, <1>10, Zenon
  <2>2. Len(ns) \in Nat /\ i \in Nat
    OBVIOUS
  <2>3. Len(d) = Len(ns) + 1 /\ (\A k \in 1..i : k \in 1..Len(c)) /\ i + 1 \in 1..Len(c)
    BY <1>6, <1>7, <2>1, <2>2
  <2>4. QED
    BY <1>7, <2>1, <2>3
<1>12. ASSUME NEW k \in (i + 2)..(Len(ns) + 1) PROVE d[k] = ns[k - 1]
  <2>1. d[k] = b[k - (i + 1)]
    BY <1>6, <1>7, <1>9, <1>10
  <2>2. k - (i + 1) \in 1..(Len(ns) - i) /\ k - (i + 1) + i = k - 1
    OBVIOUS
  <2>3. QED
    BY <1>6, <2>1, <2>2
<1>13. QED
  BY <1>8, <1>10, <1>11, <1>12 DEF Inserted

LEMMA RemovedAfter ==
    ASSUME NEW S, NEW ns \in Seq(S), NEW i \in 1..(Len(ns) - 1)
    PROVE  Ex!RemoveAt(ns, i + 1) \in Seq(S) /\ Removed(Ex!RemoveAt(ns, i + 1), ns, i)
<1>1. Ex!RemoveAt(ns, i + 1) = SubSeq(ns, 1, (i + 1) - 1) \o SubSeq(ns, i + 1 + 1, Len(ns))
  BY DEF Ex!RemoveAt
<1>2. PICK a : a = SubSeq(ns, 1, (i + 1) - 1)
  OBVIOUS
<1>3. PICK b : b = SubSeq(ns, i + 1 + 1, Len(ns))
  OBVIOUS
<1>4. a \in Seq(S) /\ Len(a) = i /\ \A k \in 1..i : a[k] = ns[k]
  BY <1>2
<1>5. /\ b \in Seq(S) /\ Len(b) = Len(ns) - i - 1
      /\ \A k \in 1..(Len(ns) - i - 1) : b[k] = ns[k + i + 1]
  BY <1>3
<1>6. Ex!RemoveAt(ns, i + 1) = a \o b
  BY <1>1, <1>2, <1>3, Zenon
<1>7. /\ a \o b \in Seq(S) /\ Len(a \o b) = Len(a) + Len(b)
      /\ \A k \in 1..Len(a) : (a \o b)[k] = a[k]
      /\ \A k \in (Len(a) + 1)..(Len(a) + Len(b)) : (a \o b)[k] = b[k - Len(a)]
  <2>1. a \in Seq(S) /\ b \in Seq(S)
    BY <1>4, <1>5
  <2>2. QED
    BY <2>1, Joined
<1>8. PICK d : d = a \o b
  OBVIOUS
<1>9. d \in Seq(S) /\ Len(d) = Len(ns) - 1 /\ \A k \in 1..i : d[k] = ns[k]
  <2>1. d \in Seq(S)
    BY <1>7, <1>8
  <2>2. Len(d) = Len(ns) - 1
    BY <1>4, <1>5, <1>7, <1>8
  <2>3. \A k \in 1..i : d[k] = ns[k]
    BY <1>4, <1>7, <1>8
  <2>4. QED
    BY <2>1, <2>2, <2>3
<1>10. ASSUME NEW k \in (i + 1)..(Len(ns) - 1) PROVE d[k] = ns[k + 1]
  <2>1. d[k] = b[k - i]
    BY <1>4, <1>5, <1>7, <1>8
  <2>2. k - i \in 1..(Len(ns) - i - 1) /\ k - i + i + 1 = k + 1
    OBVIOUS
  <2>3. QED
    BY <1>5, <2>1, <2>2
<1>11. QED
  BY <1>6, <1>8, <1>9, <1>10 DEF Removed

LEMMA LeftOver ==
    \A s, a, n, h \in Nat : \A m \in Nat \ {0} :
       ~(s < n + h + m) => s - n - h \in Nat \ {0} /\ a + h + n \in Nat
  OBVIOUS

\* The block i is divided: its first part gets the length need, a free block the rest.
LEMMA SplitStep ==
    ASSUME Ex!PoolAssumption, NEW ns, NEW end, Linked(ns, end), NEW i \in 1..Len(ns),
           NEW need \in Nat \ {0}, ns[i].free, ns[i].size >= need
    PROVE  LET cut == Ex!pool_split(ns, i, need)
           IN  /\ Linked(cut, end)
               /\ i \in 1..Len(cut) /\ cut[i].free /\ cut[i].size >= need
               /\ Apart(ns) => ApartBut(cut, i)
<1> DEFINE cut == Ex!pool_split(ns, i, need)
<1>a. POOL_HDR \in Nat /\ POOL_MIN_PAYLOAD \in Nat \ {0}
  BY DEF Ex!PoolAssumption
<1>b. ns \in Seq(Node) /\ Len(ns) \in Nat /\ ns[i] \in Node
  BY DEF Linked
<1>c. ns[i].size \in Nat /\ ns[i].addr \in Nat
  BY <1>b DEF Node
<1>0. /\ ns \in Seq(Node) /\ Len(ns) \in Nat /\ ns[i] \in Node /\ ns[i].size \in Nat
      /\ ns[i].addr \in Nat /\ POOL_HDR \in Nat /\ POOL_MIN_PAYLOAD \in Nat \ {0}
  BY <1>a, <1>b, <1>c
<1>1. CASE ns[i].size < need + POOL_HDR + POOL_MIN_PAYLOAD
  BY <1>0, <1>1 DEF Ex!pool_split, Apart, ApartBut
<1>2. CASE ~(ns[i].size < need + POOL_HDR + POOL_MIN_PAYLOAD)
  <2> DEFINE short == [ns EXCEPT ![i].size = need]
             rest == Ex!FreeNode(ns[i].addr + POOL_HDR + need, ns[i].size - need - POOL_HDR)
             b == [ns[i] EXCEPT !.size = need]
  <2>0. /\ ns[i].size - need - POOL_HDR \in Nat \ {0} /\ ns[i].addr + POOL_HDR + need \in Nat
    BY <1>0, <1>2, LeftOver
  <2>1. /\ rest \in Node /\ rest.free /\ rest.size = ns[i].size - need - POOL_HDR
        /\ rest.addr = ns[i].addr + POOL_HDR + need /\ rest.size > 0
    BY <2>0 DEF Ex!FreeNode, Node
  <2>b. b \in Node /\ b.size = need /\ b.addr = ns[i].addr /\ b.free
    BY <1>0 DEF Node
  <2>c. short = [ns EXCEPT ![i] = b]
    BY <1>0
  <2> HIDE DEF b, short, rest
  <2>2. /\ short \in Seq(Node) /\ Len(short) = Len(ns)
        /\ \A k \in 1..Len(ns) : k # i => short[k] = ns[k]
        /\ short[i].size = need /\ short[i].addr = ns[i].addr /\ short[i].free
    BY <1>0, <2>b, <2>c
  <2>3. cut = Ex!InsertAt(short, i + 1, rest)
    BY <1>2 DEF Ex!pool_split, short, rest
  <2> HIDE DEF cut
  <2>d. cut \in Seq(Node) /\ Inserted(cut, short, i, rest)
    BY <2>1, <2>2, <2>3, InsertedAfter
  <2>4. cut \in Seq(Node) /\ Len(cut) = Len(ns) + 1
    BY <2>2, <2>d DEF Inserted
  <2>e. cut[i] = short[i] /\ cut[i + 1] = rest
    BY <2>d DEF Inserted
  <2>f. \A k \in 1..(i - 1) : cut[k] = ns[k]
    BY <1>0, <2>2, <2>d DEF Inserted
  <2>g. \A k \in (i + 2)..(Len(ns) + 1) : cut[k] = ns[k - 1]
    <3> SUFFICES ASSUME NEW k \in (i + 2)..(Len(ns) + 1) PROVE cut[k] = ns[k - 1]
      OBVIOUS
    <3>1. cut[k] = short[k - 1]
      BY <2>2, <2>d DEF Inserted
    <3>2. k - 1 \in 1..Len(ns) /\ k - 1 # i
      BY <1>0
    <3>3. QED
      BY <2>2, <3>1, <3>2
  <2>5. /\ \A k \in 1..(i - 1) : cut[k] = ns[k]
        /\ cut[i] = short[i] /\ cut[i + 1] = rest
        /\ \A k \in (i + 2)..(Len(ns) + 1) : cut[k] = ns[k - 1]
    BY <2>e, <2>f, <2>g
  <2>6. Ex!End(cut[i]) = rest.addr /\ Ex!End(rest) = Ex!End(ns[i])
    <3>1. Ex!End(cut[i]) = rest.addr
      BY <1>0, <2>1, <2>2, <2>e DEF Ex!End
    <3>2. Ex!End(rest) = Ex!End(ns[i])
      BY <1>0, <2>1 DEF Ex!End
    <3>3. QED
      BY <3>1, <3>2
  <2>7. cut[1].addr = 0 /\ Ex!End(cut[Len(cut)]) = end
    BY <1>0, <2>2, <2>4, <2>5, <2>6 DEF Linked
  <2>8. \A k \in 1..Len(cut) :
          /\ cut[k].size > 0
          /\ ~cut[k].free => cut[k].requested + POOL_GUARD <= cut[k].size
    <3> SUFFICES ASSUME NEW k \in 1..Len(cut)
                 PROVE  /\ cut[k].size > 0
                        /\ ~cut[k].free => cut[k].requested + POOL_GUARD <= cut[k].size
      OBVIOUS
    <3>1. CASE k < i
      BY <1>0, <2>4, <2>5, <3>1 DEF Linked
    <3>2. CASE k = i \/ k = i + 1
      BY <2>1, <2>2, <2>5, <3>2
    <3>3. CASE k > i + 1
      <4>1. k \in (i + 2)..(Len(ns) + 1) /\ k - 1 \in 1..Len(ns)
        BY <1>0, <2>4, <3>3
      <4>2. cut[k] = ns[k - 1]
        BY <2>g, <4>1
      <4>3. QED
        BY <4>1, <4>2 DEF Linked
    <3>4. QED
      BY <1>0, <3>1, <3>2, <3>3
  <2>9. \A k \in 1..(Len(cut) - 1) : Ex!End(cut[k]) = cut[k + 1].addr
    <3> SUFFICES ASSUME NEW k \in 1..(Len(cut) - 1) PROVE Ex!End(cut[k]) = cut[k + 1].addr
      OBVIOUS
    <3>1. CASE k + 1 < i
      <4>1. k \in 1..(i - 1) /\ k + 1 \in 1..(i - 1) /\ k \in 1..(Len(ns) - 1)
        BY <1>0, <2>4, <3>1
      <4>2. cut[k] = ns[k] /\ cut[k + 1] = ns[k + 1]
        BY <2>f, <4>1
      <4>3. QED
        BY <4>1, <4>2 DEF Linked
    <3>2. CASE k + 1 = i
      BY <1>0, <2>2, <2>4, <2>5, <3>2 DEF Linked
    <3>3. CASE k = i
      BY <2>5, <2>6, <3>3
    <3>4. CASE k = i + 1
      BY <1>0, <2>4, <2>5, <2>6, <3>4 DEF Linked
    <3>5. CASE k > i + 1
      <4>1. cut[k] = ns[k - 1] /\ cut[k + 1] = ns[k] /\ k - 1 \in 1..(Len(ns) - 1)
        BY <1>0, <2>4, <2>5, <3>5
      <4>2. QED
        BY <4>1 DEF Linked
    <3>6. QED
      BY <1>0, <3>1, <3>2, <3>3, <3>4, <3>5
  <2>10. Linked(cut, end)
    BY <1>0, <2>4, <2>7, <2>8, <2>9 DEF Linked
  <2>11. Apart(ns) => ApartBut(cut, i)
    <3> SUFFICES ASSUME Apart(ns), NEW k \in 1..(Len(cut) - 1), k # i, k + 1 # i
                 PROVE  ~(cut[k].free /\ cut[k + 1].free)
      BY DEF ApartBut
    <3>1. CASE k + 1 < i
      BY <1>0, <2>4, <2>5, <3>1 DEF Apart
    <3>2. CASE k = i + 1
      <4>1. cut[k + 1] = ns[i + 1] /\ i \in 1..(Len(ns) - 1)
        BY <1>0, <2>4, <2>5, <3>2
      <4>2. QED
        BY <4>1 DEF Apart
    <3>3. CASE k > i + 1
      <4>1. cut[k] = ns[k - 1] /\ cut[k + 1] = ns[k] /\ k - 1 \in 1..(Len(ns) - 1)
        BY <1>0, <2>4, <2>5, <3>3
      <4>2. ~(ns[k - 1].free /\ ns[k - 1 + 1].free)
        BY <4>1 DEF Apart
      <4>3. QED
        BY <1>0, <4>1, <4>2
    <3>4. QED
      BY <1>0, <3>1, <3>2, <3>3
  <2>12. i \in 1..Len(cut) /\ cut[i].free /\ cut[i].size >= need
    BY <1>0, <2>2, <2>4, <2>5
  <2>13. QED
    BY <2>10, <2>11, <2>12 DEF cut
<1>3. QED
  BY <1>1, <1>2

\* m is the list ns with the blocks i and i + 1 joined.
Joint(m, ns, i) ==
    /\ Len(m) = Len(ns) - 1
    /\ \A k \in 1..(i - 1) : m[k] = ns[k]
    /\ m[i].free
    /\ \A k \in (i + 1)..(Len(ns) - 1) : m[k] = ns[k + 1]

LEMMA SumNat == \A s, h, t \in Nat : s + h + t \in Nat
  OBVIOUS

LEMMA Regrouped == \A a, h, s, t \in Nat : a + h + (s + h + t) = (a + h + s) + h + t
  OBVIOUS

LEMMA MergeStep ==
    ASSUME Ex!PoolAssumption, NEW ns, NEW end, Linked(ns, end), NEW i \in 1..(Len(ns) - 1),
           ns[i].free
    PROVE  Linked(Ex!Merge(ns, i), end) /\ Joint(Ex!Merge(ns, i), ns, i)
<1> DEFINE b == [ns[i] EXCEPT !.size = ns[i].size + POOL_HDR + ns[i + 1].size]
           long == [ns EXCEPT ![i].size = @ + POOL_HDR + ns[i + 1].size]
           m == Ex!Merge(ns, i)
<1>1. ns \in Seq(Node) /\ Len(ns) \in Nat /\ ns[i] \in Node /\ ns[i + 1] \in Node
  BY DEF Linked
<1>2. /\ ns[i].size \in Nat /\ ns[i].addr \in Nat /\ ns[i + 1].size \in Nat
      /\ ns[i + 1].addr \in Nat /\ POOL_HDR \in Nat
  BY <1>1 DEF Node, Ex!PoolAssumption
<1>3. /\ b \in Node /\ b.size = ns[i].size + POOL_HDR + ns[i + 1].size
      /\ b.addr = ns[i].addr /\ b.free
  <2>1. ns[i].size + POOL_HDR + ns[i + 1].size \in Nat
    BY <1>2, SumNat
  <2>2. QED
    BY <1>1, <2>1 DEF Node
<1>4. long = [ns EXCEPT ![i] = b]
  BY <1>1
<1>5. m = Ex!RemoveAt(long, i + 1)
  BY DEF Ex!Merge
<1> HIDE DEF b, long, m
<1>6. /\ long \in Seq(Node) /\ Len(long) = Len(ns) /\ long[i] = b
      /\ \A k \in 1..Len(ns) : k # i => long[k] = ns[k]
  BY <1>1, <1>3, <1>4
<1>7. m \in Seq(Node) /\ Removed(m, long, i)
  BY <1>5, <1>6, RemovedAfter
<1>8. Len(m) = Len(ns) - 1 /\ m[i] = b /\ \A k \in 1..(i - 1) : m[k] = ns[k]
  BY <1>1, <1>6, <1>7 DEF Removed
<1>9. \A k \in (i + 1)..(Len(ns) - 1) : m[k] = ns[k + 1]
  BY <1>1, <1>6, <1>7 DEF Removed
<1>10. Joint(m, ns, i)
  BY <1>3, <1>8, <1>9 DEF Joint
<1>11. Ex!End(b) = Ex!End(ns[i + 1])
  <2>1. ns[i].addr + POOL_HDR + ns[i].size = ns[i + 1].addr
    BY DEF Linked, Ex!End
  <2>2. Ex!End(b) = ns[i].addr + POOL_HDR + (ns[i].size + POOL_HDR + ns[i + 1].size)
    BY <1>3 DEF Ex!End
  <2>3. Ex!End(ns[i + 1]) = ns[i + 1].addr + POOL_HDR + ns[i + 1].size
    BY DEF Ex!End
  <2>4. ns[i].addr + POOL_HDR + (ns[i].size + POOL_HDR + ns[i + 1].size)
          = (ns[i].addr + POOL_HDR + ns[i].size) + POOL_HDR + ns[i + 1].size
    BY <1>2, Regrouped
  <2>5. QED
    BY <2>1, <2>2, <2>3, <2>4, Zenon
<1>12. m[1].addr = 0 /\ Ex!End(m[Len(m)]) = end
  BY <1>1, <1>3, <1>8, <1>9, <1>11 DEF Linked
<1>13. \A k \in 1..Len(m) :
          /\ m[k].size > 0
          /\ ~m[k].free => m[k].requested + POOL_GUARD <= m[k].size
  <2> SUFFICES ASSUME NEW k \in 1..Len(m)
               PROVE  /\ m[k].size > 0
                      /\ ~m[k].free => m[k].requested + POOL_GUARD <= m[k].size
    OBVIOUS
  <2>1. CASE k < i
    BY <1>1, <1>8, <2>1 DEF Linked
  <2>2. CASE k = i
    <3>1. ns[i].size > 0
      BY DEF Linked
    <3>2. QED
      BY <1>2, <1>3, <1>8, <2>2, <3>1
  <2>3. CASE k > i
    <3>0. k \in (i + 1)..(Len(ns) - 1) /\ k + 1 \in 1..Len(ns)
      BY <1>1, <1>8, <2>3
    <3>1. m[k] = ns[k + 1] /\ k + 1 \in 1..Len(ns)
      BY <1>9, <3>0
    <3>2. QED
      BY <3>1 DEF Linked
  <2>4. QED
    BY <1>1, <2>1, <2>2, <2>3
<1>14. \A k \in 1..(Len(m) - 1) : Ex!End(m[k]) = m[k + 1].addr
  <2> SUFFICES ASSUME NEW k \in 1..(Len(m) - 1) PROVE Ex!End(m[k]) = m[k + 1].addr
    OBVIOUS
  <2>1. CASE k + 1 < i
    BY <1>1, <1>8, <2>1 DEF Linked
  <2>2. CASE k + 1 = i
    BY <1>1, <1>3, <1>8, <2>2 DEF Linked
  <2>3. CASE k >= i
    <3>1. m[k + 1] = ns[k + 2] /\ k + 1 \in 1..(Len(ns) - 1) /\ (k + 1) + 1 = k + 2
      BY <1>1, <1>8, <1>9, <2>3
    <3>2. Ex!End(m[k]) = Ex!End(ns[k + 1])
      BY <1>1, <1>8, <1>9, <1>11, <2>3
    <3>3. QED
      BY <3>1, <3>2 DEF Linked
  <2>4. QED
    BY <1>1, <2>1, <2>2, <2>3
<1>15. Linked(m, end)
  BY <1>1, <1>7, <1>8, <1>12, <1>13, <1>14 DEF Linked
<1>16. QED
  BY <1>10, <1>15 DEF m

\* The free block i has taken in its higher neighbour if it could.
Settled(ns, i) ==
    \A k \in 1..(Len(ns) - 1) : k + 1 = i \/ ~(ns[k].free /\ ns[k + 1].free)

LEMMA MergeUp ==
    ASSUME Ex!PoolAssumption, NEW ns, NEW end, Linked(ns, end), NEW i \in 1..Len(ns),
           ns[i].free, ApartBut(ns, i)
    PROVE  /\ Linked(Ex!MergeIf(ns, i), end) /\ Settled(Ex!MergeIf(ns, i), i)
           /\ i \in 1..Len(Ex!MergeIf(ns, i)) /\ Ex!MergeIf(ns, i)[i].free
<1>0. Len(ns) \in Nat /\ DOMAIN ns = 1..Len(ns)
  BY DEF Linked
<1>1. CASE i + 1 \in 1..Len(ns) /\ ns[i + 1].free
  <2> DEFINE m == Ex!Merge(ns, i)
  <2>1. Ex!MergeIf(ns, i) = m
    BY <1>0, <1>1 DEF Ex!MergeIf
  <2>2. Linked(m, end) /\ Joint(m, ns, i)
    BY <1>0, <1>1, MergeStep
  <2> HIDE DEF m
  <2>3. Settled(m, i)
    <3> SUFFICES ASSUME NEW k \in 1..(Len(m) - 1), k + 1 # i
                 PROVE  ~(m[k].free /\ m[k + 1].free)
      BY DEF Settled
    <3>1. CASE k + 1 < i
      BY <1>0, <2>2, <3>1 DEF Joint, ApartBut
    <3>2. CASE k >= i
      <4>1. m[k + 1] = ns[k + 2] /\ k + 1 \in 1..(Len(ns) - 1) /\ (k + 1) + 1 = k + 2
        BY <1>0, <2>2, <3>2 DEF Joint
      <4>2. m[k].free => ns[k + 1].free
        BY <1>0, <1>1, <2>2, <3>2 DEF Joint
      <4>3. ~(ns[k + 1].free /\ ns[k + 2].free)
        BY <3>2, <4>1 DEF ApartBut
      <4>4. QED
        BY <4>1, <4>2, <4>3
    <3>3. QED
      BY <1>0, <3>1, <3>2
  <2>4. QED
    BY <1>0, <1>1, <2>1, <2>2, <2>3 DEF Joint
<1>2. CASE ~(i + 1 \in 1..Len(ns) /\ ns[i + 1].free)
  <2>1. Ex!MergeIf(ns, i) = ns
    BY <1>0, <1>2 DEF Ex!MergeIf
  <2>2. Settled(ns, i)
    BY <1>0, <1>2 DEF Settled, ApartBut
  <2>3. QED
    BY <2>1, <2>2
<1>3. QED
  BY <1>1, <1>2

LEMMA MergeDown ==
    ASSUME Ex!PoolAssumption, NEW ns, NEW end, Linked(ns, end), NEW i \in 1..Len(ns),
           ns[i].free, Settled(ns, i)
    PROVE  Linked(Ex!MergeIf(ns, i - 1), end) /\ Apart(Ex!MergeIf(ns, i - 1))
<1>0. Len(ns) \in Nat /\ DOMAIN ns = 1..Len(ns) /\ (i - 1) + 1 = i
  BY DEF Linked
<1>1. CASE i - 1 \in 1..Len(ns) /\ ns[i - 1].free
  <2> DEFINE m == Ex!Merge(ns, i - 1)
  <2>1. Ex!MergeIf(ns, i - 1) = m
    BY <1>0, <1>1 DEF Ex!MergeIf
  <2>2. Linked(m, end) /\ Joint(m, ns, i - 1)
    BY <1>0, <1>1, MergeStep
  <2> HIDE DEF m
  <2>3. Apart(m)
    <3> SUFFICES ASSUME NEW k \in 1..(Len(m) - 1) PROVE ~(m[k].free /\ m[k + 1].free)
      BY DEF Apart
    <3>1. CASE k + 1 <= i - 1
      <4>1. m[k] = ns[k] /\ (m[k + 1].free => ns[k + 1].free) /\ k \in 1..(Len(ns) - 1)
        BY <1>0, <1>1, <2>2, <3>1 DEF Joint
      <4>2. QED
        BY <1>0, <3>1, <4>1 DEF Settled
    <3>2. CASE k >= i - 1
      <4>1. m[k + 1] = ns[k + 2] /\ k + 1 \in 1..(Len(ns) - 1) /\ (k + 1) + 1 = k + 2
        BY <1>0, <2>2, <3>2 DEF Joint
      <4>2. m[k].free => ns[k + 1].free
        BY <1>0, <1>1, <2>2, <3>2 DEF Joint
      <4>3. ~(ns[k + 1].free /\ ns[k + 2].free)
        BY <1>0, <3>2, <4>1 DEF Settled
      <4>4. QED
        BY <4>1, <4>2, <4>3
    <3>3. QED
      BY <1>0, <3>1, <3>2
  <2>4. QED
    BY <2>1, <2>2, <2>3
<1>2. CASE ~(i - 1 \in 1..Len(ns) /\ ns[i - 1].free)
  <2>1. Ex!MergeIf(ns, i - 1) = ns
    BY <1>0, <1>2 DEF Ex!MergeIf
  <2>2. Apart(ns)
    BY <1>0, <1>2 DEF Settled, Apart
  <2>3. QED
    BY <2>1, <2>2
<1>3. QED
  BY <1>1, <1>2

\* The list ns after the arena has grown by want bytes at its end.
Grown(ns, end, want) ==
    IF Len(ns) # 0 /\ ns[Len(ns)].free
    THEN [ns EXCEPT ![Len(ns)].size = @ + want]
    ELSE Append(ns, Ex!FreeNode(end, want - POOL_HDR))

LEMMA GrowStep ==
    ASSUME Ex!PoolAssumption, NEW ns, NEW end \in Nat, Linked(ns, end), Apart(ns),
           NEW want \in Nat, want > POOL_HDR
    PROVE  LET new == Grown(ns, end, want)
           IN  /\ Linked(new, end + want) /\ Apart(new)
               /\ new[Len(new)].free /\ new[Len(new)].size >= want - POOL_HDR
<1> DEFINE n == Len(ns)
           new == Grown(ns, end, want)
<1>1. ns \in Seq(Node) /\ n \in Nat \ {0} /\ ns[n] \in Node /\ Ex!End(ns[n]) = end
  BY DEF Linked
<1>2. ns[n].addr \in Nat /\ ns[n].size \in Nat /\ POOL_HDR \in Nat \ {0}
  BY <1>1 DEF Node, Ex!PoolAssumption
<1>3. end = ns[n].addr + POOL_HDR + ns[n].size
  BY <1>1 DEF Ex!End
<1>4. CASE ns[n].free
  <2> DEFINE b == [ns[n] EXCEPT !.size = ns[n].size + want]
  <2>1. b \in Node /\ b.size = ns[n].size + want /\ b.addr = ns[n].addr /\ b.free
    <3>1. ns[n].size + want \in Nat
      BY <1>2
    <3>2. QED
      BY <1>1, <1>4, <3>1 DEF Node
  <2>2. new = [ns EXCEPT ![n] = b]
    BY <1>1, <1>4 DEF Grown
  <2> HIDE DEF b, new
  <2>3. /\ new \in Seq(Node) /\ Len(new) = n /\ new[n] = b
        /\ \A k \in 1..(n - 1) : new[k] = ns[k]
    BY <1>1, <2>1, <2>2
  <2> HIDE DEF n
  <2>4. Ex!End(b) = end + want
    BY <1>2, <1>3, <2>1 DEF Ex!End
  <2>5. b.size > 0
    BY <1>2, <2>1
  <2>6. \A k \in 1..n :
          /\ new[k].size > 0
          /\ ~new[k].free => new[k].requested + POOL_GUARD <= new[k].size
    BY <1>1, <2>1, <2>3, <2>5 DEF Linked, n
  <2>7. \A k \in 1..(n - 1) : Ex!End(new[k]) = new[k + 1].addr
    BY <1>1, <2>1, <2>3 DEF Linked, n
  <2>8. new[1].addr = 0
    BY <1>1, <2>1, <2>3 DEF Linked, n
  <2>9. Linked(new, end + want)
    <3>1. new \in Seq(Node) /\ Len(new) > 0 /\ Ex!End(new[Len(new)]) = end + want
      BY <1>1, <2>3, <2>4
    <3>2. \A k \in 1..Len(new) :
            /\ new[k].size > 0
            /\ ~new[k].free => new[k].requested + POOL_GUARD <= new[k].size
      BY <2>3, <2>6
    <3>3. \A k \in 1..(Len(new) - 1) : Ex!End(new[k]) = new[k + 1].addr
      BY <1>1, <2>3, <2>7
    <3>4. QED
      BY <2>8, <3>1, <3>2, <3>3 DEF Linked
  <2>10. Apart(new)
    BY <1>1, <1>4, <2>1, <2>3 DEF Apart, n
  <2>11. new[Len(new)].free /\ new[Len(new)].size >= want - POOL_HDR
    BY <1>2, <2>1, <2>3
  <2>12. QED
    BY <2>9, <2>10, <2>11 DEF new
<1>5. CASE ~ns[n].free
  <2> DEFINE b == Ex!FreeNode(end, want - POOL_HDR)
  <2>1. b \in Node /\ b.size = want - POOL_HDR /\ b.addr = end /\ b.free /\ b.size > 0
    <3>1. want - POOL_HDR \in Nat /\ want - POOL_HDR > 0
      BY <1>2
    <3>2. QED
      BY <3>1 DEF Node, Ex!FreeNode
  <2>2. new = Append(ns, b)
    BY <1>1, <1>5 DEF Grown
  <2> HIDE DEF b, new
  <2>3. /\ new \in Seq(Node) /\ Len(new) = n + 1 /\ new[n + 1] = b
        /\ \A k \in 1..n : new[k] = ns[k]
    BY <1>1, <2>1, <2>2
  <2> HIDE DEF n
  <2>4. Ex!End(b) = end + want
    BY <1>2, <2>1 DEF Ex!End
  <2>6. \A k \in 1..(n + 1) :
          /\ new[k].size > 0
          /\ ~new[k].free => new[k].requested + POOL_GUARD <= new[k].size
    BY <1>1, <2>1, <2>3 DEF Linked, n
  <2>7. \A k \in 1..n : Ex!End(new[k]) = new[k + 1].addr
    BY <1>1, <2>1, <2>3 DEF Linked, n
  <2>8. new[1].addr = 0
    BY <1>1, <2>3 DEF Linked, n
  <2>9. Linked(new, end + want)
    <3>1. /\ new \in Seq(Node) /\ Len(new) > 0 /\ Ex!End(new[Len(new)]) = end + want
          /\ Len(new) - 1 = n
      BY <1>1, <2>3, <2>4
    <3>2. \A k \in 1..Len(new) :
            /\ new[k].size > 0
            /\ ~new[k].free => new[k].requested + POOL_GUARD <= new[k].size
      BY <2>3, <2>6
    <3>3. \A k \in 1..(Len(new) - 1) : Ex!End(new[k]) = new[k + 1].addr
      BY <1>1, <2>3, <2>7
    <3>4. QED
      BY <2>8, <3>1, <3>2, <3>3 DEF Linked
  <2>10. Apart(new)
    <3> SUFFICES ASSUME NEW k \in 1..n PROVE ~(new[k].free /\ new[k + 1].free)
      BY <1>1, <2>3 DEF Apart
    <3>1. CASE k = n
      BY <1>1, <1>5, <2>3, <3>1
    <3>2. CASE k < n
      BY <1>1, <2>3, <3>2 DEF Apart, n
    <3>3. QED
      BY <1>1, <3>1, <3>2
  <2>11. new[Len(new)].free /\ new[Len(new)].size >= want - POOL_HDR
    BY <1>2, <2>1, <2>3
  <2>12. QED
    BY <2>9, <2>10, <2>11 DEF new
<1>6. QED
  BY <1>4, <1>5

\* pool_grow gives a block that satisfies the request, or changes nothing of the list.
LEMMA GrowEffect ==
    ASSUME Ex!PoolAssumption, NEW p, NEW need \in Nat \ {0},
           p.heap_end \in Nat, p.frames \in 0..Memory, p.ok,
           p = [nodes |-> p.nodes, heap_end |-> p.heap_end, frames |-> p.frames, ok |-> p.ok],
           Linked(p.nodes, p.heap_end), Apart(p.nodes)
    PROVE  LET g == Ex!pool_grow(p, need)
           IN  /\ Linked(g.nodes, g.heap_end) /\ Apart(g.nodes)
               /\ g.heap_end \in Nat /\ g.frames \in 0..Memory
               /\ g.ok => Ex!Fits(g.nodes, need) # {}
               /\ ~g.ok => g.nodes = p.nodes /\ g.heap_end = p.heap_end
<1> DEFINE want == Ex!ALIGN_UP_BY(need + POOL_HDR, POOL_GROW_CHUNK)
           g == Ex!pool_grow(p, need)
           new == Grown(p.nodes, p.heap_end, want)
<1>0. /\ POOL_HDR \in Nat \ {0} /\ POOL_GROW_CHUNK \in Nat \ {0} /\ PAGE_SIZE \in Nat \ {0}
      /\ Memory \in Nat
  BY DEF Ex!PoolAssumption
<1>1. want \in Nat /\ want >= need + POOL_HDR /\ want > POOL_HDR
  <2>1. need + POOL_HDR \in Nat \ {0}
    BY <1>0
  <2>2. want \in Nat /\ want >= need + POOL_HDR
    BY <1>0, <2>1, RoundedUp
  <2>3. QED
    BY <1>0, <2>2
<1>2. g = IF p.frames < want \div PAGE_SIZE
          THEN [p EXCEPT !.frames = 0, !.ok = FALSE]
          ELSE [nodes |-> new, heap_end |-> p.heap_end + want,
                frames |-> p.frames - (want \div PAGE_SIZE), ok |-> TRUE]
  BY DEF Ex!pool_grow, Grown
<1>3. want \div PAGE_SIZE \in Nat
  BY <1>0, <1>1
<1> HIDE DEF want, g, new
<1>4. CASE p.frames < want \div PAGE_SIZE
  <2>1. g.nodes = p.nodes /\ g.heap_end = p.heap_end /\ g.frames = 0 /\ g.ok = FALSE
    BY <1>2, <1>4
  <2>2. QED
    BY <1>0, <2>1 DEF g
<1>5. CASE ~(p.frames < want \div PAGE_SIZE)
  <2>1. /\ g.nodes = new /\ g.heap_end = p.heap_end + want
        /\ g.frames = p.frames - (want \div PAGE_SIZE) /\ g.ok = TRUE
    BY <1>2, <1>5
  <2>2. /\ Linked(new, p.heap_end + want) /\ Apart(new)
        /\ new[Len(new)].free /\ new[Len(new)].size >= want - POOL_HDR
    BY <1>1, GrowStep DEF new
  <2>3. Len(new) \in DOMAIN new /\ new[Len(new)].size >= need
    <3>1. new \in Seq(Node) /\ Len(new) > 0 /\ new[Len(new)] \in Node
      BY <2>2 DEF Linked
    <3>2. new[Len(new)].size \in Nat
      BY <3>1 DEF Node
    <3>3. QED
      BY <1>0, <1>1, <2>2, <3>1, <3>2
  <2>4. Ex!Fits(new, need) # {}
    BY <2>2, <2>3 DEF Ex!Fits
  <2>5. g.heap_end \in Nat /\ g.frames \in 0..Memory
    BY <1>0, <1>1, <1>3, <1>5, <2>1
  <2>6. QED
    BY <2>1, <2>2, <2>4, <2>5 DEF g
<1>6. QED
  BY <1>4, <1>5

-----------------------------------------------------------------------------
(* The operations of the pool *)

LEMMA LeastExists ==
    ASSUME NEW S \in SUBSET Nat, S # {}
    PROVE  Ex!Min(S) \in S
<1>1. PICK x \in S : \A y \in S : <<y, x>> \notin OpToRel(<, Nat)
  BY NatLessThanWellFounded, WFMin
<1>2. ASSUME NEW y \in S PROVE ~(y < x)
  BY <1>1 DEF OpToRel
<1>3. \A y \in S : x <= y
  BY <1>2
<1>4. QED
  BY <1>3 DEF Ex!Min

LEMMA NeedSuffices ==
    ASSUME Ex!PoolAssumption, NEW size \in Sizes
    PROVE  Ex!Need(size) \in Nat \ {0} /\ Ex!Need(size) >= size + POOL_GUARD /\ size \in Nat
<1>1. size \in Nat \ {0} /\ POOL_ALIGN \in Nat \ {0} /\ POOL_GUARD \in Nat \ {0}
  BY DEF Ex!PoolAssumption
<1>2. Ex!ALIGN_UP_BY(size, POOL_ALIGN) \in Nat /\ Ex!ALIGN_UP_BY(size, POOL_ALIGN) >= size
  BY <1>1, RoundedUp
<1>3. QED
  BY <1>1, <1>2 DEF Ex!Need

LEMMA TakeStep ==
    ASSUME Ex!PoolAssumption, NEW ns, NEW end, Linked(ns, end), Apart(ns),
           NEW size \in Sizes, Ex!Fits(ns, Ex!Need(size)) # {}, Ex!Take(ns, size)
    PROVE  Linked(nodes', end) /\ Apart(nodes')
<1> DEFINE need == Ex!Need(size)
           i == Ex!Min(Ex!Fits(ns, need))
           cut == Ex!pool_split(ns, i, need)
           b == [[cut[i] EXCEPT !.free = FALSE] EXCEPT !.requested = size]
<1>1. need \in Nat \ {0} /\ need >= size + POOL_GUARD /\ size \in Nat /\ POOL_GUARD \in Nat
  BY NeedSuffices DEF Ex!PoolAssumption
<1>2. ns \in Seq(Node) /\ Len(ns) \in Nat /\ DOMAIN ns = 1..Len(ns)
  BY DEF Linked
<1>3. Ex!Fits(ns, need) \in SUBSET Nat
  BY <1>2 DEF Ex!Fits
<1>4. i \in Ex!Fits(ns, need)
  BY <1>3, LeastExists
<1>5. nodes' = [[cut EXCEPT ![i].free = FALSE] EXCEPT ![i].requested = size]
  BY DEF Ex!Take
<1> HIDE DEF i, need
<1>6. i \in 1..Len(ns) /\ ns[i].free /\ ns[i].size >= need
  BY <1>2, <1>4 DEF Ex!Fits
<1>7. /\ Linked(cut, end) /\ ApartBut(cut, i)
      /\ i \in 1..Len(cut) /\ cut[i].free /\ cut[i].size >= need
  BY <1>1, <1>6, SplitStep
<1> HIDE DEF cut
<1>8. cut \in Seq(Node) /\ cut[i] \in Node /\ Len(cut) \in Nat
  BY <1>7 DEF Linked
<1>9. /\ b \in Node /\ b.addr = cut[i].addr /\ b.size = cut[i].size /\ b.free = FALSE
      /\ b.requested = size /\ cut[i].size \in Nat
  BY <1>1, <1>8 DEF Node
<1>10. nodes' = [cut EXCEPT ![i] = b]
  BY <1>5, <1>7, <1>8
<1> HIDE DEF b
<1>11. b.requested + POOL_GUARD <= b.size
  BY <1>1, <1>7, <1>9
<1>12. Linked(nodes', end) /\ Changed(nodes', cut, i, b)
  BY <1>7, <1>9, <1>10, <1>11, ReplaceBlock
<1>13. Apart(nodes')
  <2> SUFFICES ASSUME NEW k \in 1..(Len(cut) - 1)
               PROVE  ~(nodes'[k].free /\ nodes'[k + 1].free)
    BY <1>12 DEF Apart, Changed
  <2>1. k \in 1..Len(cut) /\ k + 1 \in 1..Len(cut)
    BY <1>8
  <2>2. nodes'[k] = (IF k = i THEN b ELSE cut[k])
        /\ nodes'[k + 1] = (IF k + 1 = i THEN b ELSE cut[k + 1])
    BY <1>12, <2>1 DEF Changed
  <2>3. k = i \/ k + 1 = i \/ ~(cut[k].free /\ cut[k + 1].free)
    BY <1>7 DEF ApartBut
  <2>4. QED
    BY <1>9, <2>2, <2>3
<1>14. QED
  BY <1>12, <1>13

LEMMA FreeStep ==
    ASSUME Ex!PoolAssumption, PoolInv, NEW i \in DOMAIN nodes, Ex!ExFreePool(i)
    PROVE  PoolInv'
<1> DEFINE b == [[nodes[i] EXCEPT !.free = TRUE] EXCEPT !.requested = 0]
           f == [[nodes EXCEPT ![i].free = TRUE] EXCEPT ![i].requested = 0]
<1>1. nodes \in Seq(Node) /\ i \in 1..Len(nodes) /\ nodes[i] \in Node /\ Len(nodes) \in Nat
  BY DEF PoolInv, Linked
<1>2. b \in Node /\ b.addr = nodes[i].addr /\ b.size = nodes[i].size /\ b.free = TRUE
  BY <1>1 DEF Node
<1>3. f = [nodes EXCEPT ![i] = b]
  BY <1>1
<1>4. nodes' = Ex!MergeIf(Ex!MergeIf(f, i), i - 1) /\ heap_end' = heap_end /\ frames' = frames
  BY DEF Ex!ExFreePool
<1> HIDE DEF b, f
<1>5. Linked(f, heap_end) /\ Changed(f, nodes, i, b)
  BY <1>1, <1>2, <1>3, ReplaceBlock DEF PoolInv
<1>6. f[i].free /\ ApartBut(f, i) /\ i \in 1..Len(f)
  BY <1>1, <1>2, <1>5 DEF PoolInv, Apart, ApartBut, Changed
<1>7. PICK m : m = Ex!MergeIf(f, i)
  OBVIOUS
<1>8. Linked(m, heap_end) /\ Settled(m, i) /\ i \in 1..Len(m) /\ m[i].free
  BY <1>5, <1>6, <1>7, MergeUp
<1>9. Linked(nodes', heap_end) /\ Apart(nodes')
  BY <1>4, <1>7, <1>8, MergeDown
<1>10. QED
  BY <1>4, <1>9 DEF PoolInv

\* The arena grown for a request satisfies it.
LEMMA PoolGrows ==
    ASSUME Ex!PoolAssumption, PoolInv, NEW need \in Nat \ {0}
    PROVE  LET g == Ex!pool_grow(Ex!Pool, need)
           IN  /\ Linked(g.nodes, g.heap_end) /\ Apart(g.nodes)
               /\ g.heap_end \in Nat /\ g.frames \in 0..Memory
               /\ g.ok => Ex!Fits(g.nodes, need) # {}
               /\ ~g.ok => g.nodes = nodes /\ g.heap_end = heap_end
<1> DEFINE p == Ex!Pool
<1>1. /\ p.nodes = nodes /\ p.heap_end = heap_end /\ p.frames = frames /\ p.ok
      /\ p = [nodes |-> p.nodes, heap_end |-> p.heap_end, frames |-> p.frames, ok |-> p.ok]
  BY DEF Ex!Pool
<1> HIDE DEF p
<1>2. /\ p.heap_end \in Nat /\ p.frames \in 0..Memory
      /\ Linked(p.nodes, p.heap_end) /\ Apart(p.nodes)
  BY <1>1 DEF PoolInv
<1>3. PICK g : g = Ex!pool_grow(p, need)
  OBVIOUS
<1>4. /\ Linked(g.nodes, g.heap_end) /\ Apart(g.nodes)
      /\ g.heap_end \in Nat /\ g.frames \in 0..Memory
      /\ g.ok => Ex!Fits(g.nodes, need) # {}
      /\ ~g.ok => g.nodes = p.nodes /\ g.heap_end = p.heap_end
  BY <1>1, <1>2, <1>3, GrowEffect
<1>5. QED
  BY <1>1, <1>3, <1>4 DEF p

LEMMA AllocateStep ==
    ASSUME Ex!PoolAssumption, PoolInv, NEW size \in Sizes, Ex!ExAllocatePoolWithTag(size)
    PROVE  PoolInv'
<1> DEFINE need == Ex!Need(size)
           g == Ex!pool_grow(Ex!Pool, need)
           failed == IF g.ok THEN Ex!pool_grow(g, need) ELSE g
<1>1. need \in Nat \ {0}
  BY NeedSuffices
<1>2. /\ Linked(g.nodes, g.heap_end) /\ Apart(g.nodes)
      /\ g.heap_end \in Nat /\ g.frames \in 0..Memory
      /\ g.ok => Ex!Fits(g.nodes, need) # {}
  BY <1>1, PoolGrows
<1>3. \/ (Ex!Fits(nodes, need) # {} /\ Ex!Take(nodes, size) /\ UNCHANGED <<heap_end, frames>>)
      \/ /\ Ex!Fits(g.nodes, need) # {} /\ Ex!Take(g.nodes, size)
         /\ heap_end' = g.heap_end /\ frames' = g.frames
      \/ /\ ~g.ok \/ Ex!Fits(g.nodes, need) = {}
         /\ nodes' = failed.nodes /\ heap_end' = failed.heap_end /\ frames' = failed.frames
  BY DEF Ex!ExAllocatePoolWithTag
<1> HIDE DEF g, need
<1>4. CASE Ex!Fits(nodes, need) # {} /\ Ex!Take(nodes, size) /\ UNCHANGED <<heap_end, frames>>
  BY <1>4, TakeStep DEF PoolInv, need
<1>5. CASE /\ Ex!Fits(g.nodes, need) # {} /\ Ex!Take(g.nodes, size)
           /\ heap_end' = g.heap_end /\ frames' = g.frames
  <2>1. Linked(nodes', g.heap_end) /\ Apart(nodes')
    BY <1>2, <1>5, TakeStep DEF need
  <2>2. QED
    BY <1>2, <1>5, <2>1 DEF PoolInv
<1>6. CASE /\ ~g.ok \/ Ex!Fits(g.nodes, need) = {}
           /\ nodes' = failed.nodes /\ heap_end' = failed.heap_end /\ frames' = failed.frames
  <2>1. failed = g
    BY <1>2, <1>6
  <2>2. QED
    BY <1>2, <1>6, <2>1 DEF PoolInv
<1>7. QED
  BY <1>3, <1>4, <1>5, <1>6

LEMMA PoolInit == ASSUME Ex!PoolAssumption PROVE Ex!Init => PoolInv
<1> SUFFICES ASSUME Ex!Init PROVE PoolInv
  OBVIOUS
<1> DEFINE q == [nodes |-> << >>, heap_end |-> 0, frames |-> Memory, ok |-> TRUE]
           g == Ex!pool_grow(q, POOL_GROW_CHUNK - POOL_HDR)
           want == Ex!ALIGN_UP_BY((POOL_GROW_CHUNK - POOL_HDR) + POOL_HDR, POOL_GROW_CHUNK)
           b == Ex!FreeNode(0, want - POOL_HDR)
<1>0. /\ POOL_HDR \in Nat \ {0} /\ POOL_GROW_CHUNK \in Nat \ {0} /\ PAGE_SIZE \in Nat \ {0}
      /\ POOL_GROW_CHUNK > POOL_HDR /\ Memory \in Nat
  BY DEF Ex!PoolAssumption
<1>1. want \in Nat /\ want > POOL_HDR
  <2>1. (POOL_GROW_CHUNK - POOL_HDR) + POOL_HDR = POOL_GROW_CHUNK
    BY <1>0
  <2>2. want \in Nat /\ want >= POOL_GROW_CHUNK
    BY <1>0, <2>1, RoundedUp
  <2>3. QED
    BY <1>0, <2>2
<1>2. g.ok /\ nodes = g.nodes /\ heap_end = g.heap_end /\ frames = g.frames
  BY DEF Ex!Init
<1>3. g = IF Memory < want \div PAGE_SIZE
          THEN [q EXCEPT !.frames = 0, !.ok = FALSE]
          ELSE [nodes |-> Append(<< >>, b), heap_end |-> 0 + want,
                frames |-> Memory - (want \div PAGE_SIZE), ok |-> TRUE]
  BY DEF Ex!pool_grow
<1>4. want \div PAGE_SIZE \in Nat
  BY <1>0, <1>1
<1>5. b \in Node /\ b.addr = 0 /\ b.size = want - POOL_HDR /\ b.free /\ b.size > 0
  <2>1. want - POOL_HDR \in Nat /\ want - POOL_HDR > 0
    BY <1>0, <1>1
  <2>2. QED
    BY <2>1 DEF Ex!FreeNode, Node
<1> HIDE DEF want, b, g
<1>6. /\ ~(Memory < want \div PAGE_SIZE) /\ nodes = Append(<< >>, b)
      /\ heap_end = want /\ frames = Memory - (want \div PAGE_SIZE)
  BY <1>1, <1>2, <1>3
<1>7. nodes \in Seq(Node) /\ Len(nodes) = 1 /\ nodes[1] = b
  BY <1>5, <1>6
<1>8. Ex!End(b) = want
  BY <1>0, <1>1, <1>5 DEF Ex!End
<1>9. Linked(nodes, heap_end)
  BY <1>5, <1>6, <1>7, <1>8 DEF Linked
<1>10. Apart(nodes)
  BY <1>7 DEF Apart
<1>11. QED
  BY <1>0, <1>1, <1>4, <1>6, <1>9, <1>10 DEF PoolInv

LEMMA PoolNext ==
    ASSUME Ex!PoolAssumption PROVE PoolInv /\ [Ex!Next]_(Ex!vars) => PoolInv'
<1> SUFFICES ASSUME PoolInv, [Ex!Next]_(Ex!vars) PROVE PoolInv'
  OBVIOUS
<1>1. CASE UNCHANGED Ex!vars
  BY <1>1 DEF Ex!vars, PoolInv
<1>2. QED
  BY <1>1, AllocateStep, FreeStep DEF Ex!Next

\* The blocks of the pool tile its arena, whatever is allocated, split, freed, joined
\* or grown, and whenever memory runs out (ExAllocatePoolWithTag, ExFreePool,
\* pool_grow, pool_split): pool_validate never finds the list broken.
THEOREM PoolIsTiled ==
    ASSUME Ex!PoolAssumption
    PROVE  Ex!Spec => []Ex!Tiled
<1>1. PoolInv => Ex!Tiled
  <2> SUFFICES ASSUME PoolInv PROVE Ex!Tiled
    OBVIOUS
  <2>1. DOMAIN nodes = 1..Len(nodes) /\ Len(nodes) \in Nat
    BY DEF PoolInv, Linked
  <2>2. QED
    BY <2>1 DEF PoolInv, Linked, Ex!Tiled
<1>2. QED
  BY <1>1, PoolInit, PoolNext, PTL DEF Ex!Spec

\* No two neighbours in the list are free: ExFreePool joins a block with both sides,
\* and pool_grow with the last one.
THEOREM PoolIsCoalesced ==
    ASSUME Ex!PoolAssumption
    PROVE  Ex!Spec => []Ex!Coalesced
<1>1. PoolInv => Ex!Coalesced
  <2> SUFFICES ASSUME PoolInv PROVE Ex!Coalesced
    OBVIOUS
  <2>1. DOMAIN nodes = 1..Len(nodes) /\ Len(nodes) \in Nat
    BY DEF PoolInv, Linked
  <2>2. QED
    BY <2>1 DEF PoolInv, Apart, Ex!Coalesced
<1>2. QED
  BY <1>1, PoolInit, PoolNext, PTL DEF Ex!Spec

\* An arena that could be grown for a request satisfies it, so the second search of
\* ExAllocatePoolWithTag does not fail.
THEOREM GrowingSuffices ==
    ASSUME Ex!PoolAssumption
    PROVE  Ex!Spec => []Ex!GrowSuffices
<1>1. PoolInv => Ex!GrowSuffices
  BY NeedSuffices, PoolGrows DEF Ex!GrowSuffices
<1>2. QED
  BY <1>1, PoolInit, PoolNext, PTL DEF Ex!Spec

-----------------------------------------------------------------------------
(* Page tables *)

\* Page p can be reached.
Present(p) == p \in DOMAIN pt /\ Vm!Walk(p) \subseteq DOMAIN table

\* Frames are in range.
VmTypes ==
    /\ free \subseteq RamFrames
    /\ \A q \in DOMAIN pt : pt[q].frame \in RamFrames
    /\ \A t \in DOMAIN table : table[t] \in RamFrames
    /\ bump \in [Areas -> Nat] /\ (\A a \in Areas : Base[a] <= bump[a])
    /\ call = Vm!Idle \/ call \in [area : Areas, done : Nat, pages : Nat]

\* A service that goes on has mapped the pages that it counts.
CountedMapped ==
    ~halted /\ call # Vm!Idle => \A k \in 0..(call.done - 1) : Present(bump[call.area] + k)

\* The inductive invariant.
VmInv == VmTypes /\ Vm!FramesPrivate /\ Vm!CommittedMapped /\ CountedMapped

\* The operators of FiniteSets are the same seen through the instance.
LEMMA SameFinite == \A S : Vm!IsFiniteSet(S) <=> IsFiniteSet(S)
  BY DEF Vm!IsFiniteSet, IsFiniteSet

LEMMA SameCardinality == \A S : Vm!Cardinality(S) = Cardinality(S)
  BY DEF Vm!Cardinality, Cardinality

UpTo(S, x) == {y \in S : y <= x}

\* A finite set of numbers has a k-th element for each k up to its cardinality.
LEMMA KthExists ==
    ASSUME NEW S \in SUBSET Nat, IsFiniteSet(S), NEW k \in 1..Cardinality(S)
    PROVE  \E x \in S : Cardinality(UpTo(S, x)) = k
<1> DEFINE card == Cardinality(S)
           rk == [x \in S |-> Cardinality(UpTo(S, x))]
           R == {rk[x] : x \in S}
<1>1. card \in Nat
  BY FS_CardinalityType
<1>2. ASSUME NEW x \in S
      PROVE  IsFiniteSet(UpTo(S, x)) /\ Cardinality(UpTo(S, x)) \in 1..card
  <2>1. UpTo(S, x) \in SUBSET S /\ x \in UpTo(S, x)
    BY DEF UpTo
  <2>2. IsFiniteSet(UpTo(S, x)) /\ Cardinality(UpTo(S, x)) <= card
    BY <2>1, FS_Subset
  <2>3. Cardinality(UpTo(S, x)) \in Nat /\ Cardinality(UpTo(S, x)) # 0
    BY <2>1, <2>2, FS_CardinalityType, FS_EmptySet
  <2>4. QED
    BY <1>1, <2>2, <2>3
<1>3. ASSUME NEW x \in S, NEW y \in S, x < y
      PROVE  Cardinality(UpTo(S, x)) # Cardinality(UpTo(S, y))
  <2>1. x \in Nat /\ y \in Nat
    OBVIOUS
  <2>2. y \notin UpTo(S, x) /\ y \in UpTo(S, y)
    BY <1>3, <2>1 DEF UpTo
  <2>3. ASSUME NEW z \in UpTo(S, x) PROVE z \in UpTo(S, y)
    <3>1. z \in S /\ z \in Nat /\ z <= x
      BY DEF UpTo
    <3>2. z <= y
      BY <1>3, <2>1, <3>1
    <3>3. QED
      BY <3>1, <3>2 DEF UpTo
  <2>4. UpTo(S, x) \in SUBSET UpTo(S, y)
    BY <2>3
  <2>5. QED
    BY <1>2, <2>2, <2>4, FS_Subset
<1>4. \A x, y \in S : rk[x] = rk[y] => x = y
  <2> SUFFICES ASSUME NEW x \in S, NEW y \in S, x # y PROVE rk[x] # rk[y]
    OBVIOUS
  <2>1. x < y \/ y < x
    OBVIOUS
  <2>2. QED
    BY <1>3, <2>1
<1>5. rk \in Bijection(S, R)
  BY <1>4 DEF Bijection, Injection, Surjection, IsInjective
<1>6. R \in SUBSET (1..card)
  BY <1>2
<1>7. IsFiniteSet(1..card) /\ Cardinality(1..card) = card
  BY <1>1, FS_Interval
<1>8. Cardinality(R) = card
  <2>1. ExistsBijection(S, R)
    BY <1>5 DEF ExistsBijection
  <2> HIDE DEF R
  <2>2. QED
    BY <2>1, FS_Bijection
<1>9. R = 1..card
  BY <1>6, <1>7, <1>8, FS_Subset
<1>10. QED
  BY <1>9

LEMMA NthFree ==
    ASSUME Vm!VirtualMemoryAssumption, free \subseteq RamFrames,
           NEW k \in 1..Cardinality(free)
    PROVE  Vm!Nth(k) \in free /\ Cardinality(UpTo(free, Vm!Nth(k))) = k
<1>1. RamFrames \subseteq Nat /\ IsFiniteSet(RamFrames)
  BY SameFinite DEF Vm!VirtualMemoryAssumption
<1>2. free \in SUBSET Nat /\ IsFiniteSet(free)
  BY <1>1, FS_Subset
<1>3. \E x \in free : Cardinality(UpTo(free, x)) = k
  BY <1>2, KthExists
<1>4. \A x \in free : Vm!Cardinality({g \in free : g <= x}) = Cardinality(UpTo(free, x))
  BY SameCardinality DEF UpTo
<1>5. Vm!Nth(k) = CHOOSE x \in free : Vm!Cardinality({g \in free : g <= x}) = k
  BY DEF Vm!Nth
<1>6. QED
  BY <1>3, <1>4, <1>5

\* The frames that one call of MmMapPage takes for tables: the place of each among the
\* missing ones, counted from the top, is its own.
Missing(p) == Vm!Walk(p) \ DOMAIN table
Above(p, t) == {m \in Missing(p) : m[1] >= t[1]}

LEMMA PlacesDiffer ==
    ASSUME NEW p
    PROVE  /\ IsFiniteSet(Missing(p)) /\ Cardinality(Missing(p)) \in Nat
           /\ \A t \in Missing(p) : Cardinality(Above(p, t)) \in 1..Cardinality(Missing(p))
           /\ \A t, u \in Missing(p) :
                 Cardinality(Above(p, t)) = Cardinality(Above(p, u)) => t = u
<1> DEFINE w(l) == <<l, p \div FANOUT ^ l>>
<1>1. Vm!Walk(p) = {w(1), w(2), w(3)}
  <2>1. 1..3 = {1, 2, 3}
    OBVIOUS
  <2>2. QED
    BY <2>1 DEF Vm!Walk
<1>2. w(1)[1] = 1 /\ w(2)[1] = 2 /\ w(3)[1] = 3
  OBVIOUS
<1>3. IsFiniteSet({w(1), w(2), w(3)})
  <2> HIDE DEF w
  <2>1. IsFiniteSet({}) /\ IsFiniteSet({} \cup {w(1)}) /\ IsFiniteSet(({} \cup {w(1)}) \cup {w(2)})
        /\ IsFiniteSet((({} \cup {w(1)}) \cup {w(2)}) \cup {w(3)})
    BY FS_EmptySet, FS_AddElement
  <2>2. ((({} \cup {w(1)}) \cup {w(2)}) \cup {w(3)}) = {w(1), w(2), w(3)}
    OBVIOUS
  <2>3. QED
    BY <2>1, <2>2
<1> HIDE DEF w
<1>4. Missing(p) \in SUBSET {w(1), w(2), w(3)}
  BY <1>1 DEF Missing
<1>5. IsFiniteSet(Missing(p)) /\ Cardinality(Missing(p)) \in Nat
  BY <1>3, <1>4, FS_Subset, FS_CardinalityType
<1>6. \A t \in Missing(p) : t[1] \in Nat
  BY <1>2, <1>4
<1>7. ASSUME NEW t \in Missing(p)
      PROVE  IsFiniteSet(Above(p, t)) /\ Cardinality(Above(p, t)) \in 1..Cardinality(Missing(p))
  <2>1. Above(p, t) \in SUBSET Missing(p) /\ t \in Above(p, t)
    BY <1>6 DEF Above
  <2>2. IsFiniteSet(Above(p, t)) /\ Cardinality(Above(p, t)) <= Cardinality(Missing(p))
    BY <1>5, <2>1, FS_Subset
  <2>3. Cardinality(Above(p, t)) \in Nat /\ Cardinality(Above(p, t)) # 0
    BY <2>1, <2>2, FS_CardinalityType, FS_EmptySet
  <2>4. QED
    BY <1>5, <2>2, <2>3
<1>8. ASSUME NEW t \in Missing(p), NEW u \in Missing(p), t[1] < u[1]
      PROVE  Cardinality(Above(p, t)) # Cardinality(Above(p, u))
  <2>1. Above(p, u) \in SUBSET Above(p, t) /\ t \in Above(p, t) /\ t \notin Above(p, u)
    BY <1>6, <1>8 DEF Above
  <2>2. QED
    BY <1>7, <2>1, FS_Subset
<1>9. ASSUME NEW t \in Missing(p), NEW u \in Missing(p), t # u
      PROVE  t[1] < u[1] \/ u[1] < t[1]
  BY <1>2, <1>4, <1>9
<1>10. \A t, u \in Missing(p) : Cardinality(Above(p, t)) = Cardinality(Above(p, u)) => t = u
  BY <1>8, <1>9
<1>11. QED
  BY <1>5, <1>7, <1>10

\* The frames for the missing tables, as MmMapPage takes them after the page's own.
Fresh(p) == [t \in Missing(p) |-> Vm!Nth(1 + Cardinality(Above(p, t)))]

\* RamFrames are taken from the free ones, and none is taken twice.
Taken(p) ==
    /\ Vm!Nth(1) \in free
    /\ \A t \in Missing(p) : Fresh(p)[t] \in free /\ Fresh(p)[t] # Vm!Nth(1)
    /\ \A t, u \in Missing(p) : t # u => Fresh(p)[t] # Fresh(p)[u]

LEMMA FramesTaken ==
    ASSUME Vm!VirtualMemoryAssumption, free \subseteq RamFrames, NEW p,
           Cardinality(free) > Cardinality(Missing(p))
    PROVE  Taken(p)
<1> DEFINE at(t) == 1 + Cardinality(Above(p, t))
<1>1. IsFiniteSet(free) /\ Cardinality(free) \in Nat
  <2>1. IsFiniteSet(RamFrames)
    BY SameFinite DEF Vm!VirtualMemoryAssumption
  <2>2. QED
    BY <2>1, FS_Subset, FS_CardinalityType
<1>2. Cardinality(Missing(p)) \in Nat
  BY PlacesDiffer
<1>3. 1 \in 1..Cardinality(free)
  BY <1>1, <1>2
<1>4. \A t \in Missing(p) : at(t) \in 1..Cardinality(free) /\ at(t) # 1
  BY <1>1, <1>2, PlacesDiffer
<1>5. \A t, u \in Missing(p) : t # u => at(t) # at(u)
  <2> SUFFICES ASSUME NEW t \in Missing(p), NEW u \in Missing(p), at(t) = at(u) PROVE t = u
    OBVIOUS
  <2>1. Cardinality(Above(p, t)) \in Nat /\ Cardinality(Above(p, u)) \in Nat
    BY <1>2, PlacesDiffer
  <2>2. Cardinality(Above(p, t)) = Cardinality(Above(p, u))
    BY <2>1
  <2>3. QED
    BY <2>2, PlacesDiffer
<1>6. \A t \in Missing(p) : Fresh(p)[t] = Vm!Nth(at(t))
  BY DEF Fresh
<1> HIDE DEF at
<1>7. \A k \in 1..Cardinality(free) :
         Vm!Nth(k) \in free /\ Cardinality(UpTo(free, Vm!Nth(k))) = k
  BY NthFree
<1>8. Vm!Nth(1) \in free /\ Cardinality(UpTo(free, Vm!Nth(1))) = 1
  BY <1>3, <1>7
<1>9. \A t \in Missing(p) :
         Fresh(p)[t] \in free /\ Cardinality(UpTo(free, Fresh(p)[t])) = at(t)
  BY <1>4, <1>6, <1>7
<1>10. \A t \in Missing(p) : Fresh(p)[t] # Vm!Nth(1)
  BY <1>4, <1>8, <1>9
<1>11. \A t, u \in Missing(p) : t # u => Fresh(p)[t] # Fresh(p)[u]
  BY <1>5, <1>9
<1>12. QED
  BY <1>8, <1>9, <1>10, <1>11 DEF Taken

\* What MmMapPage does when it does not stop the machine.
LEMMA Mapping ==
    ASSUME Vm!VirtualMemoryAssumption, free \subseteq RamFrames, Vm!FramesPrivate, NEW p,
           Vm!MmMapPage(p), ~halted'
    PROVE  /\ free' \subseteq free
           /\ DOMAIN pt' = DOMAIN pt \cup {p}
           /\ DOMAIN table' = DOMAIN table \cup Vm!Walk(p)
           /\ \A q \in DOMAIN pt \ {p} : pt'[q] = pt[q]
           /\ \A t \in DOMAIN table : table'[t] = table[t]
           /\ pt'[p].frame \in free
           /\ \A t \in DOMAIN table' \ DOMAIN table : table'[t] \in free
           /\ \A f \in free :
                 f \in free' \/ f = pt'[p].frame \/ (\E t \in DOMAIN table' : f = table'[t])
           /\ Vm!FramesPrivate'
<1> DEFINE own == Vm!Nth(1)
<1>1. /\ Cardinality(free) > Cardinality(Missing(p))
      /\ table' = Vm!Extend(table, Fresh(p))
      /\ pt' = Vm!Extend(pt, [q \in {p} |-> Vm!Entry(own, TRUE)])
      /\ free' = Vm!TakenFrom({own} \cup {Fresh(p)[t] : t \in Missing(p)})
  BY SameCardinality DEF Vm!MmMapPage, Missing, Above, Fresh
<1>2. Taken(p)
  BY <1>1, FramesTaken
<1>3. free' = free \ ({own} \cup {Fresh(p)[t] : t \in Missing(p)})
  BY <1>1 DEF Vm!TakenFrom
<1>4. DOMAIN Fresh(p) = Missing(p) /\ Missing(p) \cap DOMAIN table = {}
  BY DEF Fresh, Missing
<1>5. /\ DOMAIN table' = DOMAIN table \cup Missing(p)
      /\ \A t \in Missing(p) : table'[t] = Fresh(p)[t]
      /\ \A t \in DOMAIN table : table'[t] = table[t]
  BY <1>1, <1>4 DEF Vm!Extend
<1>6. /\ DOMAIN pt' = DOMAIN pt \cup {p}
      /\ pt'[p].frame = own
      /\ \A q \in DOMAIN pt \ {p} : pt'[q] = pt[q]
  BY <1>1 DEF Vm!Extend, Vm!Entry
<1>7. DOMAIN table' = DOMAIN table \cup Vm!Walk(p)
  BY <1>5 DEF Missing
<1> HIDE DEF own
<1>8. own \in free
  BY <1>2 DEF Taken, own
<1>9. \A t \in Missing(p) : Fresh(p)[t] \in free /\ Fresh(p)[t] # own
  BY <1>2 DEF Taken, own
<1>10. \A t, u \in Missing(p) : t # u => Fresh(p)[t] # Fresh(p)[u]
  BY <1>2 DEF Taken
<1>11. \A q \in DOMAIN pt : pt[q].frame \notin free
  BY DEF Vm!FramesPrivate, Vm!Mapped
<1>12. \A t \in DOMAIN table : table[t] \notin free
  BY DEF Vm!FramesPrivate, Vm!Tables
<1>13. \A q \in DOMAIN pt, t \in DOMAIN table : pt[q].frame # table[t]
  BY DEF Vm!FramesPrivate, Vm!Mapped, Vm!Tables
<1>14. \A q \in DOMAIN pt' : pt'[q].frame \notin free'
  BY <1>3, <1>6, <1>8, <1>11
<1>15. \A t \in DOMAIN table' : table'[t] \notin free'
  BY <1>3, <1>5, <1>9, <1>12
<1>16. \A q \in DOMAIN pt', t \in DOMAIN table' : pt'[q].frame # table'[t]
  <2> SUFFICES ASSUME NEW q \in DOMAIN pt', NEW t \in DOMAIN table' PROVE pt'[q].frame # table'[t]
    OBVIOUS
  <2>1. CASE q = p
    BY <2>1, <1>5, <1>6, <1>8, <1>9, <1>12
  <2>2. CASE q # p
    BY <2>2, <1>5, <1>6, <1>9, <1>11, <1>13
  <2>3. QED
    BY <2>1, <2>2
<1>17. \A q, r \in DOMAIN pt' : q # r => pt'[q].frame # pt'[r].frame
  <2>1. \A q, r \in DOMAIN pt : q # r => pt[q].frame # pt[r].frame
    BY DEF Vm!FramesPrivate
  <2>2. QED
    BY <2>1, <1>6, <1>8, <1>11
<1>18. \A t, u \in DOMAIN table' : t # u => table'[t] # table'[u]
  <2>1. \A t, u \in DOMAIN table : t # u => table[t] # table[u]
    BY DEF Vm!FramesPrivate
  <2>2. QED
    BY <2>1, <1>5, <1>9, <1>10, <1>12
<1>19. (free' \cap (Vm!Mapped' \cup Vm!Tables') = {}) /\ (Vm!Mapped' \cap Vm!Tables' = {})
  BY <1>14, <1>15, <1>16 DEF Vm!Mapped, Vm!Tables
<1>20. Vm!FramesPrivate'
  BY <1>17, <1>18, <1>19 DEF Vm!FramesPrivate
<1>21. \A t \in DOMAIN table' \ DOMAIN table : table'[t] \in free
  BY <1>5, <1>9
<1>22. \A f \in free : f \in free' \/ f = pt'[p].frame \/ (\E t \in DOMAIN table' : f = table'[t])
  <2> SUFFICES ASSUME NEW f \in free, f \notin free', f # own
               PROVE  \E t \in DOMAIN table' : f = table'[t]
    BY <1>6
  <2>1. PICK t \in Missing(p) : f = Fresh(p)[t]
    BY <1>3
  <2>2. QED
    BY <2>1, <1>5
<1>23. QED
  BY <1>3, <1>5, <1>6, <1>7, <1>8, <1>20, <1>21, <1>22

LEMMA VmInit ==
    ASSUME Vm!VirtualMemoryAssumption PROVE Vm!Init => VmInv
<1> SUFFICES ASSUME Vm!Init PROVE VmInv
  OBVIOUS
<1>1. DOMAIN pt = {} /\ DOMAIN table = {} /\ free = RamFrames /\ bump = Base /\ call = Vm!Idle
  BY DEF Vm!Init
<1>2. Base \in [Areas -> Nat]
  BY DEF Vm!VirtualMemoryAssumption
<1>3. VmTypes
  BY <1>1, <1>2 DEF VmTypes
<1>4. Vm!FramesPrivate
  BY <1>1 DEF Vm!FramesPrivate, Vm!Mapped, Vm!Tables
<1>5. Vm!CommittedMapped
  <2>1. \A a \in Areas : Vm!Committed(a) = {}
    BY <1>1, <1>2 DEF Vm!Committed
  <2>2. QED
    BY <2>1 DEF Vm!CommittedMapped
<1>6. QED
  BY <1>1, <1>3, <1>4, <1>5 DEF VmInv, CountedMapped

LEMMA EnterStep ==
    ASSUME VmInv, NEW a \in Areas, NEW n \in 1..MaxPages, Vm!Enter(a, n),
           Vm!VirtualMemoryAssumption
    PROVE  VmInv'
<1>1. /\ call' = [area |-> a, done |-> 0, pages |-> n]
      /\ UNCHANGED <<free, table, pt, bump, halted>>
  BY DEF Vm!Enter
<1>2. n \in Nat
  BY DEF Vm!VirtualMemoryAssumption
<1>3. VmTypes'
  BY <1>1, <1>2 DEF VmInv, VmTypes
<1>4. Vm!FramesPrivate' /\ Vm!CommittedMapped'
  BY <1>1 DEF VmInv, Vm!FramesPrivate, Vm!Mapped, Vm!Tables, Vm!CommittedMapped, Vm!Committed
<1>5. CountedMapped'
  BY <1>1 DEF CountedMapped
<1>6. QED
  BY <1>3, <1>4, <1>5 DEF VmInv

\* A service that still has pages to map is under way.
LEMMA UnderWay ==
    ASSUME VmInv, call.done < call.pages
    PROVE  /\ call # Vm!Idle /\ call \in [area : Areas, done : Nat, pages : Nat]
           /\ bump[call.area] \in Nat /\ Vm!PageAtHand \in Nat
<1>1. call # Vm!Idle
  BY DEF Vm!Idle
<1>2. call \in [area : Areas, done : Nat, pages : Nat] /\ bump \in [Areas -> Nat]
  BY <1>1 DEF VmInv, VmTypes
<1>3. QED
  BY <1>1, <1>2 DEF Vm!PageAtHand

LEMMA MapOneStep ==
    ASSUME Vm!VirtualMemoryAssumption, VmInv, Vm!MapOne PROVE VmInv'
<1>0. PICK p : p = Vm!PageAtHand
  OBVIOUS
<1>1. ~halted /\ call.done < call.pages /\ Vm!MmMapPage(p)
      /\ call' = [call EXCEPT !.done = @ + 1] /\ bump' = bump
  BY <1>0 DEF Vm!MapOne
<1>2. /\ call # Vm!Idle /\ call \in [area : Areas, done : Nat, pages : Nat]
      /\ bump[call.area] \in Nat
  BY <1>1, UnderWay
<1>3. call' \in [area : Areas, done : Nat, pages : Nat]
      /\ call'.area = call.area /\ call'.done = call.done + 1
  BY <1>1, <1>2
<1>4. p = bump[call.area] + call.done
  BY <1>0 DEF Vm!PageAtHand
<1>5. CASE halted'
  <2>1. UNCHANGED <<free, table, pt>>
    BY <1>1, <1>5 DEF Vm!MmMapPage
  <2>2. VmTypes'
    BY <2>1, <1>1, <1>3 DEF VmInv, VmTypes
  <2>3. Vm!FramesPrivate' /\ Vm!CommittedMapped'
    BY <2>1, <1>1 DEF VmInv, Vm!FramesPrivate, Vm!Mapped, Vm!Tables, Vm!CommittedMapped, Vm!Committed
  <2>4. QED
    BY <1>5, <2>2, <2>3 DEF VmInv, CountedMapped
<1>6. CASE ~halted'
  <2>1. free \subseteq RamFrames /\ Vm!FramesPrivate
    BY DEF VmInv, VmTypes
  <2>2. /\ free' \subseteq free
        /\ DOMAIN pt' = DOMAIN pt \cup {p}
        /\ DOMAIN table' = DOMAIN table \cup Vm!Walk(p)
        /\ \A q \in DOMAIN pt \ {p} : pt'[q] = pt[q]
        /\ \A t \in DOMAIN table : table'[t] = table[t]
        /\ pt'[p].frame \in free
        /\ \A t \in DOMAIN table' \ DOMAIN table : table'[t] \in free
        /\ Vm!FramesPrivate'
    BY <1>1, <1>6, <2>1, Mapping
  <2>3. VmTypes'
    <3>1. free' \subseteq RamFrames
      BY <2>1, <2>2
    <3>2. \A q \in DOMAIN pt' : pt'[q].frame \in RamFrames
      BY <2>1, <2>2 DEF VmInv, VmTypes
    <3>3. \A t \in DOMAIN table' : table'[t] \in RamFrames
      BY <2>1, <2>2 DEF VmInv, VmTypes
    <3>4. QED
      BY <1>1, <1>3, <3>1, <3>2, <3>3 DEF VmInv, VmTypes
  <2>4. Present(p)' /\ (\A q : Present(q) => Present(q)')
    BY <2>2 DEF Present, Vm!Walk
  <2>5. Vm!CommittedMapped'
    <3>1. \A a \in Areas : \A q \in Vm!Committed(a)' : q \in Vm!Committed(a)
      BY <1>1 DEF Vm!Committed
    <3>2. \A a \in Areas : \A q \in Vm!Committed(a) : Present(q)
      BY DEF VmInv, Vm!CommittedMapped, Present
    <3>3. \A a \in Areas : \A q \in Vm!Committed(a)' : Present(q)'
      BY <3>1, <3>2, <2>4
    <3>4. QED
      BY <3>3 DEF Vm!CommittedMapped, Present
  <2>6. CountedMapped'
    <3> SUFFICES ASSUME NEW k \in 0..(call'.done - 1) PROVE Present(bump[call.area] + k)'
      BY <1>1, <1>3 DEF CountedMapped
    <3>1. k \in 0..(call.done - 1) \/ k = call.done
      BY <1>2, <1>3
    <3>2. CASE k = call.done
      BY <3>2, <1>1, <1>4, <2>4 DEF Present
    <3>3. CASE k \in 0..(call.done - 1)
      <4>1. Present(bump[call.area] + k)
        BY <3>3, <1>1, <1>2 DEF VmInv, CountedMapped
      <4>2. QED
        BY <4>1, <2>4, <1>1
    <3>4. QED
      BY <3>1, <3>2, <3>3
  <2>7. QED
    BY <2>2, <2>3, <2>5, <2>6 DEF VmInv
<1>7. QED
  BY <1>5, <1>6

LEMMA OutOfFramesStep ==
    ASSUME VmInv, Vm!OutOfFrames PROVE VmInv'
<1>1. call' = Vm!Idle /\ UNCHANGED <<free, table, pt, bump, halted>>
  BY DEF Vm!OutOfFrames
<1>2. VmTypes'
  BY <1>1 DEF VmInv, VmTypes
<1>3. Vm!FramesPrivate' /\ Vm!CommittedMapped'
  BY <1>1 DEF VmInv, Vm!FramesPrivate, Vm!Mapped, Vm!Tables, Vm!CommittedMapped, Vm!Committed
<1>4. QED
  BY <1>1, <1>2, <1>3 DEF VmInv, CountedMapped, Vm!Idle

LEMMA CommitStep ==
    ASSUME Vm!VirtualMemoryAssumption, VmInv, Vm!Commit PROVE VmInv'
<1> DEFINE A == call.area
<1>1. /\ ~halted /\ call # Vm!Idle /\ call.done = call.pages /\ call' = Vm!Idle
      /\ bump' = [bump EXCEPT ![A] = @ + call.pages]
      /\ UNCHANGED <<free, table, pt, halted>>
  BY DEF Vm!Commit
<1>2. call \in [area : Areas, done : Nat, pages : Nat] /\ bump \in [Areas -> Nat]
      /\ (\A a \in Areas : Base[a] <= bump[a]) /\ Base \in [Areas -> Nat]
  BY <1>1 DEF VmInv, VmTypes, Vm!VirtualMemoryAssumption
<1>3. A \in Areas /\ bump[A] \in Nat /\ Base[A] \in Nat /\ call.pages \in Nat
  BY <1>2
<1>4. bump' \in [Areas -> Nat] /\ bump'[A] = bump[A] + call.pages
      /\ (\A a \in Areas \ {A} : bump'[a] = bump[a])
  BY <1>1, <1>2, <1>3
<1> HIDE DEF A
<1>5. \A a \in Areas : Base[a] <= bump'[a]
  <2> SUFFICES ASSUME NEW a \in Areas PROVE Base[a] <= bump'[a]
    OBVIOUS
  <2>1. Base[a] \in Nat /\ bump[a] \in Nat /\ Base[a] <= bump[a]
    BY <1>2
  <2>2. QED
    BY <2>1, <1>3, <1>4
<1>6. VmTypes'
  BY <1>1, <1>4, <1>5 DEF VmInv, VmTypes
<1>7. Vm!FramesPrivate'
  BY <1>1 DEF VmInv, Vm!FramesPrivate, Vm!Mapped, Vm!Tables
<1>8. \A a \in Areas : \A q \in Vm!Committed(a) : Present(q)
  BY DEF VmInv, Vm!CommittedMapped, Present
<1>9. \A k \in 0..(call.pages - 1) : Present(bump[A] + k)
  BY <1>1 DEF VmInv, CountedMapped, A
<1>10. Vm!CommittedMapped'
  <2> SUFFICES ASSUME NEW a \in Areas, NEW q \in Base[a]..(bump'[a] - 1) PROVE Present(q)
    BY <1>1 DEF Vm!CommittedMapped, Vm!Committed, Present, Vm!Walk
  <2>1. CASE a # A
    BY <2>1, <1>4, <1>8 DEF Vm!Committed
  <2>2. CASE a = A /\ q < bump[A]
    <3>1. q \in Base[a]..(bump[a] - 1)
      BY <2>2, <1>3
    <3>2. QED
      BY <3>1, <1>8 DEF Vm!Committed
  <2>3. CASE a = A /\ q >= bump[A]
    <3>1. q \in Int /\ q <= (bump[A] + call.pages) - 1
      BY <2>3, <1>3, <1>4
    <3>2. (q - bump[A]) \in 0..(call.pages - 1) /\ bump[A] + (q - bump[A]) = q
      BY <2>3, <3>1, <1>3
    <3>3. QED
      BY <3>2, <1>9
  <2>4. QED
    BY <2>1, <2>2, <2>3, <1>3
<1>11. QED
  BY <1>1, <1>6, <1>7, <1>10 DEF VmInv, CountedMapped

LEMMA ProtectStep ==
    ASSUME VmInv, NEW p, NEW n, NEW w, Vm!MmProtectRange(p, n, w)
    PROVE  VmInv' /\ DOMAIN pt' = DOMAIN pt /\ (\A q \in DOMAIN pt : pt'[q].frame = pt[q].frame)
<1>1. UNCHANGED <<free, table, bump, call, halted>> /\ DOMAIN pt' = DOMAIN pt
  BY DEF Vm!MmProtectRange
<1>2. \A q \in DOMAIN pt : pt'[q].frame = pt[q].frame
  BY DEF Vm!MmProtectRange, Vm!Entry
<1>3. VmTypes'
  BY <1>1, <1>2 DEF VmInv, VmTypes
<1>4. Vm!Mapped' = Vm!Mapped
  BY <1>1, <1>2 DEF Vm!Mapped
<1>5. Vm!FramesPrivate'
  BY <1>1, <1>2, <1>4 DEF VmInv, Vm!FramesPrivate, Vm!Tables
<1>6. Vm!CommittedMapped'
  BY <1>1 DEF VmInv, Vm!CommittedMapped, Vm!Committed
<1>7. CountedMapped'
  BY <1>1 DEF VmInv, CountedMapped, Present
<1>8. QED
  BY <1>1, <1>2, <1>3, <1>5, <1>6, <1>7 DEF VmInv

\* The rest of what the variables range over.
VmMore ==
    /\ \A q \in DOMAIN pt : pt[q].write \in BOOLEAN
    /\ call = Vm!Idle \/ call \in [area : Areas, done : 0..MaxPages, pages : 1..MaxPages]
    /\ halted \in BOOLEAN

LEMMA MoreNext ==
    ASSUME Vm!VirtualMemoryAssumption, VmInv, VmMore, [Vm!Next]_(Vm!vars)
    PROVE  VmMore'
<1>1. CASE UNCHANGED Vm!vars
  BY <1>1 DEF VmMore, Vm!vars
<1>2. ASSUME NEW a \in Areas, NEW n \in 1..MaxPages, Vm!Enter(a, n) PROVE VmMore'
  <2>1. 0 \in 0..MaxPages
    BY DEF Vm!VirtualMemoryAssumption
  <2>2. QED
    BY <1>2, <2>1 DEF VmMore, Vm!Enter
<1>3. CASE Vm!MapOne
  <2>0. PICK p : p = Vm!PageAtHand
    OBVIOUS
  <2>1. ~halted /\ call.done < call.pages /\ Vm!MmMapPage(p)
        /\ call' = [call EXCEPT !.done = @ + 1]
    BY <1>3, <2>0 DEF Vm!MapOne
  <2>2. call \in [area : Areas, done : 0..MaxPages, pages : 1..MaxPages]
    BY <2>1, UnderWay DEF VmMore
  <2>3. call.done + 1 \in 0..MaxPages
    BY <2>1, <2>2 DEF Vm!VirtualMemoryAssumption
  <2>4. call' \in [area : Areas, done : 0..MaxPages, pages : 1..MaxPages]
    BY <2>1, <2>2, <2>3
  <2>5. halted' \in BOOLEAN
    BY <2>1 DEF VmMore, Vm!MmMapPage
  <2>6. \A q \in DOMAIN pt' : pt'[q].write \in BOOLEAN
    <3>1. CASE pt' = pt
      BY <3>1 DEF VmMore
    <3>2. CASE pt' = Vm!Extend(pt, [q \in {p} |-> Vm!Entry(Vm!Nth(1), TRUE)])
      BY <3>2 DEF VmMore, Vm!Extend, Vm!Entry
    <3>3. QED
      BY <2>1, <3>1, <3>2 DEF Vm!MmMapPage
  <2>7. QED
    BY <2>4, <2>5, <2>6 DEF VmMore
<1>4. CASE Vm!OutOfFrames \/ Vm!Commit
  BY <1>4 DEF VmMore, Vm!OutOfFrames, Vm!Commit
<1>5. ASSUME NEW p, NEW n, NEW w \in BOOLEAN, Vm!MmProtectRange(p, n, w) PROVE VmMore'
  <2>1. UNCHANGED <<call, halted>> /\ DOMAIN pt' = DOMAIN pt
    BY <1>5 DEF Vm!MmProtectRange
  <2>2. \A q \in DOMAIN pt : pt'[q] = pt[q] \/ pt'[q] = Vm!Entry(pt[q].frame, w)
    BY <1>5 DEF Vm!MmProtectRange
  <2>3. ASSUME NEW q \in DOMAIN pt PROVE pt'[q].write \in BOOLEAN
    <3>1. pt[q].write \in BOOLEAN
      BY DEF VmMore
    <3>2. Vm!Entry(pt[q].frame, w).write = w
      BY DEF Vm!Entry
    <3>3. QED
      BY <2>2, <3>1, <3>2, Zenon
  <2>4. QED
    BY <2>1, <2>3 DEF VmMore
<1>6. QED
  BY <1>1, <1>2, <1>3, <1>4, <1>5 DEF Vm!Next

LEMMA VmNext ==
    ASSUME Vm!VirtualMemoryAssumption PROVE VmInv /\ [Vm!Next]_(Vm!vars) => VmInv'
<1> SUFFICES ASSUME VmInv, [Vm!Next]_(Vm!vars) PROVE VmInv'
  OBVIOUS
<1>1. CASE UNCHANGED Vm!vars
  <2>1. UNCHANGED <<free, table, pt, bump, call, halted>>
    BY <1>1 DEF Vm!vars
  <2>2. VmTypes' /\ CountedMapped'
    BY <2>1 DEF VmInv, VmTypes, CountedMapped, Present
  <2>3. Vm!FramesPrivate' /\ Vm!CommittedMapped'
    BY <2>1 DEF VmInv, Vm!FramesPrivate, Vm!Mapped, Vm!Tables, Vm!CommittedMapped, Vm!Committed
  <2>4. QED
    BY <2>2, <2>3 DEF VmInv
<1>2. QED
  BY <1>1, EnterStep, MapOneStep, OutOfFramesStep, CommitStep, ProtectStep DEF Vm!Next

\* A frame is free, a page table or the contents of one virtual page, and never two of
\* these, whatever pool_grow, NtAllocateVirtualMemory and map_user_pages map, also when
\* they give up half way and when MmMapPage has to allocate all three tables.
THEOREM FramesArePrivate ==
    ASSUME Vm!VirtualMemoryAssumption
    PROVE  Vm!Spec => []Vm!FramesPrivate
<1>1. VmInv => Vm!FramesPrivate
  BY DEF VmInv
<1>2. QED
  BY <1>1, VmInit, VmNext, PTL DEF Vm!Spec

\* What a service reported as allocated is mapped through tables that are all present.
THEOREM CommittedIsMapped ==
    ASSUME Vm!VirtualMemoryAssumption
    PROVE  Vm!Spec => []Vm!CommittedMapped
<1>1. VmInv => Vm!CommittedMapped
  BY DEF VmInv
<1>2. QED
  BY <1>1, VmInit, VmNext, PTL DEF Vm!Spec

\* The pages of an area, with those of the request that a service has at hand, and the
\* ones of them that are mapped already.
Extent(a) == Base[a]..((bump[a] + IF call.area = a THEN call.pages ELSE 0) - 1)
Held(a) == Base[a]..((bump[a] + IF call.area = a THEN call.done ELSE 0) - 1)

\* No area has grown into the next one.  Nothing in the code sees to it: the bump
\* pointers are not compared with anything.
AreasStayApart == \A a, b \in Areas : a # b => Extent(a) \cap Extent(b) = {}

\* What is needed for frames that are lost: while there are free ones, each page mapped
\* is below a bump pointer or one of the request at hand.
AllHeld == ~halted /\ free # {} => \A q \in DOMAIN pt : \E a \in Areas : q \in Held(a)

KeptInv == VmInv /\ AllHeld /\ Vm!NoFrameLost

LEMMA KeptInit ==
    ASSUME Vm!VirtualMemoryAssumption PROVE Vm!Init => KeptInv
<1> SUFFICES ASSUME Vm!Init PROVE KeptInv
  OBVIOUS
<1>1. DOMAIN pt = {} /\ DOMAIN table = {} /\ free = RamFrames
  BY DEF Vm!Init
<1>2. Vm!NoFrameLost
  BY <1>1 DEF Vm!NoFrameLost, Vm!Mapped, Vm!Tables
<1>3. QED
  BY <1>1, <1>2, VmInit DEF KeptInv, AllHeld

\* The page that MapOne maps was not mapped, and so MmMapPage replaces no entry.
LEMMA PageIsNew ==
    ASSUME Vm!VirtualMemoryAssumption, KeptInv, AreasStayApart, Vm!MapOne
    PROVE  Vm!PageAtHand \notin DOMAIN pt
<1> DEFINE A == call.area
<1>1. ~halted /\ call.done < call.pages /\ free # {}
  BY DEF Vm!MapOne
<1>2. call \in [area : Areas, done : Nat, pages : Nat]
  BY <1>1, UnderWay DEF KeptInv
<1>3. bump \in [Areas -> Nat] /\ Base \in [Areas -> Nat] /\ (\A a \in Areas : Base[a] <= bump[a])
  BY DEF KeptInv, VmInv, VmTypes, Vm!VirtualMemoryAssumption
<1>4. A \in Areas /\ bump[A] \in Nat /\ Base[A] \in Nat /\ Base[A] <= bump[A]
      /\ call.done \in Nat /\ call.pages \in Nat
  BY <1>2, <1>3
<1>5. Vm!PageAtHand = bump[A] + call.done
  BY DEF Vm!PageAtHand
<1>6. Vm!PageAtHand \in Extent(A)
  BY <1>1, <1>4, <1>5 DEF Extent
<1>7. Vm!PageAtHand \notin Held(A)
  BY <1>4, <1>5 DEF Held
<1>8. \A b \in Areas : b # A => Held(b) = Extent(b)
  BY DEF Held, Extent
<1> HIDE DEF A
<1>9. \A b \in Areas : Vm!PageAtHand \notin Held(b)
  BY <1>4, <1>6, <1>7, <1>8 DEF AreasStayApart
<1>10. QED
  BY <1>1, <1>9 DEF KeptInv, AllHeld

LEMMA KeptMapOne ==
    ASSUME Vm!VirtualMemoryAssumption, KeptInv, AreasStayApart, Vm!MapOne
    PROVE  KeptInv' /\ (\A q \in DOMAIN pt : q \in DOMAIN pt' /\ pt'[q] = pt[q])
<1>0. PICK p : p = Vm!PageAtHand
  OBVIOUS
<1>1. ~halted /\ call.done < call.pages /\ free # {} /\ Vm!MmMapPage(p)
      /\ call' = [call EXCEPT !.done = @ + 1] /\ bump' = bump
  BY <1>0 DEF Vm!MapOne
<1>2. VmInv /\ VmInv'
  BY MapOneStep DEF KeptInv
<1>3. CASE halted'
  <2>1. pt' = pt
    BY <1>1, <1>3 DEF Vm!MmMapPage
  <2>2. QED
    BY <1>2, <1>3, <2>1 DEF KeptInv, AllHeld, Vm!NoFrameLost
<1>4. CASE ~halted'
  <2>1. p \notin DOMAIN pt
    BY <1>0, PageIsNew
  <2>2. free \subseteq RamFrames /\ Vm!FramesPrivate
    BY <1>2 DEF VmInv, VmTypes
  <2>3. /\ DOMAIN pt' = DOMAIN pt \cup {p}
        /\ \A q \in DOMAIN pt \ {p} : pt'[q] = pt[q]
        /\ DOMAIN table' = DOMAIN table \cup Vm!Walk(p)
        /\ \A t \in DOMAIN table : table'[t] = table[t]
        /\ \A f \in free :
              f \in free' \/ f = pt'[p].frame \/ (\E t \in DOMAIN table' : f = table'[t])
    BY <1>1, <1>4, <2>2, Mapping
  <2>4. \A q \in DOMAIN pt : q \in DOMAIN pt' /\ pt'[q] = pt[q]
    BY <2>1, <2>3
  <2>5. Vm!NoFrameLost'
    <3> SUFFICES RamFrames = free' \cup Vm!Mapped' \cup Vm!Tables'
      BY DEF Vm!NoFrameLost
    <3>1. free' \cup Vm!Mapped' \cup Vm!Tables' \subseteq RamFrames
      BY <1>2 DEF VmInv, VmTypes, Vm!Mapped, Vm!Tables
    <3>2. ASSUME NEW f \in RamFrames PROVE f \in free' \cup Vm!Mapped' \cup Vm!Tables'
      <4>1. f \in free \/ f \in Vm!Mapped \/ f \in Vm!Tables
        BY <1>1 DEF KeptInv, Vm!NoFrameLost
      <4>2. CASE f \in free
        BY <4>2, <2>3 DEF Vm!Mapped, Vm!Tables
      <4>3. CASE f \in Vm!Mapped
        <5>1. PICK q \in DOMAIN pt : f = pt[q].frame
          BY <4>3 DEF Vm!Mapped
        <5>2. QED
          BY <5>1, <2>4 DEF Vm!Mapped
      <4>4. CASE f \in Vm!Tables
        <5>1. PICK t \in DOMAIN table : f = table[t]
          BY <4>4 DEF Vm!Tables
        <5>2. QED
          BY <5>1, <2>3 DEF Vm!Tables
      <4>5. QED
        BY <4>1, <4>2, <4>3, <4>4
    <3>3. QED
      BY <3>1, <3>2
  <2>6. AllHeld'
    <3>1. call \in [area : Areas, done : Nat, pages : Nat] /\ bump[call.area] \in Nat
      BY <1>1, <1>2, UnderWay
    <3>2. call'.area = call.area /\ call'.done = call.done + 1
      BY <1>1, <3>1
    <3>3. bump \in [Areas -> Nat] /\ Base \in [Areas -> Nat] /\ (\A a \in Areas : Base[a] <= bump[a])
      BY <1>2 DEF VmInv, VmTypes, Vm!VirtualMemoryAssumption
    <3>4. \A a \in Areas : Held(a)' = Base[a]..((bump[a] + IF call.area = a THEN call.done + 1 ELSE 0) - 1)
      BY <1>1, <3>2 DEF Held
    <3>5. call.area \in Areas /\ call.done \in Nat
      BY <3>1
    <3>6. p \in Held(call.area)'
      <4>1. p = bump[call.area] + call.done
        BY <1>0 DEF Vm!PageAtHand
      <4>2. Base[call.area] \in Nat /\ Base[call.area] <= bump[call.area]
        BY <3>3, <3>5
      <4>3. p \in Base[call.area]..((bump[call.area] + (call.done + 1)) - 1)
        BY <3>1, <3>5, <4>1, <4>2
      <4>4. QED
        BY <4>3, <3>2, <1>1 DEF Held
    <3>7. \A a \in Areas : Held(a) \subseteq Held(a)'
      <4> SUFFICES ASSUME NEW a \in Areas, NEW q \in Held(a) PROVE q \in Held(a)'
        OBVIOUS
      <4>1. bump[a] \in Nat /\ Base[a] \in Nat
        BY <3>3
      <4>2. q \in Base[a]..((bump[a] + IF call.area = a THEN call.done ELSE 0) - 1)
        BY DEF Held
      <4>3. q \in Base[a]..((bump[a] + IF call.area = a THEN call.done + 1 ELSE 0) - 1)
        BY <3>5, <4>1, <4>2
      <4>4. QED
        BY <3>4, <4>3
    <3>8. \A q \in DOMAIN pt : \E a \in Areas : q \in Held(a)
      BY <1>1 DEF KeptInv, AllHeld
    <3>9. \E a \in Areas : p \in Held(a)'
      <4>1. PICK a \in Areas : a = call.area
        BY <3>5
      <4>2. p \in Held(a)'
        BY <4>1, <3>2, <3>6 DEF Held
      <4>3. QED
        BY <4>2
    <3>10. \A q \in DOMAIN pt' : \E a \in Areas : q \in Held(a)'
      BY <2>3, <3>7, <3>8, <3>9
    <3>11. QED
      BY <3>10 DEF AllHeld
  <2>7. QED
    BY <1>2, <2>4, <2>5, <2>6 DEF KeptInv
<1>5. QED
  BY <1>3, <1>4

\* The other steps leave the frames as they are.
LEMMA KeptElse ==
    ASSUME Vm!VirtualMemoryAssumption, KeptInv, VmInv',
           UNCHANGED <<free, table, halted>>,
           DOMAIN pt' = DOMAIN pt, \A q \in DOMAIN pt : pt'[q].frame = pt[q].frame,
           free = {} \/ (\A a \in Areas : Held(a)' = Held(a))
    PROVE  KeptInv'
<1>1. Vm!Mapped' = Vm!Mapped /\ Vm!Tables' = Vm!Tables
  BY DEF Vm!Mapped, Vm!Tables
<1>2. Vm!NoFrameLost'
  BY <1>1 DEF KeptInv, Vm!NoFrameLost
<1>3. AllHeld'
  BY DEF KeptInv, AllHeld
<1>4. QED
  BY <1>2, <1>3 DEF KeptInv

LEMMA KeptNext ==
    ASSUME Vm!VirtualMemoryAssumption, KeptInv, AreasStayApart, [Vm!Next]_(Vm!vars)
    PROVE  KeptInv' /\ (\A q \in DOMAIN pt : pt'[q].frame = pt[q].frame)
<1>0. VmInv /\ VmInv' /\ bump \in [Areas -> Nat] /\ Base \in [Areas -> Nat]
  BY VmNext DEF KeptInv, VmInv, VmTypes, Vm!VirtualMemoryAssumption
<1>1. CASE UNCHANGED Vm!vars
  <2>1. UNCHANGED <<free, table, pt, bump, call, halted>>
    BY <1>1 DEF Vm!vars
  <2>2. \A a \in Areas : Held(a)' = Held(a)
    BY <2>1 DEF Held
  <2>3. QED
    BY <1>0, <2>1, <2>2, KeptElse
<1>2. ASSUME NEW a \in Areas, NEW n \in 1..MaxPages, Vm!Enter(a, n)
      PROVE  KeptInv' /\ pt' = pt
  <2>1. /\ call = Vm!Idle /\ call' = [area |-> a, done |-> 0, pages |-> n]
        /\ UNCHANGED <<free, table, pt, bump, halted>>
    BY <1>2 DEF Vm!Enter
  <2>2. call.done = 0 /\ call'.done = 0
    BY <2>1 DEF Vm!Idle
  <2>3. \A b \in Areas : Held(b)' = Held(b)
    BY <2>1, <2>2 DEF Held
  <2>4. QED
    BY <1>0, <2>1, <2>3, KeptElse
<1>3. CASE Vm!MapOne
  BY <1>3, KeptMapOne
<1>4. CASE Vm!OutOfFrames
  <2>1. free = {} /\ UNCHANGED <<free, table, pt, bump, halted>>
    BY <1>4 DEF Vm!OutOfFrames
  <2>2. QED
    BY <1>0, <2>1, KeptElse
<1>5. CASE Vm!Commit
  <2>1. /\ call # Vm!Idle /\ call.done = call.pages /\ call' = Vm!Idle
        /\ bump' = [bump EXCEPT ![call.area] = @ + call.pages]
        /\ UNCHANGED <<free, table, pt, halted>>
    BY <1>5 DEF Vm!Commit
  <2>2. call \in [area : Areas, done : Nat, pages : Nat] /\ call'.done = 0
    BY <1>0, <2>1 DEF VmInv, VmTypes, Vm!Idle
  <2>3. ASSUME NEW a \in Areas PROVE Held(a)' = Held(a)
    <3>1. bump[a] \in Nat /\ Base[a] \in Nat /\ call.pages \in Nat
      BY <1>0, <2>2
    <3>2. bump'[a] = bump[a] + IF call.area = a THEN call.done ELSE 0
      BY <1>0, <2>1, <3>1
    <3>3. bump'[a] \in Nat /\ Held(a)' = Base[a]..((bump'[a] + 0) - 1)
      BY <2>1, <2>2, <3>1, <3>2 DEF Held
    <3>4. QED
      BY <3>2, <3>3 DEF Held
  <2>4. QED
    BY <1>0, <2>1, <2>3, KeptElse
<1>6. ASSUME NEW p \in DOMAIN pt, NEW n \in 1..MaxPages, NEW w \in BOOLEAN,
             Vm!MmProtectRange(p, n, w)
      PROVE  KeptInv' /\ (\A q \in DOMAIN pt : pt'[q].frame = pt[q].frame)
  <2>1. DOMAIN pt' = DOMAIN pt /\ (\A q \in DOMAIN pt : pt'[q].frame = pt[q].frame)
    BY <1>0, <1>6, ProtectStep
  <2>2. UNCHANGED <<free, table, bump, call, halted>>
    BY <1>6 DEF Vm!MmProtectRange
  <2>3. \A a \in Areas : Held(a)' = Held(a)
    BY <2>2 DEF Held
  <2>4. QED
    BY <1>0, <2>1, <2>2, <2>3, KeptElse
<1>7. QED
  BY <1>1, <1>2, <1>3, <1>4, <1>5, <1>6 DEF Vm!Next

\* As long as no area has grown into the next, no frame is lost: what a failed
\* NtAllocateVirtualMemory, pool_grow or map_user_pages left behind is never mapped over.
THEOREM FramesAreKept ==
    ASSUME Vm!VirtualMemoryAssumption
    PROVE  Vm!Spec /\ []AreasStayApart => []Vm!NoFrameLost
<1>1. KeptInv /\ AreasStayApart /\ [Vm!Next]_(Vm!vars) => KeptInv'
  BY KeptNext
<1>2. KeptInv => Vm!NoFrameLost
  BY DEF KeptInv
<1>3. QED
  BY <1>1, <1>2, KeptInit, PTL DEF Vm!Spec

\* As long as no area has grown into the next, the frame under a page that was handed
\* out stays: neither MmMapPage nor MmProtectRange puts another one there.
THEOREM CommittedFramesStay ==
    ASSUME Vm!VirtualMemoryAssumption
    PROVE  Vm!Spec /\ []AreasStayApart => Vm!CommittedStays
<1> DEFINE Stays == \A a \in Areas : \A p \in Vm!Committed(a) :
                       p \in DOMAIN pt /\ pt'[p].frame = pt[p].frame
<1>1. KeptInv /\ AreasStayApart /\ [Vm!Next]_(Vm!vars) => KeptInv'
  BY KeptNext
<1>2. KeptInv /\ AreasStayApart /\ [Vm!Next]_(Vm!vars) => [Stays]_(Vm!vars)
  BY KeptNext DEF KeptInv, VmInv, Vm!CommittedMapped
<1> HIDE DEF Stays
<1>3. Vm!Spec /\ []AreasStayApart => [][Stays]_(Vm!vars)
  BY <1>1, <1>2, KeptInit, PTL DEF Vm!Spec
<1>4. QED
  BY <1>3 DEF Vm!CommittedStays, Stays

-----------------------------------------------------------------------------
(* The parts side by side *)

LEMMA PartsRun == Spec => Vm!Spec /\ Ex!Spec
<1>1. Init => Vm!Init /\ Ex!Init
  BY DEF Init
<1>2. [Next]_vars => [Vm!Next]_(Vm!vars) /\ [Ex!Next]_(Ex!vars)
  <2>1. UNCHANGED vars => UNCHANGED Vm!vars /\ UNCHANGED Ex!vars
    BY DEF vars, virt, pool, Vm!vars, Ex!vars
  <2>2. Next => (Vm!Next \/ UNCHANGED Vm!vars) /\ (Ex!Next \/ UNCHANGED Ex!vars)
    BY DEF Next, virt, pool, Vm!vars, Ex!vars
  <2>3. QED
    BY <2>1, <2>2
<1>3. QED
  BY <1>1, <1>2, PTL DEF Spec, Vm!Spec, Ex!Spec

\* For any frames, areas, tables and requests: a frame is free, a page table or the contents
\* of one page, and what NtAllocateVirtualMemory, pool_grow or map_user_pages reported as
\* allocated is mapped, also after services that gave up half way.
THEOREM FramesAreOwned == Spec => []FramesOwned
<1> USE PoolAndPagesAssumption
<1>1. VmInv /\ VmMore => Vm!TypeOK
  <2> SUFFICES ASSUME VmInv, VmMore PROVE Vm!TypeOK
    OBVIOUS
  <2>1. Vm!Mapped \cup Vm!Tables \subseteq RamFrames
    BY DEF VmInv, VmTypes, Vm!Mapped, Vm!Tables
  <2>2. QED
    BY <2>1 DEF VmInv, VmTypes, VmMore, Vm!TypeOK
<1>2. Vm!Init => VmMore
  <2> SUFFICES ASSUME Vm!Init PROVE VmMore
    OBVIOUS
  <2>1. pt = << >> /\ call = Vm!Idle /\ halted = FALSE
    BY DEF Vm!Init
  <2>2. DOMAIN pt = {}
    BY <2>1
  <2>3. QED
    BY <2>1, <2>2, Zenon DEF VmMore
<1>3. VmInv /\ VmMore /\ [Vm!Next]_(Vm!vars) => VmMore'
  BY MoreNext
<1>4. Vm!Spec => []Vm!TypeOK
  BY <1>1, <1>2, <1>3, VmInit, VmNext, PTL DEF Vm!Spec
<1>5. QED
  BY <1>4, FramesArePrivate, CommittedIsMapped, PartsRun, PTL DEF FramesOwned

\* For any sizes and any memory: the blocks of the pool tile its arena without two free
\* neighbours, and a pool that was grown satisfies the request (ExAllocatePoolWithTag,
\* ExFreePool, pool_grow).
THEOREM PoolIsSound == Spec => []PoolSound
<1> USE PoolAndPagesAssumption
<1>1. QED
  BY PoolIsTiled, PoolIsCoalesced, GrowingSuffices, PartsRun, PTL DEF PoolSound
=============================================================================
