------------------------- MODULE ObjectManagerProofs -------------------------
(***************************************************************************)
(* Proofs about ObjectManager, for any number of objects, threads and      *)
(* handles: the counts of every object are exact, so nothing is freed      *)
(* under somebody who holds it and nothing that nobody holds stays.        *)
(***************************************************************************)
EXTENDS ObjectManager, FiniteSetTheorems, TLAPS

-----------------------------------------------------------------------------
(* Counting those who hold an object *)

\* Who holds o: slots of the handle table, waits, threads that have yet to end.
SlotsOf(table, o) == {i \in Slots : table[i] = o}
WaitsOf(w, o) == UNION {{<<"wait", t, i>> : i \in {i \in DOMAIN w[t] : w[t][i] = o}} : t \in Threads}
ThreadsOf(term, o) == {t \in Threads : term[t] = o}
Positions(held, o) == {i \in DOMAIN held : held[i] = o}
One(b) == IF b THEN 1 ELSE 0

\* Their number: by kind, so that a step disturbs one summand.
Refs(table, w, term, o) ==
    Cardinality(SlotsOf(table, o)) + Cardinality(WaitsOf(w, o)) + Cardinality(ThreadsOf(term, o))
Count(table, w, term, parent, o) ==
    Refs(table, w, term, o) + One(parent[o] # None) + One(o \in {Root, Device})

\* The same number of elements, each once.
LEMMA SameNumber ==
    ASSUME NEW S, IsFiniteSet(S), NEW T, NEW f \in [S -> T],
           \A x, y \in S : f[x] = f[y] => x = y, \A z \in T : \E x \in S : f[x] = z
    PROVE  IsFiniteSet(T) /\ Cardinality(T) = Cardinality(S)
<1>1. f \in Bijection(S, T)
  BY DEF Bijection, Injection, Surjection, IsInjective
<1>2. ExistsBijection(S, T)
  BY <1>1 DEF ExistsBijection
<1>3. QED
  BY <1>2, FS_Bijection

LEMMA TaggedSlots ==
    ASSUME NEW S, IsFiniteSet(S)
    PROVE  LET T == {<<"handle", i>> : i \in S}
           IN  IsFiniteSet(T) /\ Cardinality(T) = Cardinality(S)
<1> DEFINE T == {<<"handle", i>> : i \in S}
           f == [i \in S |-> <<"handle", i>>]
<1>1. f \in [S -> T] /\ \A z \in T : \E x \in S : f[x] = z
  OBVIOUS
<1>2. \A x, y \in S : f[x] = f[y] => x = y
  OBVIOUS
<1> HIDE DEF f, T
<1>3. IsFiniteSet(T) /\ Cardinality(T) = Cardinality(S)
  BY <1>1, <1>2, SameNumber
<1>4. QED
  BY <1>3 DEF T

LEMMA TaggedThreads ==
    ASSUME NEW S, IsFiniteSet(S)
    PROVE  LET T == {<<"thread", i>> : i \in S}
           IN  IsFiniteSet(T) /\ Cardinality(T) = Cardinality(S)
<1> DEFINE T == {<<"thread", i>> : i \in S}
           f == [i \in S |-> <<"thread", i>>]
<1>1. f \in [S -> T] /\ \A z \in T : \E x \in S : f[x] = z
  OBVIOUS
<1>2. \A x, y \in S : f[x] = f[y] => x = y
  OBVIOUS
<1> HIDE DEF f, T
<1>3. IsFiniteSet(T) /\ Cardinality(T) = Cardinality(S)
  BY <1>1, <1>2, SameNumber
<1>4. QED
  BY <1>3 DEF T

LEMMA TaggedWaits ==
    ASSUME NEW t, NEW S, IsFiniteSet(S)
    PROVE  LET T == {<<"wait", t, i>> : i \in S}
           IN  IsFiniteSet(T) /\ Cardinality(T) = Cardinality(S)
<1> DEFINE T == {<<"wait", t, i>> : i \in S}
           f == [i \in S |-> <<"wait", t, i>>]
<1>1. f \in [S -> T] /\ \A z \in T : \E x \in S : f[x] = z
  OBVIOUS
<1>2. \A x, y \in S : f[x] = f[y] => x = y
  OBVIOUS
<1> HIDE DEF f, T
<1>3. IsFiniteSet(T) /\ Cardinality(T) = Cardinality(S)
  BY <1>1, <1>2, SameNumber
<1>4. QED
  BY <1>3 DEF T

\* Union of sets that have nothing in common.
LEMMA DisjointUnion ==
    ASSUME NEW S, NEW T, IsFiniteSet(S), IsFiniteSet(T), S \cap T = {}
    PROVE  IsFiniteSet(S \cup T) /\ Cardinality(S \cup T) = Cardinality(S) + Cardinality(T)
<1>1. Cardinality(S \cap T) = 0
  BY FS_EmptySet
<1>2. Cardinality(S) \in Nat /\ Cardinality(T) \in Nat
  BY FS_CardinalityType
<1>3. /\ IsFiniteSet(S \cup T)
      /\ Cardinality(S \cup T) = Cardinality(S) + Cardinality(T) - Cardinality(S \cap T)
  BY FS_Union
<1>4. QED
  BY <1>1, <1>2, <1>3

\* One entry of a table changes.
At(D, f, o) == {d \in D : f[d] = o}
SameBut(D, f, g, i) == \A d \in D \ {i} : g[d] = f[d]
Same(x, y) == IF x = y THEN 1 ELSE 0

LEMMA OneChange ==
    ASSUME NEW D, IsFiniteSet(D), NEW f, NEW g, NEW i \in D, NEW o, SameBut(D, f, g, i)
    PROVE  Cardinality(At(D, g, o)) + Same(f[i], o) = Cardinality(At(D, f, o)) + Same(g[i], o)
<1> USE DEF SameBut
<1> DEFINE F == {d \in D : f[d] = o}
           G == {d \in D : g[d] = o}
           R == F \ {i}
<1>1. IsFiniteSet(F) /\ IsFiniteSet(G) /\ IsFiniteSet(R)
  <2>1. F \in SUBSET D /\ G \in SUBSET D /\ R \in SUBSET D
    OBVIOUS
  <2>2. QED
    BY <2>1, FS_Subset
<1>2. i \notin R /\ (f[i] = o => F = R \cup {i}) /\ (f[i] # o => F = R)
  OBVIOUS
<1>3. (g[i] = o => G = R \cup {i}) /\ (g[i] # o => G = R)
  OBVIOUS
<1> HIDE DEF F, G, R
<1>4. Cardinality(R) \in Nat /\ Cardinality(R \cup {i}) = Cardinality(R) + 1
  BY <1>1, <1>2, FS_AddElement, FS_CardinalityType
<1>5. Cardinality(F) = Cardinality(R) + One(f[i] = o)
  <2>1. CASE f[i] = o
    BY <1>2, <1>4, <2>1 DEF One
  <2>2. CASE f[i] # o
    BY <1>2, <1>4, <2>2 DEF One
  <2>3. QED
    BY <2>1, <2>2
<1>6. Cardinality(G) = Cardinality(R) + One(g[i] = o)
  BY <1>3, <1>4 DEF One
<1>7. QED
  BY <1>4, <1>5, <1>6 DEF One, F, G, At, Same

\* The list held of a thread that held nothing adds its positions.
LEMMA WaitAdded ==
    ASSUME NEW w, NEW v, NEW t \in Threads, NEW o, w[t] = <<>>,
           SameBut(Threads, w, v, t), IsFiniteSet(Positions(v[t], o)), IsFiniteSet(WaitsOf(w, o))
    PROVE  /\ IsFiniteSet(WaitsOf(v, o))
           /\ Cardinality(WaitsOf(v, o)) = Cardinality(WaitsOf(w, o)) + Cardinality(Positions(v[t], o))
<1> USE DEF SameBut
<1> DEFINE A == {<<"wait", t, i>> : i \in Positions(v[t], o)}
<1>1. IsFiniteSet(A) /\ Cardinality(A) = Cardinality(Positions(v[t], o))
  BY TaggedWaits
<1>2. WaitsOf(v, o) = WaitsOf(w, o) \cup A
  <2>1. ASSUME NEW x \in WaitsOf(v, o) PROVE x \in WaitsOf(w, o) \cup A
    <3>1. PICK u \in Threads : x \in {<<"wait", u, i>> : i \in {i \in DOMAIN v[u] : v[u][i] = o}}
      BY <2>1 DEF WaitsOf
    <3>2. CASE u = t
      BY <3>1, <3>2 DEF Positions
    <3>3. CASE u # t
      <4>1. x \in {<<"wait", u, i>> : i \in {i \in DOMAIN w[u] : w[u][i] = o}}
        BY <3>1, <3>3
      <4>2. QED
        BY <4>1 DEF WaitsOf
    <3>4. QED
      BY <3>2, <3>3
  <2>2. ASSUME NEW x \in WaitsOf(w, o) PROVE x \in WaitsOf(v, o)
    <3>1. PICK u \in Threads : x \in {<<"wait", u, i>> : i \in {i \in DOMAIN w[u] : w[u][i] = o}}
      BY <2>2 DEF WaitsOf
    <3>2. u # t
      BY <3>1
    <3>3. x \in {<<"wait", u, i>> : i \in {i \in DOMAIN v[u] : v[u][i] = o}}
      BY <3>1, <3>2
    <3>4. QED
      BY <3>3 DEF WaitsOf
  <2>3. A \subseteq WaitsOf(v, o)
    BY DEF WaitsOf, Positions
  <2>4. QED
    BY <2>1, <2>2, <2>3
<1>3. WaitsOf(w, o) \cap A = {}
  <2>1. ASSUME NEW x \in WaitsOf(w, o), x \in A PROVE FALSE
    <3>1. PICK u \in Threads : x \in {<<"wait", u, i>> : i \in {i \in DOMAIN w[u] : w[u][i] = o}}
      BY <2>1 DEF WaitsOf
    <3>2. u = t
      BY <2>1, <3>1
    <3>3. QED
      BY <3>1, <3>2
  <2>2. QED
    BY <2>1
<1> HIDE DEF A
<1>4. QED
  BY <1>1, <1>2, <1>3, DisjointUnion

\* Somebody who waits for an object is counted.
LEMMA WaiterCounted ==
    ASSUME NEW w, NEW t \in Threads, NEW i \in DOMAIN w[t], IsFiniteSet(WaitsOf(w, w[t][i]))
    PROVE  Cardinality(WaitsOf(w, w[t][i])) >= 1
<1>1. <<"wait", t, i>> \in WaitsOf(w, w[t][i])
  BY DEF WaitsOf
<1>2. QED
  BY <1>1, FS_EmptySet, FS_CardinalityType

LEMMA FiniteSlots == IsFiniteSet(Slots) /\ \A table, o : /\ IsFiniteSet(SlotsOf(table, o))
                                                         /\ Cardinality(SlotsOf(table, o)) \in Nat
<1>1. IsFiniteSet(Slots)
  BY ObAssumption, FS_Interval DEF Slots
<1>2. ASSUME NEW table, NEW o
      PROVE IsFiniteSet(SlotsOf(table, o)) /\ Cardinality(SlotsOf(table, o)) \in Nat
  <2>1. SlotsOf(table, o) \in SUBSET Slots
    BY DEF SlotsOf
  <2>2. QED
    BY <1>1, <2>1, FS_Subset, FS_CardinalityType
<1>3. QED
  BY <1>1, <1>2

LEMMA FiniteThreads == \A term, o : /\ IsFiniteSet(ThreadsOf(term, o))
                                    /\ Cardinality(ThreadsOf(term, o)) \in Nat
<1>1. ASSUME NEW term, NEW o
      PROVE IsFiniteSet(ThreadsOf(term, o)) /\ Cardinality(ThreadsOf(term, o)) \in Nat
  <2>1. ThreadsOf(term, o) \in SUBSET Threads
    BY DEF ThreadsOf
  <2>2. QED
    BY ObAssumption, <2>1, FS_Subset, FS_CardinalityType
<1>2. QED
  BY <1>1

LEMMA SlotCounted ==
    ASSUME NEW table, NEW i \in Slots PROVE Cardinality(SlotsOf(table, table[i])) >= 1
<1>1. i \in SlotsOf(table, table[i])
  BY DEF SlotsOf
<1>2. QED
  BY <1>1, FiniteSlots, FS_EmptySet

LEMMA ThreadCounted ==
    ASSUME NEW term, NEW t \in Threads PROVE Cardinality(ThreadsOf(term, term[t])) >= 1
<1>1. t \in ThreadsOf(term, term[t])
  BY DEF ThreadsOf
<1>2. QED
  BY <1>1, FiniteThreads, FS_EmptySet

\* Count is the number of holders.
LEMMA HoldersCount ==
    ASSUME NEW o, IsFiniteSet(WaitsOf(wait, o))
    PROVE  Cardinality(Holders(o)) = Count(ob.table, wait, termination, ob.parent, o)
<1> DEFINE A == ByHandle(o)
           B == ByWait(o)
           D == ByThread(o)
           E == ByName(o)
           F == ByBoot(o)
<1>1. Holders(o) = (((A \cup B) \cup D) \cup E) \cup F /\ B = WaitsOf(wait, o)
  BY DEF Holders, ByWait, WaitsOf
<1>2. IsFiniteSet(A) /\ Cardinality(A) = Cardinality(SlotsOf(ob.table, o))
  BY FiniteSlots, TaggedSlots DEF ByHandle, SlotsOf
<1>3. IsFiniteSet(D) /\ Cardinality(D) = Cardinality(ThreadsOf(termination, o))
  BY FiniteThreads, TaggedThreads DEF ByThread, ThreadsOf
<1>4. IsFiniteSet(E) /\ Cardinality(E) = One(ob.parent[o] # None)
  BY FS_EmptySet, FS_Singleton DEF One, ByName
<1>5. IsFiniteSet(F) /\ Cardinality(F) = One(o \in {Root, Device})
  BY FS_EmptySet, FS_Singleton DEF One, ByBoot
<1>6. /\ \A x \in A : \E i : x = <<"handle", i>>
      /\ \A x \in B : \E t, i : x = <<"wait", t, i>>
      /\ \A x \in D : \E t : x = <<"thread", t>>
  BY DEF ByHandle, ByWait, ByThread
<1>7. A \cap B = {} /\ (A \cup B) \cap D = {}
  BY <1>6
<1>8. ((A \cup B) \cup D) \cap E = {} /\ (((A \cup B) \cup D) \cup E) \cap F = {}
  <2>1. /\ \A x \in A \cup B \cup D : x # <<"name">> /\ x # <<"boot">>
        /\ <<"name">> # <<"boot">>
    BY <1>6
  <2>2. E \subseteq {<<"name">>} /\ F \subseteq {<<"boot">>}
    BY DEF ByName, ByBoot
  <2> HIDE DEF A, B, D, E, F
  <2>3. QED
    BY <2>1, <2>2
<1> HIDE DEF A, B, D, E, F
<1>9. IsFiniteSet(A \cup B) /\ Cardinality(A \cup B) = Cardinality(A) + Cardinality(B)
  BY <1>1, <1>2, <1>7, DisjointUnion
<1>10. /\ IsFiniteSet((A \cup B) \cup D)
       /\ Cardinality((A \cup B) \cup D) = Cardinality(A \cup B) + Cardinality(D)
  BY <1>3, <1>7, <1>9, DisjointUnion
<1>11. /\ IsFiniteSet(((A \cup B) \cup D) \cup E)
       /\ Cardinality(((A \cup B) \cup D) \cup E) = Cardinality((A \cup B) \cup D) + Cardinality(E)
  BY <1>4, <1>8, <1>10, DisjointUnion
<1>12. Cardinality(Holders(o)) = Cardinality(((A \cup B) \cup D) \cup E) + Cardinality(F)
  BY <1>1, <1>5, <1>8, <1>11, DisjointUnion
<1>13. QED
  BY <1>1, <1>2, <1>3, <1>4, <1>5, <1>9, <1>10, <1>11, <1>12 DEF Count, Refs

-----------------------------------------------------------------------------
(* What the operators on objects change *)

ObRecords == [type : [Objects -> Types \cup {"Free"}],
              ptr : [Objects -> Nat], hnd : [Objects -> Nat],
              parent : [Objects -> Objects \cup {None}],
              table : [Slots -> Objects \cup {None}]]

LEMMA ReferenceEffect ==
    ASSUME NEW s \in ObRecords, NEW o \in Objects
    PROVE  LET r == ObReferenceObject(s, o)
           IN  /\ r \in ObRecords
               /\ r.ptr = [s.ptr EXCEPT ![o] = s.ptr[o] + 1]
               /\ r.type = s.type /\ r.hnd = s.hnd /\ r.parent = s.parent /\ r.table = s.table
  BY DEF ObReferenceObject, ObRecords

LEMMA CreateEffect ==
    ASSUME NEW s \in ObRecords, NEW o \in Objects, NEW type \in Types
    PROVE  LET r == ObCreateObject(s, o, type)
           IN  /\ r \in ObRecords
               /\ r.type = [s.type EXCEPT ![o] = type]
               /\ r.ptr = [s.ptr EXCEPT ![o] = 1]
               /\ r.hnd = [s.hnd EXCEPT ![o] = 0]
               /\ r.parent = [s.parent EXCEPT ![o] = None]
               /\ r.table = s.table
  BY DEF ObCreateObject, ObRecords

\* A nonempty set of slots has a first: the search of ObCreateHandle.
LEMMA FirstFree ==
    ASSUME NEW s, CanCreateHandle(s)
    PROVE  LET i == CHOOSE i \in FreeSlots(s) : \A j \in FreeSlots(s) : i <= j
           IN  i \in Slots /\ s.table[i] = None
<1>1. FreeSlots(s) \subseteq Nat /\ FreeSlots(s) # {}
  BY ObAssumption DEF FreeSlots, Slots, CanCreateHandle
<1>2. PICK i \in FreeSlots(s) : \A j \in FreeSlots(s) : <<j, i>> \notin OpToRel(<, Nat)
  BY <1>1, NatLessThanWellFounded, WFMin
<1>3. \A j \in FreeSlots(s) : ~(j < i)
  BY <1>1, <1>2 DEF OpToRel
<1>4. \A j \in FreeSlots(s) : i <= j
  BY <1>1, <1>3
<1>5. \E k \in FreeSlots(s) : \A j \in FreeSlots(s) : k <= j
  BY <1>2, <1>4
<1>6. (CHOOSE k \in FreeSlots(s) : \A j \in FreeSlots(s) : k <= j) \in FreeSlots(s)
  BY <1>5
<1>7. QED
  BY <1>6 DEF FreeSlots

LEMMA HandleEffect ==
    ASSUME NEW s \in ObRecords, NEW o \in Objects, CanCreateHandle(s)
    PROVE  \E i \in Slots : 
             LET r == ObCreateHandle(s, o)
             IN  /\ s.table[i] = None
                 /\ r \in ObRecords
                 /\ r.table = [s.table EXCEPT ![i] = o]
                 /\ r.ptr = [s.ptr EXCEPT ![o] = s.ptr[o] + 1]
                 /\ r.hnd = [s.hnd EXCEPT ![o] = s.hnd[o] + 1]
                 /\ r.type = s.type /\ r.parent = s.parent
<1> DEFINE i == CHOOSE i \in FreeSlots(s) : \A j \in FreeSlots(s) : i <= j
           t == ObReferenceObject(s, o)
           r == [t EXCEPT !.table[i] = o, !.hnd[o] = @ + 1]
<1>1. i \in Slots /\ s.table[i] = None
  BY FirstFree
<1>2. /\ t \in ObRecords
      /\ t.ptr = [s.ptr EXCEPT ![o] = s.ptr[o] + 1]
      /\ t.type = s.type /\ t.hnd = s.hnd /\ t.parent = s.parent /\ t.table = s.table
  BY ReferenceEffect
<1>3. ObCreateHandle(s, o) = r
  BY DEF ObCreateHandle
<1> HIDE DEF i, t
<1>4. /\ r \in ObRecords
      /\ r.table = [t.table EXCEPT ![i] = o] /\ r.hnd = [t.hnd EXCEPT ![o] = t.hnd[o] + 1]
      /\ r.ptr = t.ptr /\ r.type = t.type /\ r.parent = t.parent
  <2>1. r.table = [t.table EXCEPT ![i] = o]
    BY <1>1, <1>2 DEF ObRecords
  <2>2. r.hnd = [t.hnd EXCEPT ![o] = t.hnd[o] + 1]
    BY <1>1, <1>2 DEF ObRecords
  <2>3. r.ptr = t.ptr /\ r.type = t.type /\ r.parent = t.parent
    BY <1>1, <1>2 DEF ObRecords
  <2>4. r \in ObRecords
    <3> DEFINE u == [t EXCEPT !.table[i] = o]
    <3>1. u \in ObRecords
      BY <1>1, <1>2 DEF ObRecords
    <3>2. r = [u EXCEPT !.hnd[o] = t.hnd[o] + 1]
      OBVIOUS
    <3>3. t.hnd[o] + 1 \in Nat
      BY <1>2 DEF ObRecords
    <3> HIDE DEF u, r
    <3>4. QED
      BY <3>1, <3>2, <3>3 DEF ObRecords
  <2>5. QED
    BY <2>1, <2>2, <2>3, <2>4
<1> HIDE DEF r
<1>5. QED
  BY <1>1, <1>2, <1>3, <1>4

\* The references of a list are given back; what nobody holds then is deleted.
LEMMA DereferenceEffect ==
    ASSUME NEW s \in ObRecords, NEW held, \A o \in Objects : Times(held, o) \in 0..s.ptr[o]
    PROVE  LET r == ObDereferenceObject(s, held)
           IN  /\ r \in ObRecords
               /\ r.hnd = s.hnd /\ r.table = s.table
               /\ \A o \in Objects :
                     /\ r.ptr[o] = s.ptr[o] - Times(held, o)
                     /\ IF Times(held, o) > 0 /\ Times(held, o) = s.ptr[o]
                        THEN r.type[o] = "Free" /\ r.parent[o] = None
                        ELSE r.type[o] = s.type[o] /\ r.parent[o] = s.parent[o]
<1> DEFINE left == [o \in Objects |-> s.ptr[o] - Times(held, o)]
           deleted == {o \in Objects : Times(held, o) > 0 /\ left[o] = 0}
           type == [o \in Objects |-> IF o \in deleted THEN "Free" ELSE s.type[o]]
           parent == [o \in Objects |-> IF o \in deleted THEN None ELSE s.parent[o]]
           r == [s EXCEPT !.ptr = left, !.type = type, !.parent = parent]
<1>1. ObDereferenceObject(s, held) = r
  BY DEF ObDereferenceObject
<1>2. \A o \in Objects : s.ptr[o] \in Nat /\ Times(held, o) \in Nat /\ left[o] \in Nat
  BY DEF ObRecords
<1>3. left \in [Objects -> Nat]
  BY <1>2
<1>4. type \in [Objects -> Types \cup {"Free"}] /\ parent \in [Objects -> Objects \cup {None}]
  BY DEF ObRecords
<1>5. \A o \in Objects : o \in deleted <=> Times(held, o) > 0 /\ Times(held, o) = s.ptr[o]
  BY <1>2
<1>6. \A o \in Objects : /\ left[o] = s.ptr[o] - Times(held, o)
                         /\ type[o] = IF o \in deleted THEN "Free" ELSE s.type[o]
                         /\ parent[o] = IF o \in deleted THEN None ELSE s.parent[o]
  OBVIOUS
<1> HIDE DEF left, type, parent, deleted
<1>7. r \in ObRecords /\ r.hnd = s.hnd /\ r.table = s.table
      /\ r.ptr = left /\ r.type = type /\ r.parent = parent
  BY <1>3, <1>4 DEF ObRecords
<1> HIDE DEF r
<1>8. QED
  BY <1>1, <1>5, <1>6, <1>7

LEMMA TimesOfOne == \A o, p : Times(<<o>>, p) = One(p = o)
<1>1. ASSUME NEW o, NEW p PROVE Times(<<o>>, p) = One(p = o)
  <2>1. CASE p = o
    <3>1. {i \in DOMAIN <<o>> : <<o>>[i] = p} = {1}
      BY <2>1
    <3>2. QED
      BY <2>1, <3>1, FS_Singleton DEF Times, One
  <2>2. CASE p # o
    <3>1. {i \in DOMAIN <<o>> : <<o>>[i] = p} = {}
      BY <2>2
    <3>2. QED
      BY <2>2, <3>1, FS_EmptySet DEF Times, One
  <2>3. QED
    BY <2>1, <2>2
<1>2. QED
  BY <1>1

-----------------------------------------------------------------------------
(* The inductive invariant *)

FiniteWaits == \A o \in Objects : IsFiniteSet(WaitsOf(wait, o))

CountsOK ==
    \A o \in Objects :
        /\ ob.ptr[o] = Count(ob.table, wait, termination, ob.parent, o)
        /\ ob.type[o] = "Free" <=> ob.ptr[o] = 0
        /\ ob.hnd[o] = Cardinality(SlotsOf(ob.table, o))

\* The namespace is what boot made it, and its two directories are there.
NamesOK ==
    /\ \A o \in Objects :
          ob.parent[o] = IF o = Device THEN Root ELSE IF o = Console THEN Device ELSE None
    /\ ob.type[Root] = "Directory" /\ ob.type[Device] = "Directory"

\* A thread that was never created announces its end to nobody.
NotCreated == \A t \in Threads : thread[t] = "None" => termination[t] = None

IInv == TypeOK /\ FiniteWaits /\ CountsOK /\ NamesOK /\ PointersValid /\ NotCreated

LEMMA RefsType ==
    ASSUME NEW table, NEW w, NEW term, NEW o, IsFiniteSet(WaitsOf(w, o))
    PROVE  /\ Refs(table, w, term, o) \in Nat
           /\ Cardinality(SlotsOf(table, o)) \in Nat /\ Cardinality(WaitsOf(w, o)) \in Nat
           /\ Cardinality(ThreadsOf(term, o)) \in Nat
  BY FiniteSlots, FiniteThreads, FS_CardinalityType DEF Refs

\* What the invariant says of one object.
LEMMA ObjectFacts ==
    ASSUME IInv, NEW o \in Objects
    PROVE  /\ ob \in ObRecords /\ IsFiniteSet(WaitsOf(wait, o))
           /\ ob.ptr[o] \in Nat /\ Refs(ob.table, wait, termination, o) \in 0..ob.ptr[o]
           /\ ob.ptr[o] = Refs(ob.table, wait, termination, o) + One(ob.parent[o] # None)
                            + One(o \in {Root, Device})
           /\ ob.type[o] = "Free" <=> ob.ptr[o] = 0
           /\ ob.hnd[o] = Cardinality(SlotsOf(ob.table, o))
<1>1. ob \in ObRecords /\ IsFiniteSet(WaitsOf(wait, o)) /\ ob.ptr[o] \in Nat
  BY DEF IInv, TypeOK, ObRecords, FiniteWaits
<1>2. Refs(ob.table, wait, termination, o) \in Nat
  BY <1>1, RefsType
<1>3. One(ob.parent[o] # None) \in Nat /\ One(o \in {Root, Device}) \in Nat
  BY DEF One
<1>4. /\ ob.ptr[o] = Refs(ob.table, wait, termination, o) + One(ob.parent[o] # None)
                            + One(o \in {Root, Device})
      /\ ob.type[o] = "Free" <=> ob.ptr[o] = 0
      /\ ob.hnd[o] = Cardinality(SlotsOf(ob.table, o))
  BY DEF IInv, CountsOK, Count
<1>5. QED
  BY <1>1, <1>2, <1>3, <1>4

\* Somebody who refers to an object keeps it.
LEMMA HeldIsLive ==
    ASSUME IInv
    PROVE  /\ \A i \in Slots : ob.table[i] # None => ob.ptr[ob.table[i]] >= 1
           /\ \A t \in Threads : termination[t] # None => ob.ptr[termination[t]] >= 1
           /\ \A t \in Threads, i \in Nat : i \in DOMAIN wait[t] => ob.ptr[wait[t][i]] >= 1
<1>1. ASSUME NEW i \in Slots, ob.table[i] # None PROVE ob.ptr[ob.table[i]] >= 1
  <2> DEFINE o == ob.table[i]
  <2>1. o \in Objects
    BY <1>1 DEF IInv, TypeOK
  <2>2. Cardinality(SlotsOf(ob.table, o)) >= 1
    BY SlotCounted
  <2> HIDE DEF o
  <2>3. Refs(ob.table, wait, termination, o) >= 1
    BY <2>1, <2>2, ObjectFacts, RefsType DEF Refs
  <2>4. ob.ptr[o] >= 1
    BY <2>1, <2>3, ObjectFacts
  <2>5. QED
    BY <2>4 DEF o
<1>2. ASSUME NEW t \in Threads, termination[t] # None PROVE ob.ptr[termination[t]] >= 1
  <2> DEFINE o == termination[t]
  <2>1. o \in Objects
    BY <1>2 DEF IInv, TypeOK
  <2>2. Cardinality(ThreadsOf(termination, o)) >= 1
    BY ThreadCounted
  <2> HIDE DEF o
  <2>3. Refs(ob.table, wait, termination, o) >= 1
    BY <2>1, <2>2, ObjectFacts, RefsType DEF Refs
  <2>4. ob.ptr[o] >= 1
    BY <2>1, <2>3, ObjectFacts
  <2>5. QED
    BY <2>4 DEF o
<1>3. ASSUME NEW t \in Threads, NEW i \in Nat, i \in DOMAIN wait[t] PROVE ob.ptr[wait[t][i]] >= 1
  <2> DEFINE o == wait[t][i]
  <2>1. o \in Objects
    BY <1>3 DEF IInv, TypeOK
  <2>2. Cardinality(WaitsOf(wait, o)) >= 1
    BY <1>3, <2>1, WaiterCounted, ObjectFacts
  <2> HIDE DEF o
  <2>3. Refs(ob.table, wait, termination, o) >= 1
    BY <2>1, <2>2, ObjectFacts, RefsType DEF Refs
  <2>4. ob.ptr[o] >= 1
    BY <2>1, <2>3, ObjectFacts
  <2>5. QED
    BY <2>4 DEF o
<1>4. QED
  BY <1>1, <1>2, <1>3

\* Memory that is free is referred to by nobody.
LEMMA FreeIsClean ==
    ASSUME IInv, NEW o \in Objects, ob.type[o] = "Free"
    PROVE  ob.ptr[o] = 0 /\ ob.hnd[o] = 0 /\ ob.parent[o] = None /\ o \notin {Root, Device}
<1>1. ob.ptr[o] = 0
  BY ObjectFacts
<1>2. Refs(ob.table, wait, termination, o) = 0 /\ ob.parent[o] = None /\ o \notin {Root, Device}
  BY <1>1, ObjectFacts DEF One
<1>3. ob.hnd[o] = 0
  BY <1>2, ObjectFacts, RefsType DEF Refs
<1>4. QED
  BY <1>1, <1>2, <1>3

-----------------------------------------------------------------------------
(* What the steps do, by their effect on the counts *)

\* The variables beside ob have their types.
OthersTyped ==
    /\ wait \in [Threads -> Seq(Objects)]
    /\ thread \in [Threads -> {"None", "Live", "Terminated"}]
    /\ termination \in [Threads -> Objects \cup {None}]
    /\ inputEvent \in [Threads -> Objects \cup {None}]

\* Nobody gains or loses a reference.
LEMMA SameStep ==
    ASSUME IInv, ob' \in ObRecords, OthersTyped', UNCHANGED <<wait, termination>>,
           \A t \in Threads : thread'[t] = "None" => thread[t] = "None",
           ob'.type = ob.type, ob'.ptr = ob.ptr, ob'.hnd = ob.hnd, ob'.parent = ob.parent,
           ob'.table = ob.table
    PROVE  IInv'
  BY DEF IInv, TypeOK, ObRecords, OthersTyped, FiniteWaits, CountsOK, NamesOK, PointersValid, NotCreated

\* The references of held are given back by those who had them.
Releases(s, held) ==
    /\ s \in ObRecords /\ ob' = ObDereferenceObject(s, held)
    /\ s.ptr = ob.ptr /\ s.type = ob.type /\ s.parent = ob.parent
    /\ \A t \in Threads : /\ wait'[t] = wait[t] \/ wait'[t] = <<>>
                          /\ termination'[t] = termination[t] \/ termination'[t] = None
                          /\ thread'[t] = "None" => thread[t] = "None"
    /\ \A o \in Objects :
          /\ Times(held, o) \in Nat /\ IsFiniteSet(WaitsOf(wait', o))
          /\ Refs(s.table, wait', termination', o) + Times(held, o)
               = Refs(ob.table, wait, termination, o)
          /\ s.hnd[o] = Cardinality(SlotsOf(s.table, o))

LEMMA ReleaseStep ==
    ASSUME IInv, OthersTyped', NEW s, NEW held, Releases(s, held)
    PROVE  IInv'
<1> USE DEF Releases
<1>1. ASSUME NEW o \in Objects
      PROVE  /\ Times(held, o) \in 0..ob.ptr[o]
             /\ Refs(s.table, wait', termination', o) \in Nat
             /\ ob.ptr[o] - Times(held, o) = Refs(s.table, wait', termination', o)
                   + One(ob.parent[o] # None) + One(o \in {Root, Device})
  <2>1. Refs(s.table, wait', termination', o) \in Nat
    BY RefsType
  <2>2. One(ob.parent[o] # None) \in Nat /\ One(o \in {Root, Device}) \in Nat
    BY DEF One
  <2>3. /\ ob.ptr[o] \in Nat /\ Refs(ob.table, wait, termination, o) \in Nat
        /\ ob.ptr[o] = Refs(ob.table, wait, termination, o) + One(ob.parent[o] # None)
                            + One(o \in {Root, Device})
        /\ Refs(s.table, wait', termination', o) + Times(held, o)
              = Refs(ob.table, wait, termination, o)
    BY ObjectFacts
  <2>4. QED
    BY <2>1, <2>2, <2>3
<1>2. /\ ob' \in ObRecords
      /\ ob'.hnd = s.hnd /\ ob'.table = s.table
      /\ \A o \in Objects :
            /\ ob'.ptr[o] = ob.ptr[o] - Times(held, o)
            /\ IF Times(held, o) > 0 /\ Times(held, o) = ob.ptr[o]
               THEN ob'.type[o] = "Free" /\ ob'.parent[o] = None
               ELSE ob'.type[o] = ob.type[o] /\ ob'.parent[o] = ob.parent[o]
  BY <1>1, DereferenceEffect
<1>3. ASSUME NEW o \in Objects PROVE ob'.parent[o] = ob.parent[o]
  BY <1>1, <1>2, ObjectFacts DEF One
<1>4. ASSUME NEW o \in Objects
      PROVE  Refs(s.table, wait', termination', o) >= 1 \/ o \in {Root, Device} =>
                ob'.type[o] = ob.type[o]
  BY <1>1, <1>2, ObjectFacts DEF One
<1>5. TypeOK' /\ FiniteWaits'
  BY <1>2 DEF TypeOK, ObRecords, OthersTyped, FiniteWaits
<1>6. CountsOK'
  <2>1. ASSUME NEW o \in Objects
        PROVE  /\ ob'.ptr[o] = Count(ob'.table, wait', termination', ob'.parent, o)
               /\ ob'.type[o] = "Free" <=> ob'.ptr[o] = 0
               /\ ob'.hnd[o] = Cardinality(SlotsOf(ob'.table, o))
    <3>1. ob'.ptr[o] = Count(ob'.table, wait', termination', ob'.parent, o)
      BY <1>1, <1>2, <1>3 DEF Count
    <3>2. ob'.type[o] = "Free" <=> ob'.ptr[o] = 0
      BY <1>1, <1>2, ObjectFacts
    <3>3. ob'.hnd[o] = Cardinality(SlotsOf(ob'.table, o))
      BY <1>2
    <3>4. QED
      BY <3>1, <3>2, <3>3
  <2>2. QED
    BY <2>1 DEF CountsOK
<1>7. NamesOK'
  BY <1>3, <1>4, ObAssumption DEF IInv, NamesOK
<1>8. PointersValid'
  <2>1. ASSUME NEW t \in Threads, NEW i \in DOMAIN wait'[t]
        PROVE  ob'.type[wait'[t][i]] \in Waitable
    <3> DEFINE o == wait'[t][i]
    <3>1. wait'[t] = wait[t] /\ o \in Objects /\ ob.type[o] \in Waitable
      BY <2>1 DEF IInv, TypeOK, PointersValid
    <3>2. Cardinality(WaitsOf(wait', o)) >= 1
      BY <3>1, WaiterCounted
    <3> HIDE DEF o
    <3>3. Refs(s.table, wait', termination', o) >= 1
      BY <3>1, <3>2, RefsType DEF Refs
    <3>4. ob'.type[o] \in Waitable
      BY <1>4, <3>1, <3>3
    <3>5. QED
      BY <3>4 DEF o
  <2>2. ASSUME NEW t \in Threads, termination'[t] # None
        PROVE  ob'.type[termination'[t]] = "Thread"
    <3> DEFINE o == termination'[t]
    <3>1. o = termination[t] /\ o \in Objects /\ ob.type[o] = "Thread"
      BY <2>2 DEF IInv, TypeOK, PointersValid
    <3>2. Cardinality(ThreadsOf(termination', o)) >= 1
      BY ThreadCounted
    <3> HIDE DEF o
    <3>3. Refs(s.table, wait', termination', o) >= 1
      BY <3>1, <3>2, RefsType DEF Refs
    <3>4. ob'.type[o] = "Thread"
      BY <1>4, <3>1, <3>3
    <3>5. QED
      BY <3>4 DEF o
  <2>3. QED
    BY <2>1, <2>2 DEF PointersValid
<1>9. NotCreated'
  BY DEF IInv, NotCreated
<1>10. QED
  BY <1>5, <1>6, <1>7, <1>8, <1>9 DEF IInv

\* An object that is free, or in use, gets holders: a handle, a thread, or both.
Gains(o, type, n) ==
    /\ ob' \in ObRecords /\ wait' = wait /\ ob'.parent = ob.parent
    /\ ob.type[o] = "Free" \/ ob.type[o] = type
    /\ ob'.type = [ob.type EXCEPT ![o] = type]
    /\ ob'.ptr = [ob.ptr EXCEPT ![o] = ob.ptr[o] + n]
    /\ \A p \in Objects :
          /\ Refs(ob'.table, wait, termination', p)
               = Refs(ob.table, wait, termination, p) + (IF p = o THEN n ELSE 0)
          /\ ob'.hnd[p] = Cardinality(SlotsOf(ob'.table, p))
    /\ \A t \in Threads :
          /\ thread'[t] = "None" => thread[t] = "None" /\ termination'[t] = termination[t]
          /\ \/ termination'[t] = termination[t]
             \/ termination'[t] = o /\ type = "Thread"

LEMMA GainStep ==
    ASSUME IInv, OthersTyped', NEW o \in Objects, NEW type \in Types, NEW n \in Nat \ {0},
           Gains(o, type, n)
    PROVE  IInv'
<1> USE DEF Gains
<1>1. TypeOK' /\ FiniteWaits'
  BY DEF IInv, TypeOK, ObRecords, OthersTyped, FiniteWaits
<1>2. ASSUME NEW p \in Objects
      PROVE  /\ ob'.ptr[p] = ob.ptr[p] + (IF p = o THEN n ELSE 0)
             /\ ob'.type[p] = IF p = o THEN type ELSE ob.type[p]
             /\ ob.ptr[p] >= 1 => ob'.type[p] = ob.type[p]
  BY ObjectFacts DEF ObRecords
<1>3. CountsOK'
  <2>1. ASSUME NEW p \in Objects
        PROVE  /\ ob'.ptr[p] = Count(ob'.table, wait', termination', ob'.parent, p)
               /\ ob'.type[p] = "Free" <=> ob'.ptr[p] = 0
               /\ ob'.hnd[p] = Cardinality(SlotsOf(ob'.table, p))
    <3>1. ob'.ptr[p] = Count(ob'.table, wait', termination', ob'.parent, p)
      <4>1. One(ob.parent[p] # None) \in Nat /\ One(p \in {Root, Device}) \in Nat
        BY DEF One
      <4>2. QED
        BY <1>2, <4>1, ObjectFacts DEF Count
    <3>2. ob'.type[p] = "Free" <=> ob'.ptr[p] = 0
      <4>1. type # "Free"
        BY DEF Types, Waitable
      <4>2. ob.ptr[p] \in Nat /\ (ob.type[p] = "Free" <=> ob.ptr[p] = 0)
        BY ObjectFacts
      <4>3. QED
        BY <1>2, <4>1, <4>2
    <3>3. QED
      BY <3>1, <3>2
  <2>2. QED
    BY <2>1 DEF CountsOK
<1>4. NamesOK'
  <2>1. ob.ptr[Root] >= 1 /\ ob.ptr[Device] >= 1
    BY ObAssumption, ObjectFacts DEF One
  <2>2. QED
    BY <1>2, <2>1, ObAssumption DEF IInv, NamesOK
<1>5. PointersValid'
  <2>1. ASSUME NEW t \in Threads, NEW i \in DOMAIN wait[t]
        PROVE  ob'.type[wait[t][i]] \in Waitable
    <3>1. i \in Nat /\ wait[t][i] \in Objects
      BY DEF IInv, TypeOK
    <3>2. ob.ptr[wait[t][i]] >= 1
      BY <3>1, HeldIsLive
    <3>3. QED
      BY <1>2, <3>1, <3>2 DEF IInv, PointersValid
  <2>2. ASSUME NEW t \in Threads, termination'[t] # None
        PROVE  ob'.type[termination'[t]] = "Thread"
    <3>1. CASE termination'[t] = termination[t]
      <4>1. termination[t] \in Objects /\ ob.ptr[termination[t]] >= 1
        BY <2>2, <3>1, HeldIsLive DEF IInv, TypeOK
      <4>2. QED
        BY <1>2, <2>2, <3>1, <4>1 DEF IInv, PointersValid
    <3>2. CASE termination'[t] = o /\ type = "Thread"
      BY <1>2, <3>2
    <3>3. QED
      BY <3>1, <3>2
  <2>3. QED
    BY <2>1, <2>2 DEF PointersValid
<1>6. NotCreated'
  BY DEF IInv, NotCreated
<1>7. QED
  BY <1>1, <1>3, <1>4, <1>5, <1>6 DEF IInv

-----------------------------------------------------------------------------
(* Slots and threads that take an object or give it up *)

LEMMA SlotChange ==
    ASSUME NEW f, NEW g, NEW i \in Slots, SameBut(Slots, f, g, i), NEW p
    PROVE  Cardinality(SlotsOf(g, p)) + Same(f[i], p) = Cardinality(SlotsOf(f, p)) + Same(g[i], p)
<1>1. IsFiniteSet(Slots)
  BY FiniteSlots
<1>2. Cardinality(At(Slots, g, p)) + Same(f[i], p) = Cardinality(At(Slots, f, p)) + Same(g[i], p)
  BY <1>1, OneChange
<1>3. QED
  BY <1>2 DEF At, SlotsOf

LEMMA ThreadChange ==
    ASSUME NEW f, NEW g, NEW i \in Threads, SameBut(Threads, f, g, i), NEW p
    PROVE  Cardinality(ThreadsOf(g, p)) + Same(f[i], p) = Cardinality(ThreadsOf(f, p)) + Same(g[i], p)
<1>1. IsFiniteSet(Threads)
  BY ObAssumption
<1>2. Cardinality(At(Threads, g, p)) + Same(f[i], p) = Cardinality(At(Threads, f, p)) + Same(g[i], p)
  BY <1>1, OneChange
<1>3. QED
  BY <1>2 DEF At, ThreadsOf

\* One reference is given back: r is s without it.
Dropped(s, r, o) ==
    /\ r \in ObRecords /\ r.hnd = s.hnd /\ r.table = s.table
    /\ r.ptr = [s.ptr EXCEPT ![o] = s.ptr[o] - 1]
    /\ s.ptr[o] = 1 => /\ r.type = [s.type EXCEPT ![o] = "Free"]
                       /\ r.parent = [s.parent EXCEPT ![o] = None]
    /\ s.ptr[o] > 1 => r.type = s.type /\ r.parent = s.parent

LEMMA DropEffect ==
    ASSUME NEW s \in ObRecords, NEW o \in Objects, s.ptr[o] >= 1
    PROVE  Dropped(s, ObDereferenceObject(s, <<o>>), o)
<1> DEFINE r == ObDereferenceObject(s, <<o>>)
<1>1. \A p \in Objects : s.ptr[p] \in Nat /\ Times(<<o>>, p) = (IF p = o THEN 1 ELSE 0)
  BY TimesOfOne DEF ObRecords, One
<1>2. \A p \in Objects : Times(<<o>>, p) \in 0..s.ptr[p]
  BY <1>1
<1>3. /\ r \in ObRecords /\ r.hnd = s.hnd /\ r.table = s.table
      /\ \A p \in Objects :
            /\ r.ptr[p] = s.ptr[p] - Times(<<o>>, p)
            /\ IF Times(<<o>>, p) > 0 /\ Times(<<o>>, p) = s.ptr[p]
               THEN r.type[p] = "Free" /\ r.parent[p] = None
               ELSE r.type[p] = s.type[p] /\ r.parent[p] = s.parent[p]
  BY <1>2, DereferenceEffect
<1> HIDE DEF r
<1>4. r.ptr = [s.ptr EXCEPT ![o] = s.ptr[o] - 1]
  BY <1>1, <1>3 DEF ObRecords
<1>5. CASE s.ptr[o] = 1
  <2>1. r.type = [s.type EXCEPT ![o] = "Free"]
    BY <1>1, <1>3, <1>5 DEF ObRecords
  <2>2. r.parent = [s.parent EXCEPT ![o] = None]
    BY <1>1, <1>3, <1>5 DEF ObRecords
  <2>3. QED
    BY <1>3, <1>4, <1>5, <2>1, <2>2 DEF r, Dropped
<1>6. CASE s.ptr[o] # 1
  <2>1. r.type = s.type
    BY <1>1, <1>3, <1>6 DEF ObRecords
  <2>2. r.parent = s.parent
    BY <1>1, <1>3, <1>6 DEF ObRecords
  <2>3. QED
    BY <1>3, <1>4, <1>6, <2>1, <2>2 DEF r, Dropped
<1>7. QED
  BY <1>5, <1>6

\* The object that Allocate returns is free.
LEMMA AllocateIsFree ==
    ASSUME Allocate(ob) # None PROVE Allocate(ob) \in Objects /\ ob.type[Allocate(ob)] = "Free"
  BY DEF Allocate

\* The object o is new, with n references; the rest is as it was.
NewObject(r, o, type, n) ==
    /\ r \in ObRecords
    /\ r.type = [ob.type EXCEPT ![o] = type]
    /\ r.ptr = [ob.ptr EXCEPT ![o] = n]
    /\ r.hnd = [ob.hnd EXCEPT ![o] = 0]
    /\ r.parent = [ob.parent EXCEPT ![o] = None]
    /\ r.table = ob.table

\* It has a handle besides, in slot i.
NewWithHandle(r, o, type, n, i) ==
    /\ r \in ObRecords
    /\ r.type = [ob.type EXCEPT ![o] = type]
    /\ r.ptr = [ob.ptr EXCEPT ![o] = n]
    /\ r.hnd = [ob.hnd EXCEPT ![o] = 1]
    /\ r.parent = ob.parent
    /\ ob.table[i] = None /\ r.table = [ob.table EXCEPT ![i] = o]

\* A creation that drops the creator's reference again leaves nothing behind.
LEMMA CreatedInVain ==
    ASSUME IInv, NEW o \in Objects, ob.type[o] = "Free", NEW type \in Types
    PROVE  LET r == ObDereferenceObject(ObCreateObject(ob, o, type), <<o>>)
           IN  /\ r \in ObRecords
               /\ r.type = ob.type /\ r.ptr = ob.ptr /\ r.hnd = ob.hnd /\ r.parent = ob.parent
               /\ r.table = ob.table
<1> DEFINE new == ObCreateObject(ob, o, type)
           r == ObDereferenceObject(new, <<o>>)
<1>1. ob \in ObRecords /\ ob.ptr[o] = 0 /\ ob.hnd[o] = 0 /\ ob.parent[o] = None
  BY ObjectFacts, FreeIsClean
<1>2. /\ new \in ObRecords
      /\ new.type = [ob.type EXCEPT ![o] = type] /\ new.ptr = [ob.ptr EXCEPT ![o] = 1]
      /\ new.hnd = [ob.hnd EXCEPT ![o] = 0] /\ new.parent = [ob.parent EXCEPT ![o] = None]
      /\ new.table = ob.table
  BY <1>1, CreateEffect
<1> HIDE DEF new
<1>3. new \in ObRecords /\ new.ptr[o] = 1 /\ new.ptr[o] >= 1
  BY <1>1, <1>2 DEF ObRecords
<1>4. /\ r \in ObRecords /\ r.hnd = new.hnd /\ r.table = new.table
      /\ r.ptr = [new.ptr EXCEPT ![o] = new.ptr[o] - 1]
      /\ r.type = [new.type EXCEPT ![o] = "Free"]
      /\ r.parent = [new.parent EXCEPT ![o] = None]
  <2>1. Dropped(new, r, o)
    BY <1>3, DropEffect
  <2> HIDE DEF r
  <2>2. QED
    BY <1>3, <2>1 DEF Dropped
<1> HIDE DEF r
<1>5. r.type = ob.type
  BY <1>1, <1>2, <1>4 DEF ObRecords
<1>6. r.ptr = ob.ptr /\ r.hnd = ob.hnd
  <2>1. r.ptr = [ob.ptr EXCEPT ![o] = 0]
    BY <1>2, <1>3, <1>4
  <2>2. ob.ptr \in [Objects -> Nat] /\ ob.hnd \in [Objects -> Nat]
    BY <1>1 DEF ObRecords
  <2>3. QED
    BY <1>1, <1>2, <1>4, <2>1, <2>2
<1>7. r.parent = ob.parent
  BY <1>1, <1>2, <1>4 DEF ObRecords
<1>8. QED
  BY <1>2, <1>4, <1>5, <1>6, <1>7 DEF r, new

\* A new object, referenced extra times besides its creator's, with a handle; the
\* creator's reference is given back.
LEMMA CreatedWithHandle ==
    ASSUME IInv, NEW o \in Objects, ob.type[o] = "Free", NEW type \in Types,
           CanCreateHandle(ob), NEW n \in Nat \ {0}, NEW new, NewObject(new, o, type, n)
    PROVE  \E i \in Slots :
              NewWithHandle(ObDereferenceObject(ObCreateHandle(new, o), <<o>>), o, type, n, i)
<1> USE DEF NewObject
<1> DEFINE h == ObCreateHandle(new, o)
           r == ObDereferenceObject(h, <<o>>)
<1>1. ob \in ObRecords /\ ob.ptr[o] = 0 /\ ob.hnd[o] = 0 /\ ob.parent[o] = None
  BY ObjectFacts, FreeIsClean
<1>2. CanCreateHandle(new)
  BY DEF CanCreateHandle, FreeSlots
<1>3. PICK i \in Slots : /\ new.table[i] = None
                         /\ h \in ObRecords
                         /\ h.table = [new.table EXCEPT ![i] = o]
                         /\ h.ptr = [new.ptr EXCEPT ![o] = new.ptr[o] + 1]
                         /\ h.hnd = [new.hnd EXCEPT ![o] = new.hnd[o] + 1]
                         /\ h.type = new.type /\ h.parent = new.parent
  BY <1>2, HandleEffect
<1> HIDE DEF h
<1>4. new.ptr[o] = n /\ new.hnd[o] = 0 /\ h.ptr[o] = n + 1
  BY <1>1, <1>3 DEF ObRecords
<1>5. /\ r \in ObRecords /\ r.hnd = h.hnd /\ r.table = h.table
      /\ r.ptr = [h.ptr EXCEPT ![o] = h.ptr[o] - 1]
      /\ r.type = h.type /\ r.parent = h.parent
  <2>1. Dropped(h, r, o)
    BY <1>3, <1>4, DropEffect
  <2> HIDE DEF r
  <2>2. QED
    BY <1>4, <2>1 DEF Dropped
<1> HIDE DEF r
<1>6. r.ptr = [ob.ptr EXCEPT ![o] = n] /\ r.hnd = [ob.hnd EXCEPT ![o] = 1]
  <2>1. r.ptr = [[[ob.ptr EXCEPT ![o] = n] EXCEPT ![o] = n + 1] EXCEPT ![o] = n]
    BY <1>3, <1>4, <1>5
  <2>2. r.hnd = [[ob.hnd EXCEPT ![o] = 0] EXCEPT ![o] = 1]
    BY <1>3, <1>4, <1>5
  <2>3. ob.ptr \in [Objects -> Nat] /\ ob.hnd \in [Objects -> Nat]
    BY <1>1 DEF ObRecords
  <2>4. QED
    BY <2>1, <2>2, <2>3
<1>7. r.parent = ob.parent
  BY <1>1, <1>3, <1>5 DEF ObRecords
<1>8. QED
  BY <1>3, <1>5, <1>6, <1>7 DEF r, h, NewWithHandle

\* A slot that was free takes o.
LEMMA SlotTaken ==
    ASSUME NEW f, NEW g, NEW i \in Slots, SameBut(Slots, f, g, i),
           f[i] = None, NEW p \in Objects
    PROVE  Cardinality(SlotsOf(g, p)) = Cardinality(SlotsOf(f, p)) + Same(g[i], p)
<1>1. Cardinality(SlotsOf(g, p)) \in Nat /\ Cardinality(SlotsOf(f, p)) \in Nat
  BY FiniteSlots
<1>2. Cardinality(SlotsOf(g, p)) + Same(f[i], p) = Cardinality(SlotsOf(f, p)) + Same(g[i], p)
  BY SlotChange
<1>3. Same(f[i], p) = 0 /\ Same(g[i], p) \in Nat
  BY ObAssumption DEF Same
<1>4. QED
  BY <1>1, <1>2, <1>3

\* A thread that announced its end to nobody gets o.
LEMMA ThreadTaken ==
    ASSUME NEW f, NEW g, NEW i \in Threads, SameBut(Threads, f, g, i),
           f[i] = None, NEW p \in Objects
    PROVE  Cardinality(ThreadsOf(g, p)) = Cardinality(ThreadsOf(f, p)) + Same(g[i], p)
<1>1. Cardinality(ThreadsOf(g, p)) \in Nat /\ Cardinality(ThreadsOf(f, p)) \in Nat
  BY FiniteThreads
<1>2. Cardinality(ThreadsOf(g, p)) + Same(f[i], p) = Cardinality(ThreadsOf(f, p)) + Same(g[i], p)
  BY ThreadChange
<1>3. Same(f[i], p) = 0 /\ Same(g[i], p) \in Nat
  BY ObAssumption DEF Same
<1>4. QED
  BY <1>1, <1>2, <1>3

\* An object gets one more handle: it was free, or is in use.
GetsHandle(o, type, i) ==
    /\ ob' \in ObRecords /\ ob'.parent = ob.parent
    /\ ob.type[o] = "Free" \/ ob.type[o] = type
    /\ ob'.type = [ob.type EXCEPT ![o] = type]
    /\ ob'.ptr = [ob.ptr EXCEPT ![o] = ob.ptr[o] + 1]
    /\ ob.table[i] = None /\ ob'.table = [ob.table EXCEPT ![i] = o]
    /\ ob'.hnd = [ob.hnd EXCEPT ![o] = ob.hnd[o] + 1]

LEMMA HandleStep ==
    ASSUME IInv, OthersTyped', UNCHANGED <<wait, thread, termination>>,
           NEW o \in Objects, NEW type \in Types, NEW i \in Slots, GetsHandle(o, type, i)
    PROVE  IInv'
<1> USE DEF GetsHandle
<1>1. ob.table \in [Slots -> Objects \cup {None}] /\ ob.hnd \in [Objects -> Nat]
  BY DEF IInv, TypeOK
<1>2. ASSUME NEW p \in Objects
      PROVE  Cardinality(SlotsOf(ob'.table, p))
               = Cardinality(SlotsOf(ob.table, p)) + (IF p = o THEN 1 ELSE 0)
  <2>1. SameBut(Slots, ob.table, ob'.table, i) /\ ob'.table[i] = o
    BY <1>1 DEF SameBut
  <2> HIDE DEF GetsHandle
  <2>2. Cardinality(SlotsOf(ob'.table, p))
          = Cardinality(SlotsOf(ob.table, p)) + Same(ob'.table[i], p)
    <3>1. ob.table[i] = None
      BY DEF GetsHandle
    <3>2. QED
      BY <2>1, <3>1, SlotTaken
  <2>3. QED
    BY <2>1, <2>2 DEF Same
<1>3. ASSUME NEW p \in Objects
      PROVE  /\ Refs(ob'.table, wait, termination', p)
                  = Refs(ob.table, wait, termination, p) + (IF p = o THEN 1 ELSE 0)
             /\ ob'.hnd[p] = Cardinality(SlotsOf(ob'.table, p))
  <2>1. IsFiniteSet(WaitsOf(wait, p)) /\ ob.hnd[p] = Cardinality(SlotsOf(ob.table, p))
    BY ObjectFacts
  <2>2. Refs(ob'.table, wait, termination', p)
           = Refs(ob.table, wait, termination, p) + (IF p = o THEN 1 ELSE 0)
    BY <1>2, <2>1, RefsType DEF Refs
  <2>3. ob'.hnd[p] = ob.hnd[p] + (IF p = o THEN 1 ELSE 0)
    BY <1>1
  <2>4. QED
    BY <1>2, <2>1, <2>2, <2>3
<1>4. Gains(o, type, 1)
  BY <1>3 DEF Gains
<1> HIDE DEF GetsHandle
<1>5. QED
  BY <1>4, GainStep

\* An object is made and a handle to it; or it is deleted again, or there is no memory.
LEMMA CreateStep ==
    ASSUME IInv, OthersTyped', UNCHANGED <<wait, thread, termination>>,
           NEW type \in Types, ob' = CreateWithHandle(ob, type)
    PROVE  IInv'
<1> DEFINE o == Allocate(ob)
           new == ObCreateObject(ob, o, type)
<1>1. CASE o = None
  <2>1. ob' = ob
    BY <1>1 DEF CreateWithHandle
  <2>2. ob' \in ObRecords
    BY <2>1 DEF IInv, TypeOK, ObRecords
  <2>3. QED
    BY <2>1, <2>2, SameStep
<1>2. CASE o # None /\ CanCreateHandle(ob)
  <2>1. ob' = ObDereferenceObject(ObCreateHandle(new, o), <<o>>)
    BY <1>2 DEF CreateWithHandle
  <2>2. o \in Objects /\ ob.type[o] = "Free" /\ ob \in ObRecords
    BY <1>2, AllocateIsFree DEF IInv, TypeOK, ObRecords
  <2> HIDE DEF o
  <2>3. NewObject(new, o, type, 1)
    BY <2>2, CreateEffect DEF NewObject
  <2> HIDE DEF new
  <2>4. PICK i \in Slots : NewWithHandle(ob', o, type, 1, i)
    BY <1>2, <2>1, <2>2, <2>3, CreatedWithHandle
  <2>5. ob.ptr[o] = 0 /\ ob.hnd[o] = 0
    BY <2>2, FreeIsClean
  <2>6. GetsHandle(o, type, i)
    BY <2>2, <2>4, <2>5 DEF NewWithHandle, GetsHandle
  <2>7. QED
    BY <2>2, <2>6, HandleStep
<1>3. CASE o # None /\ ~CanCreateHandle(ob)
  <2>1. ob' = ObDereferenceObject(new, <<o>>)
    BY <1>3 DEF CreateWithHandle
  <2>2. o \in Objects /\ ob.type[o] = "Free"
    BY <1>3, AllocateIsFree
  <2> HIDE DEF o
  <2>3. /\ ob' \in ObRecords
        /\ ob'.type = ob.type /\ ob'.ptr = ob.ptr /\ ob'.hnd = ob.hnd /\ ob'.parent = ob.parent
        /\ ob'.table = ob.table
    BY <2>1, <2>2, CreatedInVain
  <2>4. QED
    BY <2>3, SameStep
<1>4. QED
  BY <1>1, <1>2, <1>3

\* A path that leads somewhere leads to an object in use.
LEMMA LookupFinds ==
    ASSUME IInv, NEW path \in Paths, ObLookupObjectByName(ob, path) # None
    PROVE  LET o == ObLookupObjectByName(ob, path)
           IN  o \in Objects /\ ob.ptr[o] >= 1 /\ ob.type[o] \in Types
<1> DEFINE o == ObLookupObjectByName(ob, path)
<1>1. o \in {Root, Device, Console}
  <2>1. path = <<>> => o = Root
    BY DEF ObLookupObjectByName
  <2>2. path # <<>> => o = path[Len(path)]
    BY DEF ObLookupObjectByName
  <2> HIDE DEF o
  <2>3. path # <<>> => path[Len(path)] \in {Device, Console}
    BY DEF Paths
  <2>4. QED
    BY <2>1, <2>2, <2>3
<1> HIDE DEF o
<1>2. o \in Objects
  BY <1>1, ObAssumption
<1>3. ob.ptr[o] >= 1
  <2>1. ob.parent[Console] = Device /\ Device # None
    BY ObAssumption DEF IInv, NamesOK
  <2>2. One(ob.parent[o] # None) = 1 \/ One(o \in {Root, Device}) = 1
    BY <1>1, <2>1 DEF One
  <2>3. One(ob.parent[o] # None) \in Nat /\ One(o \in {Root, Device}) \in Nat
    BY DEF One
  <2>4. QED
    BY <1>2, <2>2, <2>3, ObjectFacts
<1>4. ob.type[o] \in Types \cup {"Free"} /\ ob.type[o] # "Free"
  BY <1>2, <1>3, ObjectFacts DEF ObRecords
<1>5. QED
  BY <1>2, <1>3, <1>4 DEF o

\* A reference that is taken and given back leaves nothing behind.
LEMMA ReferencedInVain ==
    ASSUME IInv, NEW o \in Objects, ob.ptr[o] >= 1,
           OthersTyped', UNCHANGED <<wait, thread, termination>>,
           ob' = ObDereferenceObject(ObReferenceObject(ob, o), <<o>>)
    PROVE  IInv'
<1> DEFINE s == ObReferenceObject(ob, o)
<1>1. ob \in ObRecords /\ ob.ptr \in [Objects -> Nat]
  BY DEF IInv, TypeOK, ObRecords
<1>2. /\ s \in ObRecords /\ s.ptr = [ob.ptr EXCEPT ![o] = ob.ptr[o] + 1]
      /\ s.type = ob.type /\ s.hnd = ob.hnd /\ s.parent = ob.parent /\ s.table = ob.table
  BY <1>1, ReferenceEffect
<1> HIDE DEF s
<1>3. s.ptr[o] = ob.ptr[o] + 1 /\ s.ptr[o] > 1 /\ s.ptr[o] >= 1
  BY <1>1, <1>2
<1>4. Dropped(s, ob', o)
  BY <1>2, <1>3, DropEffect DEF s
<1>5. /\ ob' \in ObRecords /\ ob'.type = ob.type /\ ob'.hnd = ob.hnd /\ ob'.parent = ob.parent
      /\ ob'.table = ob.table
  BY <1>2, <1>3, <1>4 DEF Dropped
<1>6. ob'.ptr = ob.ptr
  <2>1. ob'.ptr = [[ob.ptr EXCEPT ![o] = ob.ptr[o] + 1] EXCEPT ![o] = ob.ptr[o] + 1 - 1]
    BY <1>2, <1>3, <1>4 DEF Dropped
  <2>2. QED
    BY <1>1, <2>1
<1>7. QED
  BY <1>5, <1>6, SameStep

\* A name that is found is opened.
LEMMA OpenStep ==
    ASSUME IInv, NEW o \in Objects, ob.ptr[o] >= 1, ob.type[o] \in Types,
           OthersTyped', UNCHANGED <<wait, thread, termination>>,
           CanCreateHandle(ObReferenceObject(ob, o)),
           ob' = ObDereferenceObject(ObCreateHandle(ObReferenceObject(ob, o), o), <<o>>)
    PROVE  IInv'
<1> DEFINE s == ObReferenceObject(ob, o)
           h == ObCreateHandle(s, o)
<1>1. ob \in ObRecords /\ ob.ptr \in [Objects -> Nat] /\ ob.ptr[o] \in Nat
  BY DEF IInv, TypeOK, ObRecords
<1>2. /\ s \in ObRecords /\ s.ptr = [ob.ptr EXCEPT ![o] = ob.ptr[o] + 1]
      /\ s.type = ob.type /\ s.hnd = ob.hnd /\ s.parent = ob.parent /\ s.table = ob.table
  BY <1>1, ReferenceEffect
<1>3. CanCreateHandle(s)
  OBVIOUS
<1> HIDE DEF s
<1>4. PICK i \in Slots : /\ s.table[i] = None
                         /\ h \in ObRecords
                         /\ h.table = [s.table EXCEPT ![i] = o]
                         /\ h.ptr = [s.ptr EXCEPT ![o] = s.ptr[o] + 1]
                         /\ h.hnd = [s.hnd EXCEPT ![o] = s.hnd[o] + 1]
                         /\ h.type = s.type /\ h.parent = s.parent
  BY <1>2, <1>3, HandleEffect
<1>5. ob' = ObDereferenceObject(h, <<o>>)
  BY DEF s
<1> HIDE DEF h
<1>6. s.ptr[o] = ob.ptr[o] + 1 /\ h.ptr[o] = ob.ptr[o] + 2 /\ h.ptr[o] > 1 /\ h.ptr[o] >= 1
  <2>1. s.ptr[o] = ob.ptr[o] + 1
    BY <1>1, <1>2
  <2>2. h.ptr[o] = s.ptr[o] + 1
    BY <1>2, <1>4 DEF ObRecords
  <2>3. QED
    BY <1>1, <2>1, <2>2
<1>7. Dropped(h, ob', o)
  BY <1>4, <1>5, <1>6, DropEffect
<1>8. ob'.ptr = [ob.ptr EXCEPT ![o] = ob.ptr[o] + 1]
  <2>1. ob'.ptr = [[[ob.ptr EXCEPT ![o] = ob.ptr[o] + 1] EXCEPT ![o] = ob.ptr[o] + 2]
                      EXCEPT ![o] = ob.ptr[o] + 2 - 1]
    <3>1. ob'.ptr = [h.ptr EXCEPT ![o] = h.ptr[o] - 1]
      BY <1>7 DEF Dropped
    <3>2. s.ptr[o] + 1 = ob.ptr[o] + 2
      BY <1>1, <1>6
    <3>3. h.ptr = [[ob.ptr EXCEPT ![o] = ob.ptr[o] + 1] EXCEPT ![o] = ob.ptr[o] + 2]
      BY <1>2, <1>4, <3>2
    <3>4. QED
      BY <1>6, <3>1, <3>3
  <2>2. QED
    BY <1>1, <2>1
<1>9. /\ ob' \in ObRecords /\ ob'.type = ob.type /\ ob'.parent = ob.parent
      /\ ob'.table = [ob.table EXCEPT ![i] = o] /\ ob'.hnd = [ob.hnd EXCEPT ![o] = ob.hnd[o] + 1]
      /\ ob.table[i] = None
  BY <1>2, <1>4, <1>6, <1>7 DEF Dropped
<1>10. ob.type = [ob.type EXCEPT ![o] = ob.type[o]]
  BY <1>1 DEF ObRecords
<1>11. GetsHandle(o, ob.type[o], i)
  BY <1>8, <1>9, <1>10 DEF GetsHandle
<1>12. QED
  BY <1>11, HandleStep

LEMMA FileStep ==
    ASSUME IInv, NEW t \in Threads, NEW path \in Paths, NtCreateFile(t, path), OthersTyped'
    PROVE  IInv'
<1> DEFINE o == ObLookupObjectByName(ob, path)
           s == ObReferenceObject(ob, o)
<1>1. UNCHANGED <<wait, thread, termination>>
  BY DEF NtCreateFile
<1>2. CASE ob' = CreateWithHandle(ob, "File")
  <2>1. "File" \in Types
    BY DEF Types
  <2>2. QED
    BY <1>1, <1>2, <2>1, CreateStep
<1>3. CASE o # None /\ ob' = ObDereferenceObject(IF CanCreateHandle(s) THEN ObCreateHandle(s, o)
                                                                      ELSE s, <<o>>)
  <2>1. o \in Objects /\ ob.ptr[o] >= 1 /\ ob.type[o] \in Types
    BY <1>3, LookupFinds
  <2> HIDE DEF o
  <2>2. CASE CanCreateHandle(s)
    <3>1. ob' = ObDereferenceObject(ObCreateHandle(s, o), <<o>>)
      BY <1>3, <2>2
    <3>2. QED
      BY <1>1, <2>1, <2>2, <3>1, OpenStep
  <2>3. CASE ~CanCreateHandle(s)
    <3>1. ob' = ObDereferenceObject(s, <<o>>)
      BY <1>3, <2>3
    <3>2. QED
      BY <1>1, <2>1, <3>1, ReferencedInVain
  <2>4. QED
    BY <2>2, <2>3
<1>4. QED
  BY <1>2, <1>3 DEF NtCreateFile

\* A new thread holds its object, and so does the handle, if there is one.
Starts(u, o, n) ==
    /\ thread[u] = "None" /\ ob.type[o] = "Free" /\ wait' = wait
    /\ thread' = [thread EXCEPT ![u] = "Live"] /\ termination' = [termination EXCEPT ![u] = o]
    /\ ob' \in ObRecords /\ ob'.parent = ob.parent
    /\ ob'.type = [ob.type EXCEPT ![o] = "Thread"] /\ ob'.ptr = [ob.ptr EXCEPT ![o] = n]
    /\ \A p \in Objects :
          /\ Cardinality(SlotsOf(ob'.table, p))
               = Cardinality(SlotsOf(ob.table, p)) + (IF p = o THEN n - 1 ELSE 0)
          /\ ob'.hnd[p] = Cardinality(SlotsOf(ob'.table, p))

LEMMA ThreadStarts ==
    ASSUME IInv, OthersTyped', NEW u \in Threads, NEW o \in Objects, NEW n \in {1, 2}, Starts(u, o, n)
    PROVE  IInv'
<1> USE DEF Starts
<1>1. ob.ptr[o] = 0
  BY FreeIsClean
<1>2. /\ termination \in [Threads -> Objects \cup {None}] /\ termination[u] = None
      /\ thread \in [Threads -> {"None", "Live", "Terminated"}]
  BY DEF IInv, NotCreated, TypeOK
<1>3. SameBut(Threads, termination, termination', u) /\ termination'[u] = o
  BY <1>2 DEF SameBut
<1>4. ASSUME NEW p \in Objects
      PROVE  Refs(ob'.table, wait, termination', p)
               = Refs(ob.table, wait, termination, p) + (IF p = o THEN n ELSE 0)
  <2>1. Cardinality(ThreadsOf(termination', p))
          = Cardinality(ThreadsOf(termination, p)) + Same(termination'[u], p)
    <3> HIDE DEF Starts
    <3>1. termination[u] = None
      BY <1>2
    <3>2. QED
      BY <1>3, <3>1, ThreadTaken
  <2>2. Same(termination'[u], p) = IF p = o THEN 1 ELSE 0
    BY <1>3 DEF Same
  <2>3. Cardinality(SlotsOf(ob'.table, p))
          = Cardinality(SlotsOf(ob.table, p)) + (IF p = o THEN n - 1 ELSE 0)
    OBVIOUS
  <2>4. /\ Cardinality(SlotsOf(ob.table, p)) \in Nat /\ Cardinality(WaitsOf(wait, p)) \in Nat
        /\ Cardinality(ThreadsOf(termination, p)) \in Nat
    BY ObjectFacts, RefsType
  <2>5. QED
    BY <2>1, <2>2, <2>3, <2>4 DEF Refs
<1>5. \A t \in Threads :
          /\ thread'[t] = "None" => thread[t] = "None" /\ termination'[t] = termination[t]
          /\ \/ termination'[t] = termination[t]
             \/ termination'[t] = o /\ "Thread" = "Thread"
  BY <1>2
<1>6. Gains(o, "Thread", n)
  <2>1. ob.ptr[o] + n = n
    BY <1>1
  <2>2. ob'.ptr = [ob.ptr EXCEPT ![o] = ob.ptr[o] + n]
    BY <2>1
  <2>3. QED
    BY <1>4, <1>5, <2>2 DEF Gains
<1>7. "Thread" \in Types /\ n \in Nat \ {0}
  BY DEF Types, Waitable
<1>8. QED
  BY <1>6, <1>7, GainStep

LEMMA ThreadStep ==
    ASSUME IInv, NEW t \in Threads, NEW u \in Threads, NtCreateThreadEx(t, u), OthersTyped'
    PROVE  IInv'
<1> DEFINE o == Allocate(ob)
           made == ObCreateObject(ob, o, "Thread")
           new == ObReferenceObject(made, o)
<1>1. /\ thread[u] = "None" /\ wait' = wait
      /\ o \in Objects /\ ob.type[o] = "Free" /\ ob \in ObRecords /\ "Thread" \in Types
  BY AllocateIsFree DEF NtCreateThreadEx, IInv, TypeOK, ObRecords, Types, Waitable
<1>2. \/ /\ ob' = ObDereferenceObject(IF CanCreateHandle(ob) THEN ObCreateHandle(new, o) ELSE new, <<o>>)
         /\ thread' = [thread EXCEPT ![u] = "Live"] /\ termination' = [termination EXCEPT ![u] = o]
      \/ /\ ob' = ObDereferenceObject(made, <<o>>)
         /\ UNCHANGED <<thread, termination>>
  BY DEF NtCreateThreadEx
<1> HIDE DEF o
<1>3. NewObject(made, o, "Thread", 1)
  BY <1>1, CreateEffect DEF NewObject
<1>4. NewObject(new, o, "Thread", 2)
  <2>1. made \in ObRecords /\ made.ptr = [ob.ptr EXCEPT ![o] = 1] /\ made.ptr[o] = 1
    BY <1>1, <1>3 DEF NewObject, ObRecords
  <2> HIDE DEF made
  <2>2. /\ new \in ObRecords
        /\ new.ptr = [made.ptr EXCEPT ![o] = made.ptr[o] + 1]
        /\ new.type = made.type /\ new.hnd = made.hnd /\ new.parent = made.parent
        /\ new.table = made.table
    BY <1>1, <2>1, ReferenceEffect
  <2> HIDE DEF new
  <2>3. new.ptr = [[ob.ptr EXCEPT ![o] = 1] EXCEPT ![o] = 2]
    BY <2>1, <2>2
  <2>4. new.ptr = [ob.ptr EXCEPT ![o] = 2]
    BY <1>1, <2>3 DEF ObRecords
  <2>5. QED
    BY <1>3, <2>2, <2>4 DEF NewObject
<1>5. CASE ob' = ObDereferenceObject(made, <<o>>) /\ UNCHANGED <<thread, termination>>
  <2>1. /\ ob' \in ObRecords
        /\ ob'.type = ob.type /\ ob'.ptr = ob.ptr /\ ob'.hnd = ob.hnd /\ ob'.parent = ob.parent
        /\ ob'.table = ob.table
    BY <1>1, <1>5, CreatedInVain
  <2>2. QED
    BY <1>1, <1>5, <2>1, SameStep
<1> HIDE DEF made, new
<1>6. CASE /\ CanCreateHandle(ob) /\ ob' = ObDereferenceObject(ObCreateHandle(new, o), <<o>>)
           /\ thread' = [thread EXCEPT ![u] = "Live"] /\ termination' = [termination EXCEPT ![u] = o]
  <2>1. PICK i \in Slots : NewWithHandle(ob', o, "Thread", 2, i)
    BY <1>1, <1>4, <1>6, CreatedWithHandle
  <2>2. ob.table[i] = None /\ SameBut(Slots, ob.table, ob'.table, i) /\ ob'.table[i] = o
    BY <1>1, <2>1 DEF NewWithHandle, SameBut, ObRecords
  <2>3. ASSUME NEW p \in Objects
        PROVE  /\ Cardinality(SlotsOf(ob'.table, p))
                    = Cardinality(SlotsOf(ob.table, p)) + (IF p = o THEN 2 - 1 ELSE 0)
               /\ ob'.hnd[p] = Cardinality(SlotsOf(ob'.table, p))
    <3>1. Cardinality(SlotsOf(ob'.table, p))
            = Cardinality(SlotsOf(ob.table, p)) + Same(ob'.table[i], p)
      BY <2>2, SlotTaken
    <3>2. Same(ob'.table[i], p) = IF p = o THEN 1 ELSE 0
      BY <2>2 DEF Same
    <3>3. ob.hnd[p] = Cardinality(SlotsOf(ob.table, p)) /\ ob.hnd[o] = 0
      BY <1>1, ObjectFacts, FreeIsClean
    <3>4. ob'.hnd[p] = ob.hnd[p] + (IF p = o THEN 1 ELSE 0)
      BY <1>1, <2>1, <3>3 DEF NewWithHandle, ObRecords
    <3>5. QED
      BY <3>1, <3>2, <3>3, <3>4
  <2>4. /\ ob' \in ObRecords /\ ob'.parent = ob.parent
        /\ ob'.type = [ob.type EXCEPT ![o] = "Thread"] /\ ob'.ptr = [ob.ptr EXCEPT ![o] = 2]
    BY <2>1 DEF NewWithHandle
  <2>5. Starts(u, o, 2)
    BY <1>1, <1>6, <2>3, <2>4 DEF Starts
  <2>6. QED
    BY <1>1, <2>5, ThreadStarts
<1>7. CASE /\ ob' = ObDereferenceObject(new, <<o>>)
           /\ thread' = [thread EXCEPT ![u] = "Live"] /\ termination' = [termination EXCEPT ![u] = o]
  <2>1. new \in ObRecords /\ new.ptr[o] = 2 /\ new.ptr[o] >= 1 /\ new.ptr[o] > 1
    BY <1>1, <1>4 DEF NewObject, ObRecords
  <2>2. Dropped(new, ob', o)
    BY <1>1, <1>7, <2>1, DropEffect
  <2>3. ob.ptr[o] = 0 /\ ob.hnd[o] = 0 /\ ob.parent[o] = None
    BY <1>1, FreeIsClean
  <2>4. /\ ob' \in ObRecords /\ ob'.type = [ob.type EXCEPT ![o] = "Thread"]
        /\ ob'.table = ob.table /\ ob'.hnd = [ob.hnd EXCEPT ![o] = 0]
        /\ ob'.parent = [ob.parent EXCEPT ![o] = None]
    BY <1>4, <2>1, <2>2 DEF NewObject, Dropped
  <2>5. ob'.hnd = ob.hnd /\ ob'.parent = ob.parent
    BY <1>1, <2>3, <2>4 DEF ObRecords
  <2>6. ob'.ptr = [ob.ptr EXCEPT ![o] = 1]
    <3>1. ob'.ptr = [[ob.ptr EXCEPT ![o] = 2] EXCEPT ![o] = 1]
      BY <1>4, <2>1, <2>2 DEF NewObject, Dropped
    <3>2. QED
      BY <1>1, <3>1 DEF ObRecords
  <2>7. ASSUME NEW p \in Objects
        PROVE  /\ Cardinality(SlotsOf(ob'.table, p))
                    = Cardinality(SlotsOf(ob.table, p)) + (IF p = o THEN 1 - 1 ELSE 0)
               /\ ob'.hnd[p] = Cardinality(SlotsOf(ob'.table, p))
    BY <2>4, <2>5, ObjectFacts, FiniteSlots
  <2>8. Starts(u, o, 1)
    BY <1>1, <1>7, <2>4, <2>5, <2>6, <2>7 DEF Starts
  <2>9. QED
    BY <1>1, <2>8, ThreadStarts
<1>8. QED
  BY <1>2, <1>5, <1>6, <1>7

\* A thread ends: it signals its object and gives it up.
LEMMA TerminateStep ==
    ASSUME IInv, NEW t \in Threads, KeTerminateThread(t), OthersTyped'
    PROVE  IInv'
<1>1. /\ termination \in [Threads -> Objects \cup {None}]
      /\ thread \in [Threads -> {"None", "Live", "Terminated"}] /\ ob \in ObRecords
  BY DEF IInv, TypeOK, ObRecords
<1>2. /\ thread' = [thread EXCEPT ![t] = "Terminated"] /\ wait' = wait
      /\ termination' = [termination EXCEPT ![t] = None]
  BY DEF KeTerminateThread
<1>3. \A u \in Threads : /\ thread'[u] = "None" => thread[u] = "None"
                         /\ termination'[u] = termination[u] \/ termination'[u] = None
  BY <1>1, <1>2
<1>4. CASE termination[t] = None
  <2>1. ob' = ob /\ termination' = termination
    BY <1>1, <1>2, <1>4 DEF KeTerminateThread
  <2>2. QED
    BY <1>1, <1>2, <1>3, <2>1, SameStep
<1>5. CASE termination[t] # None
  <2> DEFINE o == termination[t]
  <2>1. ob' = ObDereferenceObject(ob, <<o>>)
    BY <1>5 DEF KeTerminateThread
  <2>2. o \in Objects /\ SameBut(Threads, termination', termination, t) /\ termination'[t] = None
    BY <1>1, <1>2, <1>5 DEF SameBut
  <2>3. ASSUME NEW p \in Objects
        PROVE  /\ Times(<<o>>, p) \in Nat /\ IsFiniteSet(WaitsOf(wait', p))
               /\ Refs(ob.table, wait', termination', p) + Times(<<o>>, p)
                    = Refs(ob.table, wait, termination, p)
               /\ ob.hnd[p] = Cardinality(SlotsOf(ob.table, p))
    <3>1. Cardinality(ThreadsOf(termination, p))
            = Cardinality(ThreadsOf(termination', p)) + Same(termination[t], p)
      BY <2>2, ThreadTaken
    <3>2. Same(termination[t], p) = Times(<<o>>, p) /\ Times(<<o>>, p) \in Nat
      BY TimesOfOne DEF Same, One
    <3>3. IsFiniteSet(WaitsOf(wait, p)) /\ ob.hnd[p] = Cardinality(SlotsOf(ob.table, p))
      BY ObjectFacts
    <3>4. /\ Cardinality(SlotsOf(ob.table, p)) \in Nat /\ Cardinality(WaitsOf(wait, p)) \in Nat
          /\ Cardinality(ThreadsOf(termination', p)) \in Nat
      BY <3>3, RefsType
    <3> HIDE DEF o
    <3>5. QED
      BY <1>2, <3>1, <3>2, <3>3, <3>4 DEF Refs
  <2> HIDE DEF o
  <2>4. Releases(ob, <<o>>)
    BY <1>1, <1>2, <1>3, <2>1, <2>3 DEF Releases
  <2>5. QED
    BY <2>4, ReleaseStep
<1>6. QED
  BY <1>4, <1>5

\* A handle value names a slot or none.
LEMMA IndexOfHandle ==
    ASSUME NEW value \in Nat PROVE handle_to_index(value) \in Slots \cup {-1}
<1>1. value = 0 \/ value % 4 # 0 \/ value \div 4 >= 1
  OBVIOUS
<1>2. value \div 4 \in Nat
  OBVIOUS
<1>3. QED
  BY <1>1, <1>2, ObAssumption DEF handle_to_index, Slots

\* A handle that is valid stands for an object in its slot, which is in use.
LEMMA HandleNames ==
    ASSUME IInv, NEW value \in Nat, ObjectOf(ob, value) # None
    PROVE  /\ handle_to_index(value) \in Slots
           /\ ob.table[handle_to_index(value)] = ObjectOf(ob, value)
           /\ ObjectOf(ob, value) \in Objects /\ ob.ptr[ObjectOf(ob, value)] >= 1
<1>1. handle_to_index(value) \in Slots /\ ob.table[handle_to_index(value)] = ObjectOf(ob, value)
  BY IndexOfHandle DEF ObjectOf
<1>2. ob.table \in [Slots -> Objects \cup {None}]
  BY DEF IInv, TypeOK
<1>3. QED
  BY <1>1, <1>2, HeldIsLive

LEMMA CloseStep ==
    ASSUME IInv, NEW t \in Threads, NEW value \in Nat, NtClose(t, value), OthersTyped'
    PROVE  IInv'
<1> DEFINE o == ObjectOf(ob, value)
           i == handle_to_index(value)
           s == [ob EXCEPT !.table[i] = None, !.hnd[o] = @ - 1]
<1>1. i \in Slots /\ ob.table[i] = o /\ o \in Objects
  BY HandleNames DEF NtClose
<1>2. ob' = ObDereferenceObject(s, <<o>>) /\ UNCHANGED <<wait, thread, termination>>
  BY DEF NtClose, ObCloseHandle
<1> HIDE DEF o, i
<1>3. ob \in ObRecords
  BY DEF IInv, TypeOK, ObRecords
<1>4. Cardinality(SlotsOf(ob.table, o)) >= 1 /\ ob.hnd[o] - 1 \in Nat
  <2>1. Cardinality(SlotsOf(ob.table, o)) >= 1
    BY <1>1, SlotCounted
  <2>2. ob.hnd[o] = Cardinality(SlotsOf(ob.table, o)) /\ Cardinality(SlotsOf(ob.table, o)) \in Nat
    BY <1>1, ObjectFacts, FiniteSlots
  <2>3. QED
    BY <2>1, <2>2
<1>5. s.table = [ob.table EXCEPT ![i] = None] /\ s.hnd = [ob.hnd EXCEPT ![o] = ob.hnd[o] - 1]
  BY <1>1, <1>3 DEF ObRecords
<1>6. s.ptr = ob.ptr /\ s.type = ob.type /\ s.parent = ob.parent
  BY <1>1, <1>3 DEF ObRecords
<1>7. s \in ObRecords
  <2> DEFINE u == [ob EXCEPT !.table[i] = None]
  <2>1. u \in ObRecords
    BY <1>1, <1>3 DEF ObRecords
  <2>2. s = [u EXCEPT !.hnd[o] = ob.hnd[o] - 1]
    OBVIOUS
  <2> HIDE DEF u, s
  <2>3. QED
    BY <1>4, <2>1, <2>2 DEF ObRecords
<1> HIDE DEF s
<1>8. SameBut(Slots, s.table, ob.table, i) /\ s.table[i] = None
  BY <1>1, <1>3, <1>5 DEF SameBut, ObRecords
<1>9. ASSUME NEW p \in Objects
      PROVE  /\ Times(<<o>>, p) \in Nat /\ IsFiniteSet(WaitsOf(wait', p))
             /\ Refs(s.table, wait', termination', p) + Times(<<o>>, p)
                  = Refs(ob.table, wait, termination, p)
             /\ s.hnd[p] = Cardinality(SlotsOf(s.table, p))
  <2>1. Cardinality(SlotsOf(ob.table, p)) = Cardinality(SlotsOf(s.table, p)) + Same(ob.table[i], p)
    BY <1>1, <1>8, SlotTaken
  <2>2. /\ Same(ob.table[i], p) = (IF p = o THEN 1 ELSE 0)
        /\ Times(<<o>>, p) = (IF p = o THEN 1 ELSE 0)
    BY <1>1, TimesOfOne DEF Same, One
  <2>3. IsFiniteSet(WaitsOf(wait, p)) /\ ob.hnd[p] = Cardinality(SlotsOf(ob.table, p))
    BY ObjectFacts
  <2>4. /\ Cardinality(SlotsOf(s.table, p)) \in Nat /\ Cardinality(WaitsOf(wait, p)) \in Nat
        /\ Cardinality(ThreadsOf(termination, p)) \in Nat
    BY <2>3, RefsType
  <2>5. s.hnd[p] = ob.hnd[p] - (IF p = o THEN 1 ELSE 0)
    BY <1>3, <1>5, <2>3, <2>4, FiniteSlots DEF ObRecords
  <2>6. QED
    BY <1>2, <2>1, <2>2, <2>3, <2>4, <2>5 DEF Refs
<1>10. Releases(s, <<o>>)
  BY <1>2, <1>6, <1>7, <1>9 DEF Releases
<1>11. QED
  BY <1>10, ReleaseStep

-----------------------------------------------------------------------------
(* Waits *)

LEMMA PositionsOfList ==
    ASSUME NEW held \in Seq(Objects), NEW o
    PROVE  /\ IsFiniteSet(Positions(held, o))
           /\ Times(held, o) = Cardinality(Positions(held, o)) /\ Times(held, o) \in Nat
           /\ Times(held, o) > 0 => \E i \in DOMAIN held : held[i] = o
<1>1. Positions(held, o) \in SUBSET (1..Len(held)) /\ IsFiniteSet(1..Len(held))
  BY FS_Interval DEF Positions
<1>2. IsFiniteSet(Positions(held, o)) /\ Cardinality(Positions(held, o)) \in Nat
  BY <1>1, FS_Subset, FS_CardinalityType
<1>3. Times(held, o) = Cardinality(Positions(held, o))
  BY DEF Times, Positions
<1>4. ASSUME Times(held, o) > 0 PROVE \E i \in DOMAIN held : held[i] = o
  <2>1. Positions(held, o) # {}
    BY <1>2, <1>3, <1>4, FS_EmptySet
  <2>2. QED
    BY <2>1 DEF Positions
<1>5. QED
  BY <1>2, <1>3, <1>4

LEMMA ReturnStep ==
    ASSUME IInv, NEW t \in Threads, WaitReturns(t), OthersTyped'
    PROVE  IInv'
<1> DEFINE held == wait[t]
<1>1. wait \in [Threads -> Seq(Objects)] /\ held \in Seq(Objects) /\ ob \in ObRecords
  BY DEF IInv, TypeOK, ObRecords
<1>2. /\ ob' = ObDereferenceObject(ob, held) /\ wait' = [wait EXCEPT ![t] = <<>>]
      /\ UNCHANGED <<thread, termination>>
  BY DEF WaitReturns
<1>3. wait'[t] = <<>> /\ SameBut(Threads, wait', wait, t)
  BY <1>1, <1>2 DEF SameBut
<1>4. ASSUME NEW p \in Objects
      PROVE  /\ Times(held, p) \in Nat /\ IsFiniteSet(WaitsOf(wait', p))
             /\ Refs(ob.table, wait', termination', p) + Times(held, p)
                  = Refs(ob.table, wait, termination, p)
             /\ ob.hnd[p] = Cardinality(SlotsOf(ob.table, p))
  <2>1. IsFiniteSet(WaitsOf(wait, p)) /\ ob.hnd[p] = Cardinality(SlotsOf(ob.table, p))
    BY ObjectFacts
  <2>2. WaitsOf(wait', p) \in SUBSET WaitsOf(wait, p)
    <3>1. ASSUME NEW x \in WaitsOf(wait', p) PROVE x \in WaitsOf(wait, p)
      <4>1. PICK u \in Threads : x \in {<<"wait", u, i>> : i \in {i \in DOMAIN wait'[u] : wait'[u][i] = p}}
        BY <3>1 DEF WaitsOf
      <4>2. wait'[u] = wait[u]
        BY <1>3, <4>1 DEF SameBut
      <4>3. QED
        BY <4>1, <4>2 DEF WaitsOf
    <3>2. QED
      BY <3>1
  <2>3. IsFiniteSet(WaitsOf(wait', p))
    BY <2>1, <2>2, FS_Subset
  <2>4. /\ IsFiniteSet(Positions(wait[t], p)) /\ Times(held, p) = Cardinality(Positions(wait[t], p))
        /\ Times(held, p) \in Nat
    BY <1>1, PositionsOfList
  <2>5. Cardinality(WaitsOf(wait, p))
          = Cardinality(WaitsOf(wait', p)) + Cardinality(Positions(wait[t], p))
    BY <1>3, <2>3, <2>4, WaitAdded
  <2>6. /\ Cardinality(SlotsOf(ob.table, p)) \in Nat /\ Cardinality(WaitsOf(wait', p)) \in Nat
        /\ Cardinality(ThreadsOf(termination, p)) \in Nat
    BY <2>3, RefsType
  <2> HIDE DEF held
  <2>7. QED
    BY <1>2, <2>1, <2>3, <2>4, <2>5, <2>6 DEF Refs
<1> HIDE DEF held
<1>5. Releases(ob, held)
  BY <1>1, <1>2, <1>3, <1>4 DEF Releases, SameBut
<1>6. QED
  BY <1>5, ReleaseStep

\* What a wait has referenced when it stops: objects in use that can be waited for.
LEMMA ReferencedObjects ==
    ASSUME IInv, NEW values \in Seq(Nat)
    PROVE  LET held == Referenced(ob, values)
           IN  /\ held \in Seq(Objects)
               /\ \A i \in DOMAIN held : ob.type[held[i]] \in Waitable /\ ob.ptr[held[i]] >= 1
<1> DEFINE ok(i) == /\ ObjectOf(ob, values[i]) # None
                    /\ ob.type[ObjectOf(ob, values[i])] \in Waitable
           P == {i \in DOMAIN values : \A j \in 1..i : ok(j)}
           N == {i \in 1..(Len(values) + 1) : i \notin P}
           held == [i \in 1..Cardinality(P) |-> ObjectOf(ob, values[i])]
<1>1. Referenced(ob, values) = held
  BY DEF Referenced
<1>2. \A i \in P : i \in 1..Len(values) /\ ok(i)
  OBVIOUS
<1>3. \A i \in P : \A j \in 1..i : j \in P
  OBVIOUS
<1> HIDE DEF ok, P, held
<1>4. N \subseteq Nat /\ Len(values) + 1 \in N
  BY <1>2
<1>5. PICK k \in N : \A j \in N : <<j, k>> \notin OpToRel(<, Nat)
  BY <1>4, NatLessThanWellFounded, WFMin
<1>6. k \in 1..(Len(values) + 1) /\ k \notin P /\ \A j \in N : ~(j < k)
  BY <1>4, <1>5 DEF OpToRel
<1>7. P = 1..(k - 1)
  <2>1. ASSUME NEW i \in P PROVE i \in 1..(k - 1)
    BY <1>2, <1>3, <1>6
  <2>2. ASSUME NEW i \in 1..(k - 1) PROVE i \in P
    BY <1>6
  <2>3. QED
    BY <2>1, <2>2
<1>8. Cardinality(P) = k - 1 /\ 1..Cardinality(P) = P /\ Cardinality(P) \in Nat
  <2>1. Cardinality(1..(k - 1)) = k - 1
    <3>1. k - 1 \in Nat
      BY <1>6
    <3>2. QED
      BY <3>1, FS_Interval
  <2>2. QED
    BY <1>6, <1>7, <2>1
<1>9. ASSUME NEW i \in P
      PROVE  /\ ObjectOf(ob, values[i]) \in Objects /\ ob.ptr[ObjectOf(ob, values[i])] >= 1
             /\ ob.type[ObjectOf(ob, values[i])] \in Waitable
  <2>1. values[i] \in Nat /\ ok(i)
    BY <1>2
  <2>2. QED
    BY <2>1, HandleNames DEF ok
<1>10. held \in Seq(Objects) /\ DOMAIN held = P /\ \A i \in P : held[i] = ObjectOf(ob, values[i])
  BY <1>8, <1>9 DEF held
<1>11. QED
  BY <1>1, <1>9, <1>10

LEMMA ReferenceAllEffect ==
    ASSUME NEW s \in ObRecords, NEW held \in Seq(Objects)
    PROVE  LET r == ReferenceAll(s, held)
           IN  /\ r \in ObRecords
               /\ \A o \in Objects : r.ptr[o] = s.ptr[o] + Times(held, o)
               /\ r.type = s.type /\ r.hnd = s.hnd /\ r.parent = s.parent /\ r.table = s.table
<1> DEFINE ptr == [o \in Objects |-> s.ptr[o] + Times(held, o)]
<1>1. \A o \in Objects : Times(held, o) \in Nat /\ s.ptr[o] \in Nat
  BY PositionsOfList DEF ObRecords
<1>2. ptr \in [Objects -> Nat] /\ \A o \in Objects : ptr[o] = s.ptr[o] + Times(held, o)
  BY <1>1
<1>3. ReferenceAll(s, held) = [s EXCEPT !.ptr = ptr]
  BY DEF ReferenceAll
<1> HIDE DEF ptr
<1>4. QED
  BY <1>2, <1>3 DEF ObRecords

\* The thread t blocks with references on the objects of held.
Blocks(t, held) ==
    /\ wait[t] = <<>> /\ \A i \in DOMAIN held : ob.type[held[i]] \in Waitable
    /\ ob' = ReferenceAll(ob, held) /\ wait' = [wait EXCEPT ![t] = held]
    /\ UNCHANGED <<thread, termination>>

LEMMA BlockStep ==
    ASSUME IInv, OthersTyped', NEW t \in Threads, NEW held \in Seq(Objects), Blocks(t, held)
    PROVE  IInv'
<1>1. ob \in ObRecords /\ wait \in [Threads -> Seq(Objects)]
  BY DEF IInv, TypeOK, ObRecords
<1>2. /\ ob' \in ObRecords /\ \A o \in Objects : ob'.ptr[o] = ob.ptr[o] + Times(held, o)
      /\ ob'.type = ob.type /\ ob'.hnd = ob.hnd /\ ob'.parent = ob.parent /\ ob'.table = ob.table
  BY <1>1, ReferenceAllEffect DEF Blocks
<1>3. /\ wait[t] = <<>> /\ wait'[t] = held /\ SameBut(Threads, wait, wait', t)
      /\ UNCHANGED <<thread, termination>>
  BY <1>1 DEF SameBut, Blocks
<1>4. ASSUME NEW p \in Objects
      PROVE  /\ IsFiniteSet(WaitsOf(wait', p))
             /\ Refs(ob'.table, wait', termination', p)
                  = Refs(ob.table, wait, termination, p) + Times(held, p)
             /\ Times(held, p) \in Nat
  <2>1. /\ IsFiniteSet(Positions(wait'[t], p)) /\ Times(held, p) = Cardinality(Positions(wait'[t], p))
        /\ Times(held, p) \in Nat
    BY <1>3, PositionsOfList
  <2>2. IsFiniteSet(WaitsOf(wait, p))
    BY ObjectFacts
  <2>3. /\ IsFiniteSet(WaitsOf(wait', p))
        /\ Cardinality(WaitsOf(wait', p))
             = Cardinality(WaitsOf(wait, p)) + Cardinality(Positions(wait'[t], p))
    BY <1>3, <2>1, <2>2, WaitAdded
  <2>4. /\ Cardinality(SlotsOf(ob.table, p)) \in Nat /\ Cardinality(WaitsOf(wait, p)) \in Nat
        /\ Cardinality(ThreadsOf(termination, p)) \in Nat
    BY <2>2, RefsType
  <2>5. QED
    BY <1>2, <1>3, <2>1, <2>3, <2>4 DEF Refs
<1>5. TypeOK' /\ FiniteWaits'
  BY <1>2, <1>4 DEF TypeOK, ObRecords, OthersTyped, FiniteWaits
<1>6. CountsOK'
  <2>1. ASSUME NEW o \in Objects
        PROVE  /\ ob'.ptr[o] = Count(ob'.table, wait', termination', ob'.parent, o)
               /\ ob'.type[o] = "Free" <=> ob'.ptr[o] = 0
               /\ ob'.hnd[o] = Cardinality(SlotsOf(ob'.table, o))
    <3>1. ob'.ptr[o] = Count(ob'.table, wait', termination', ob'.parent, o)
      <4>1. One(ob.parent[o] # None) \in Nat /\ One(o \in {Root, Device}) \in Nat
        BY DEF One
      <4>2. /\ Refs(ob.table, wait, termination, o) \in Nat /\ ob.ptr[o] \in Nat
            /\ ob.ptr[o] = Refs(ob.table, wait, termination, o) + One(ob.parent[o] # None)
                              + One(o \in {Root, Device})
        BY ObjectFacts
      <4>3. QED
        BY <1>2, <1>4, <4>1, <4>2 DEF Count
    <3>2. ob'.type[o] = "Free" <=> ob'.ptr[o] = 0
      <4>1. ob.ptr[o] \in Nat /\ (ob.type[o] = "Free" <=> ob.ptr[o] = 0)
        BY ObjectFacts
      <4>2. Times(held, o) > 0 => ob.type[o] # "Free"
        BY PositionsOfList DEF Waitable, Blocks
      <4>3. QED
        BY <1>2, <1>4, <4>1, <4>2
    <3>3. ob'.hnd[o] = Cardinality(SlotsOf(ob'.table, o))
      BY <1>2, ObjectFacts
    <3>4. QED
      BY <3>1, <3>2, <3>3
  <2>2. QED
    BY <2>1 DEF CountsOK
<1>7. NamesOK' /\ NotCreated'
  BY <1>2, <1>3 DEF IInv, NamesOK, NotCreated
<1>8. PointersValid'
  BY <1>1, <1>2, <1>3 DEF IInv, PointersValid, SameBut, Blocks
<1>9. QED
  BY <1>5, <1>6, <1>7, <1>8 DEF IInv

\* A wait that is satisfied at once, or fails, gives back what it referenced.
LEMMA WaitedInVain ==
    ASSUME IInv, OthersTyped', NEW held \in Seq(Objects),
           \A i \in DOMAIN held : ob.ptr[held[i]] >= 1,
           ob' = ObDereferenceObject(ReferenceAll(ob, held), held),
           UNCHANGED <<wait, thread, termination>>
    PROVE  IInv'
<1> DEFINE s == ReferenceAll(ob, held)
<1>1. ob \in ObRecords /\ \A o \in Objects : ob.ptr[o] \in Nat
  BY DEF IInv, TypeOK, ObRecords
<1>2. /\ s \in ObRecords /\ \A o \in Objects : s.ptr[o] = ob.ptr[o] + Times(held, o)
      /\ s.type = ob.type /\ s.hnd = ob.hnd /\ s.parent = ob.parent /\ s.table = ob.table
  BY <1>1, ReferenceAllEffect
<1>3. \A o \in Objects : Times(held, o) \in Nat /\ (Times(held, o) > 0 => ob.ptr[o] >= 1)
  BY PositionsOfList
<1>4. \A o \in Objects : /\ Times(held, o) \in 0..s.ptr[o]
                         /\ ~(Times(held, o) > 0 /\ Times(held, o) = s.ptr[o])
  BY <1>1, <1>2, <1>3
<1> HIDE DEF s
<1>5. /\ ob' \in ObRecords
      /\ ob'.hnd = s.hnd /\ ob'.table = s.table
      /\ \A o \in Objects :
            /\ ob'.ptr[o] = s.ptr[o] - Times(held, o)
            /\ IF Times(held, o) > 0 /\ Times(held, o) = s.ptr[o]
               THEN ob'.type[o] = "Free" /\ ob'.parent[o] = None
               ELSE ob'.type[o] = s.type[o] /\ ob'.parent[o] = s.parent[o]
  BY <1>2, <1>4, DereferenceEffect DEF s
<1>6. \A o \in Objects : /\ ob'.ptr[o] = ob.ptr[o] /\ ob'.type[o] = ob.type[o]
                         /\ ob'.parent[o] = ob.parent[o]
  BY <1>1, <1>2, <1>3, <1>4, <1>5
<1>7. ob'.ptr = ob.ptr /\ ob'.type = ob.type /\ ob'.parent = ob.parent
  BY <1>1, <1>5, <1>6 DEF ObRecords
<1>8. QED
  BY <1>2, <1>5, <1>7, SameStep

LEMMA WaitStep ==
    ASSUME IInv, NEW t \in Threads, NEW values \in WaitHandles, NtWaitForMultipleObjects(t, values)
    PROVE  IInv'
<1> DEFINE held == Referenced(ob, values)
<1>1. values \in Seq(Nat)
  BY ObAssumption
<1>2. /\ held \in Seq(Objects)
      /\ \A i \in DOMAIN held : ob.type[held[i]] \in Waitable /\ ob.ptr[held[i]] >= 1
  BY <1>1, ReferencedObjects
<1>3. /\ wait[t] = <<>> /\ UNCHANGED <<thread, termination, inputEvent>>
      /\ \/ ob' = ReferenceAll(ob, held) /\ wait' = [wait EXCEPT ![t] = held]
         \/ ob' = ObDereferenceObject(ReferenceAll(ob, held), held) /\ wait' = wait
  BY DEF NtWaitForMultipleObjects, Calls
<1> HIDE DEF held
<1>4. OthersTyped'
  BY <1>2, <1>3 DEF IInv, TypeOK, OthersTyped
<1>5. CASE ob' = ReferenceAll(ob, held) /\ wait' = [wait EXCEPT ![t] = held]
  <2>1. Blocks(t, held)
    BY <1>2, <1>3, <1>5 DEF Blocks
  <2>2. QED
    BY <1>2, <1>4, <2>1, BlockStep
<1>6. CASE ob' = ObDereferenceObject(ReferenceAll(ob, held), held) /\ wait' = wait
  BY <1>2, <1>3, <1>4, <1>6, WaitedInVain
<1>7. QED
  BY <1>3, <1>5, <1>6

\* The first input event of a queue is an event like others.
LEMMA InputStep ==
    ASSUME IInv, NEW t \in Threads, KiUserGetInputEvent(t)
    PROVE  IInv'
<1>1. /\ UNCHANGED <<wait, thread, termination>> /\ ob' = CreateWithHandle(ob, "Event")
      /\ inputEvent' = [inputEvent EXCEPT ![t] =
                           IF CanCreateHandle(ob) THEN Allocate(ob) ELSE None]
      /\ Allocate(ob) # None /\ "Event" \in Types
  BY DEF KiUserGetInputEvent, Types, Waitable
<1>2. Allocate(ob) \in Objects
  BY <1>1, AllocateIsFree
<1>3. OthersTyped'
  BY <1>1, <1>2 DEF IInv, TypeOK, OthersTyped
<1>4. QED
  BY <1>1, <1>3, CreateStep

-----------------------------------------------------------------------------
(* The invariant holds *)

LEMMA InitIInv == Init => IInv
<1> SUFFICES ASSUME Init PROVE IInv
  OBVIOUS
<1> DEFINE root == ObCreateObject(NoObjects, Root, "Directory")
           d1 == ObCreateObject(root, Device, "Directory")
           device == ObInsertObjectByName(d1, Root, Device)
           c1 == ObCreateObject(device, Console, "File")
           console == ObInsertObjectByName(c1, Device, Console)
<1>1. ob = ObDereferenceObject(console, <<Console>>)
  BY DEF Init, Boot, ObCreateDirectory
<1> HIDE DEF root, d1, device, c1, console
<1>2. /\ Root \in Objects /\ Device \in Objects /\ Console \in Objects
      /\ "Directory" \in Types /\ "File" \in Types
  BY ObAssumption DEF Types
<1>3. NoObjects \in ObRecords
  BY DEF NoObjects, ObRecords
<1>4. /\ root \in ObRecords /\ root.table = NoObjects.table
      /\ \A o \in Objects :
            /\ root.type[o] = IF o = Root THEN "Directory" ELSE "Free"
            /\ root.ptr[o] = IF o = Root THEN 1 ELSE 0
            /\ root.hnd[o] = 0
            /\ root.parent[o] = None
  <2>1. /\ root \in ObRecords /\ root.type = [NoObjects.type EXCEPT ![Root] = "Directory"]
        /\ root.ptr = [NoObjects.ptr EXCEPT ![Root] = 1]
        /\ root.hnd = [NoObjects.hnd EXCEPT ![Root] = 0]
        /\ root.parent = [NoObjects.parent EXCEPT ![Root] = None]
        /\ root.table = NoObjects.table
    BY <1>2, <1>3, CreateEffect DEF root
  <2>2. QED
    BY <1>2, <2>1 DEF NoObjects
<1>5. /\ d1 \in ObRecords /\ d1.table = NoObjects.table
      /\ \A o \in Objects :
            /\ d1.type[o] = IF o \in {Root, Device} THEN "Directory" ELSE "Free"
            /\ d1.ptr[o] = IF o \in {Root, Device} THEN 1 ELSE 0
            /\ d1.hnd[o] = 0
            /\ d1.parent[o] = None
  <2>1. /\ d1 \in ObRecords /\ d1.type = [root.type EXCEPT ![Device] = "Directory"]
        /\ d1.ptr = [root.ptr EXCEPT ![Device] = 1]
        /\ d1.hnd = [root.hnd EXCEPT ![Device] = 0]
        /\ d1.parent = [root.parent EXCEPT ![Device] = None]
        /\ d1.table = NoObjects.table
    BY <1>2, <1>4, CreateEffect DEF d1
  <2>2. QED
    BY <1>2, <1>4, <2>1 DEF ObRecords
<1>6. /\ device \in ObRecords /\ device.table = NoObjects.table
      /\ \A o \in Objects :
            /\ device.type[o] = IF o \in {Root, Device} THEN "Directory" ELSE "Free"
            /\ device.ptr[o] = IF o = Root THEN 1 ELSE IF o = Device THEN 2 ELSE 0
            /\ device.hnd[o] = 0
            /\ device.parent[o] = IF o = Device THEN Root ELSE None
  <2> DEFINE r == ObReferenceObject(d1, Device)
  <2>1. /\ r \in ObRecords /\ r.ptr = [d1.ptr EXCEPT ![Device] = d1.ptr[Device] + 1]
        /\ r.type = d1.type /\ r.hnd = d1.hnd /\ r.parent = d1.parent /\ r.table = d1.table
    BY <1>2, <1>5, ReferenceEffect
  <2>2. device = [r EXCEPT !.parent[Device] = Root]
    BY DEF device, ObInsertObjectByName
  <2> HIDE DEF r
  <2>3. /\ device \in ObRecords /\ device.type = d1.type /\ device.hnd = d1.hnd
        /\ device.table = d1.table /\ device.ptr = [d1.ptr EXCEPT ![Device] = d1.ptr[Device] + 1]
        /\ device.parent = [d1.parent EXCEPT ![Device] = Root]
    BY <1>2, <2>1, <2>2 DEF ObRecords
  <2>4. QED
    BY <1>2, <1>5, <2>3, ObAssumption DEF ObRecords
<1>7. /\ c1 \in ObRecords /\ c1.table = NoObjects.table
      /\ \A o \in Objects :
            /\ c1.type[o] = IF o \in {Root, Device} THEN "Directory"
                                ELSE IF o = Console THEN "File" ELSE "Free"
            /\ c1.ptr[o] = IF o \in {Root, Console} THEN 1 ELSE IF o = Device THEN 2 ELSE 0
            /\ c1.hnd[o] = 0
            /\ c1.parent[o] = IF o = Device THEN Root ELSE None
  <2>1. /\ c1 \in ObRecords /\ c1.type = [device.type EXCEPT ![Console] = "File"]
        /\ c1.ptr = [device.ptr EXCEPT ![Console] = 1]
        /\ c1.hnd = [device.hnd EXCEPT ![Console] = 0]
        /\ c1.parent = [device.parent EXCEPT ![Console] = None]
        /\ c1.table = NoObjects.table
    BY <1>2, <1>6, CreateEffect DEF c1
  <2>2. QED
    BY <1>2, <1>6, <2>1, ObAssumption DEF ObRecords
<1>8. /\ console \in ObRecords /\ console.table = NoObjects.table
      /\ \A o \in Objects :
            /\ console.type[o] = c1.type[o] /\ console.hnd[o] = 0
            /\ console.ptr[o] = IF o = Root THEN 1 ELSE IF o \in {Device, Console} THEN 2 ELSE 0
            /\ console.parent[o] = IF o = Device THEN Root ELSE IF o = Console THEN Device ELSE None
  <2> DEFINE r == ObReferenceObject(c1, Console)
  <2>1. /\ r \in ObRecords /\ r.ptr = [c1.ptr EXCEPT ![Console] = c1.ptr[Console] + 1]
        /\ r.type = c1.type /\ r.hnd = c1.hnd /\ r.parent = c1.parent /\ r.table = c1.table
    BY <1>2, <1>7, ReferenceEffect
  <2>2. console = [r EXCEPT !.parent[Console] = Device]
    BY DEF console, ObInsertObjectByName
  <2> HIDE DEF r
  <2>3. /\ console \in ObRecords /\ console.type = c1.type /\ console.hnd = c1.hnd
        /\ console.table = c1.table /\ console.ptr = [c1.ptr EXCEPT ![Console] = c1.ptr[Console] + 1]
        /\ console.parent = [c1.parent EXCEPT ![Console] = Device]
    BY <1>2, <2>1, <2>2 DEF ObRecords
  <2>4. QED
    BY <1>2, <1>7, <2>3, ObAssumption DEF ObRecords
<1>9. console.ptr[Console] = 2 /\ console.ptr[Console] >= 1 /\ console.ptr[Console] > 1
  BY <1>2, <1>8, ObAssumption
<1>10. Dropped(console, ob, Console)
  BY <1>1, <1>2, <1>8, <1>9, DropEffect
<1>11. /\ ob \in ObRecords /\ ob.table = NoObjects.table /\ ob.type = console.type
       /\ ob.parent = console.parent /\ ob.hnd = console.hnd
       /\ ob.ptr = [console.ptr EXCEPT ![Console] = 2 - 1]
  BY <1>8, <1>9, <1>10 DEF Dropped
<1>12. \A o \in Objects :
          /\ ob.type[o] = IF o \in {Root, Device} THEN "Directory"
                             ELSE IF o = Console THEN "File" ELSE "Free"
          /\ ob.ptr[o] = IF o \in {Root, Console} THEN 1 ELSE IF o = Device THEN 2 ELSE 0
          /\ ob.hnd[o] = 0
          /\ ob.parent[o] = IF o = Device THEN Root ELSE IF o = Console THEN Device ELSE None
  BY <1>2, <1>7, <1>8, <1>11, ObAssumption DEF ObRecords
<1>13. TypeOK
  BY <1>11, ObAssumption DEF Init, TypeOK, ObRecords
<1>14. NamesOK
  BY <1>2, <1>12 DEF NamesOK
<1>15. PointersValid /\ NotCreated
  BY DEF Init, PointersValid, NotCreated
<1>16. ASSUME NEW o \in Objects
       PROVE  /\ WaitsOf(wait, o) = {} /\ SlotsOf(ob.table, o) = {} /\ ThreadsOf(termination, o) = {}
              /\ IsFiniteSet(WaitsOf(wait, o))
  <2>1. WaitsOf(wait, o) = {}
    <3>1. \A t \in Threads : wait[t] = <<>>
      BY DEF Init
    <3>2. \A t \in Threads : {i \in DOMAIN wait[t] : wait[t][i] = o} = {}
      BY <3>1
    <3>3. QED
      BY <3>2 DEF WaitsOf
  <2>2. SlotsOf(ob.table, o) = {}
    BY <1>11, ObAssumption DEF SlotsOf, NoObjects
  <2>3. ThreadsOf(termination, o) = {}
    BY ObAssumption DEF Init, ThreadsOf
  <2>4. QED
    BY <2>1, <2>2, <2>3, FS_EmptySet
<1>17. FiniteWaits
  BY <1>16 DEF FiniteWaits
<1>18. CountsOK
  <2>1. ASSUME NEW o \in Objects
        PROVE  /\ ob.ptr[o] = Count(ob.table, wait, termination, ob.parent, o)
               /\ ob.type[o] = "Free" <=> ob.ptr[o] = 0
               /\ ob.hnd[o] = Cardinality(SlotsOf(ob.table, o))
    <3>1. Refs(ob.table, wait, termination, o) = 0 /\ Cardinality(SlotsOf(ob.table, o)) = 0
      BY <1>16, FS_EmptySet DEF Refs
    <3>2. ob.ptr[o] = One(ob.parent[o] # None) + One(o \in {Root, Device})
      BY <1>2, <1>12, ObAssumption DEF One
    <3>3. ob.type[o] = "Free" <=> ob.ptr[o] = 0
      BY <1>12
    <3>4. One(ob.parent[o] # None) \in Nat /\ One(o \in {Root, Device}) \in Nat
      BY DEF One
    <3>5. QED
      BY <1>12, <3>1, <3>2, <3>3, <3>4 DEF Count
  <2>2. QED
    BY <2>1 DEF CountsOK
<1>19. QED
  BY <1>13, <1>14, <1>15, <1>17, <1>18 DEF IInv

LEMMA NextIInv == IInv /\ [Next]_vars => IInv'
<1> SUFFICES ASSUME IInv, [Next]_vars PROVE IInv'
  OBVIOUS
<1>1. OthersTyped
  BY DEF IInv, TypeOK, OthersTyped
<1>2. CASE UNCHANGED vars
  <2>1. UNCHANGED ob /\ UNCHANGED <<wait, thread, termination, inputEvent>>
    BY <1>2 DEF vars
  <2>2. ob' \in ObRecords /\ OthersTyped'
    BY <1>1, <2>1 DEF IInv, TypeOK, ObRecords, OthersTyped
  <2>3. QED
    BY <2>1, <2>2, SameStep
<1>3. ASSUME NEW t \in Threads,
             \/ NtCreateEvent(t) \/ NtCreateSemaphore(t) \/ cm_make_handle(t)
      PROVE  IInv'
  <2>1. PICK type \in {"Event", "Semaphore", "Key"} : ob' = CreateWithHandle(ob, type)
    BY <1>3 DEF NtCreateEvent, NtCreateSemaphore, cm_make_handle
  <2>2. UNCHANGED <<wait, thread, termination, inputEvent>>
    BY <1>3 DEF NtCreateEvent, NtCreateSemaphore, cm_make_handle
  <2>3. OthersTyped' /\ type \in Types
    BY <1>1, <2>2 DEF OthersTyped, Types, Waitable
  <2>4. QED
    BY <2>1, <2>2, <2>3, CreateStep
<1>4. ASSUME NEW t \in Threads, NEW path \in Paths, NtCreateFile(t, path) PROVE IInv'
  <2>1. OthersTyped'
    BY <1>1, <1>4 DEF NtCreateFile, OthersTyped
  <2>2. QED
    BY <1>4, <2>1, FileStep
<1>5. ASSUME NEW t \in Threads, NEW u \in Threads, NtCreateThreadEx(t, u) PROVE IInv'
  <2>1. Allocate(ob) \in Objects
    BY <1>5, AllocateIsFree DEF NtCreateThreadEx
  <2>2. /\ UNCHANGED <<wait, inputEvent>>
        /\ \/ UNCHANGED <<thread, termination>>
           \/ /\ thread' = [thread EXCEPT ![u] = "Live"]
              /\ termination' = [termination EXCEPT ![u] = Allocate(ob)]
    BY <1>5 DEF NtCreateThreadEx
  <2>3. OthersTyped'
    BY <1>1, <2>1, <2>2 DEF OthersTyped
  <2>4. QED
    BY <1>5, <2>3, ThreadStep
<1>6. ASSUME NEW t \in Threads, KeTerminateThread(t) PROVE IInv'
  <2>1. OthersTyped'
    BY <1>1, <1>6 DEF KeTerminateThread, OthersTyped
  <2>2. QED
    BY <1>6, <2>1, TerminateStep
<1>7. ASSUME NEW t \in Threads, NEW value \in HandleValues, NtClose(t, value) PROVE IInv'
  <2>1. OthersTyped' /\ value \in Nat
    BY <1>1, <1>7 DEF NtClose, OthersTyped, HandleValues
  <2>2. QED
    BY <1>7, <2>1, CloseStep
<1>8. ASSUME NEW t \in Threads, NEW value \in HandleValues, ObReferenceObjectByHandle(t, value)
      PROVE  IInv'
  <2> DEFINE o == ObjectOf(ob, value)
  <2>1. /\ o # None /\ ob' = ObDereferenceObject(ObReferenceObject(ob, o), <<o>>)
        /\ UNCHANGED <<wait, thread, termination, inputEvent>>
    BY <1>8 DEF ObReferenceObjectByHandle
  <2>2. OthersTyped' /\ value \in Nat
    BY <1>1, <2>1 DEF OthersTyped, HandleValues
  <2>3. o \in Objects /\ ob.ptr[o] >= 1
    BY <2>1, <2>2, HandleNames
  <2> HIDE DEF o
  <2>4. QED
    BY <2>1, <2>2, <2>3, ReferencedInVain
<1>9. ASSUME NEW t \in Threads, NEW values \in WaitHandles, NtWaitForMultipleObjects(t, values)
      PROVE  IInv'
  BY <1>9, WaitStep
<1>10. ASSUME NEW t \in Threads, WaitReturns(t) PROVE IInv'
  <2>1. OthersTyped'
    BY <1>1, <1>10 DEF WaitReturns, OthersTyped
  <2>2. QED
    BY <1>10, <2>1, ReturnStep
<1>11. ASSUME NEW t \in Threads, KiUserGetInputEvent(t) PROVE IInv'
  BY <1>11, InputStep
<1>12. QED
  BY <1>2, <1>3, <1>4, <1>5, <1>6, <1>7, <1>8, <1>9, <1>10, <1>11 DEF Next

\* The invariant by which the counts of all objects are kept: the types, the
\* counts split by kind of holder, the namespace, and the pointers of waits and
\* threads.
THEOREM ObjectInvariant == Spec => []IInv
<1>1. QED
  BY InitIInv, NextIInv, PTL DEF Spec

\* The pointer count of every object is the number of those who hold it, and
\* memory is free exactly when nobody does (ObReferenceObject,
\* ObDereferenceObject and every service that calls them).
THEOREM PointersAreCounted == Spec => []PointerCountExact
<1>1. IInv => PointerCountExact
  <2>1. ASSUME IInv, NEW o \in Objects
        PROVE  /\ ob.ptr[o] = Cardinality(Holders(o))
               /\ ob.type[o] = "Free" <=> ob.ptr[o] = 0
    <3>1. Cardinality(Holders(o)) = Count(ob.table, wait, termination, ob.parent, o)
      BY <2>1, HoldersCount DEF IInv, FiniteWaits
    <3>2. QED
      BY <2>1, <3>1 DEF IInv, CountsOK
  <2>2. QED
    BY <2>1 DEF PointerCountExact
<1>2. QED
  BY <1>1, ObjectInvariant, PTL

\* The handle count of every object is the number of its slots in the table
\* (ObCreateHandle, ObCloseHandle).
THEOREM HandlesAreCounted == Spec => []HandleCountExact
<1>1. IInv => HandleCountExact
  BY DEF IInv, CountsOK, HandleCountExact, SlotsOf
<1>2. QED
  BY <1>1, ObjectInvariant, PTL

\* What a blocked thread waits for can be waited for, and what a thread will
\* signal when it ends is a thread object, although handles are closed
\* meanwhile and memory is used again (NtWaitForMultipleObjects,
\* KeTerminateThread).
THEOREM PointersStayValid == Spec => []PointersValid
<1>1. IInv => PointersValid
  BY DEF IInv
<1>2. QED
  BY <1>1, ObjectInvariant, PTL

\* The console is found in its directory as long as the system runs
\* (ObLookupObjectByName, ObDereferenceObject).
THEOREM NamespaceIsKept == Spec => []NamespaceStays
<1>1. IInv => NamespaceStays
  <2> SUFFICES ASSUME IInv PROVE NamespaceStays
    OBVIOUS
  <2>1. /\ ob.parent[Device] = Root /\ ob.parent[Console] = Device
        /\ ob.type[Root] = "Directory" /\ ob.type[Device] = "Directory"
    BY ObAssumption DEF IInv, NamesOK
  <2>2. \A i \in DOMAIN <<Device, Console>> :
           /\ ob.parent[<<Device, Console>>[i]] = IF i = 1 THEN Root ELSE <<Device, Console>>[i - 1]
           /\ ob.type[IF i = 1 THEN Root ELSE <<Device, Console>>[i - 1]] = "Directory"
    <3>1. ASSUME NEW i \in {1, 2}
          PROVE /\ ob.parent[<<Device, Console>>[i]] = IF i = 1 THEN Root ELSE <<Device, Console>>[i - 1]
                /\ ob.type[IF i = 1 THEN Root ELSE <<Device, Console>>[i - 1]] = "Directory"
      BY <2>1
    <3>2. QED
      BY <3>1
  <2>3. QED
    BY <2>2 DEF NamespaceStays, ObLookupObjectByName
<1>2. QED
  BY <1>1, ObjectInvariant, PTL
=============================================================================
