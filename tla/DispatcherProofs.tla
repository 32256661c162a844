-------------------------- MODULE DispatcherProofs --------------------------
(***************************************************************************)
(* Proofs about Dispatcher, for any number of threads and objects and any  *)
(* set of wait lists.                                                      *)
(***************************************************************************)
EXTENDS Dispatcher, FiniteSetTheorems, FunctionTheorems, TLAPS

-----------------------------------------------------------------------------
(* Lists *)

\* The ranks of a finite set of positions K are 1..Cardinality(K), each once:
\* Nth and Rank are inverse to each other.
LEMMA NthRank ==
    ASSUME NEW n \in Nat, NEW K \in SUBSET (1..n)
    PROVE  /\ IsFiniteSet(K)
           /\ Cardinality(K) \in Nat
           /\ \A i \in K : /\ Rank(K, i) \in 1..Cardinality(K)
                           /\ Nth(K, Rank(K, i)) = i
           /\ \A k \in 1..Cardinality(K) : /\ Nth(K, k) \in K
                                           /\ Rank(K, Nth(K, k)) = k
<1> DEFINE below(i) == {j \in K : j <= i}
           rk == [i \in K |-> Rank(K, i)]
           card == Cardinality(K)
<1>1. IsFiniteSet(K) /\ card \in Nat
  <2>1. IsFiniteSet(1..n)
    BY FS_Interval
  <2>2. QED
    BY <2>1, FS_Subset, FS_CardinalityType
<1>2. ASSUME NEW i \in K
      PROVE  /\ IsFiniteSet(below(i)) /\ Cardinality(below(i)) \in Nat
             /\ Cardinality(below(i)) <= card
             /\ Cardinality(below(i)) > 0
  <2>1. below(i) \in SUBSET K
    OBVIOUS
  <2>2. IsFiniteSet(below(i)) /\ Cardinality(below(i)) <= card
    BY <1>1, <2>1, FS_Subset
  <2>3. Cardinality(below(i)) \in Nat
    BY <2>2, FS_CardinalityType
  <2>4. i \in below(i)
    OBVIOUS
  <2>5. Cardinality(below(i)) # 0
    BY <2>2, <2>4, FS_EmptySet
  <2>6. QED
    BY <2>2, <2>3, <2>5
<1>3. \A i \in K : rk[i] \in 1..card
  BY <1>1, <1>2 DEF Rank
<1>4. ASSUME NEW i \in K, NEW j \in K, i < j
      PROVE  Rank(K, i) < Rank(K, j)
  <2>0. i \in Int /\ j \in Int /\ \A m \in K : m \in Int
    OBVIOUS
  <2>1. below(i) \in SUBSET below(j)
    <3> SUFFICES ASSUME NEW m \in K, m <= i
                 PROVE  m <= j
      OBVIOUS
    <3> QED
      BY <1>4, <2>0
  <2>2. below(i) # below(j)
    BY <1>4
  <2>3. /\ Cardinality(below(i)) <= Cardinality(below(j))
        /\ Cardinality(below(i)) = Cardinality(below(j)) => below(i) = below(j)
    BY <1>2, <2>1, FS_Subset
  <2>4. QED
    BY <1>2, <2>2, <2>3 DEF Rank
<1>5. \A i, j \in K : Rank(K, i) = Rank(K, j) => i = j
  <2> SUFFICES ASSUME NEW i \in K, NEW j \in K, i # j
               PROVE  Rank(K, i) # Rank(K, j)
    OBVIOUS
  <2>1. i \in Int /\ j \in Int
    OBVIOUS
  <2>2. CASE i < j
    BY <1>3, <1>4, <2>2
  <2>3. CASE j < i
    BY <1>3, <1>4, <2>3
  <2>4. QED
    BY <2>1, <2>2, <2>3
<1>7. \A k \in 1..card : \E i \in K : Rank(K, i) = k
  <2> DEFINE R == {rk[i] : i \in K}
  <2>1. rk \in Bijection(K, R)
    BY <1>5 DEF Bijection, Injection, Surjection, IsInjective
  <2>2. R \in SUBSET (1..card)
    BY <1>3
  <2>3. IsFiniteSet(1..card) /\ Cardinality(1..card) = card
    BY <1>1, FS_Interval
  <2>4. IsFiniteSet(R)
    BY <2>2, <2>3, FS_Subset
  <2>5. Cardinality(R) = card
    <3>1. ExistsBijection(K, R)
      BY <2>1 DEF ExistsBijection
    <3> HIDE DEF R
    <3>2. QED
      BY <1>1, <3>1, FS_Bijection
  <2>6. R = 1..card
    BY <2>2, <2>3, <2>5, FS_Subset
  <2>7. QED
    BY <2>6
<1>8. ASSUME NEW k \in 1..card
      PROVE  Nth(K, k) \in K /\ Rank(K, Nth(K, k)) = k
  BY <1>7 DEF Nth
<1>9. QED
  BY <1>1, <1>3, <1>5, <1>8

\* Keeping the positions K of a list keeps exactly the entries at K; a list
\* that repeats no entry among K yields one without repetitions.
LEMMA KeepProperties ==
    ASSUME NEW S, NEW q \in Seq(S), NEW K \in SUBSET (DOMAIN q)
    PROVE  /\ Keep(q, K) \in Seq(S)
           /\ DOMAIN Keep(q, K) = 1..Cardinality(K)
           /\ Cardinality(K) \in Nat
           /\ Entries(Keep(q, K)) = {q[i] : i \in K}
           /\ (\A i, j \in K : q[i] = q[j] => i = j) => NoRepeats(Keep(q, K))
<1>1. Len(q) \in Nat /\ DOMAIN q = 1..Len(q)
  OBVIOUS
<1>2. K \in SUBSET (1..Len(q))
  BY <1>1
<1>3. /\ Cardinality(K) \in Nat
      /\ \A i \in K : /\ Rank(K, i) \in 1..Cardinality(K)
                      /\ Nth(K, Rank(K, i)) = i
      /\ \A k \in 1..Cardinality(K) : /\ Nth(K, k) \in K
                                      /\ Rank(K, Nth(K, k)) = k
  BY <1>1, <1>2, NthRank
<1>4. \A k \in 1..Cardinality(K) : q[Nth(K, k)] \in S
  BY <1>3
<1>5. Keep(q, K) \in Seq(S)
  BY <1>3, <1>4 DEF Keep
<1>6. DOMAIN Keep(q, K) = 1..Cardinality(K)
  BY DEF Keep
<1>7. Entries(Keep(q, K)) = {q[i] : i \in K}
  <2>1. ASSUME NEW k \in 1..Cardinality(K)
        PROVE  Keep(q, K)[k] \in {q[i] : i \in K}
    BY <1>3 DEF Keep
  <2>2. ASSUME NEW i \in K
        PROVE  q[i] = Keep(q, K)[Rank(K, i)]
    BY <1>3 DEF Keep
  <2>3. QED
    BY <1>3, <1>6, <2>1, <2>2 DEF Entries
<1>8. ASSUME \A i, j \in K : q[i] = q[j] => i = j
      PROVE  NoRepeats(Keep(q, K))
  <2> SUFFICES ASSUME NEW k \in 1..Cardinality(K), NEW l \in 1..Cardinality(K),
                      Keep(q, K)[k] = Keep(q, K)[l]
               PROVE  k = l
    BY <1>6 DEF NoRepeats
  <2>1. q[Nth(K, k)] = q[Nth(K, l)]
    BY DEF Keep
  <2>2. Nth(K, k) = Nth(K, l)
    BY <1>3, <1>8, <2>1
  <2>3. QED
    BY <1>3, <2>2
<1>9. QED
  BY <1>3, <1>5, <1>6, <1>7, <1>8

\* A nonempty set of positions has a first one.
LEMMA FirstPosition ==
    ASSUME NEW n \in Nat, NEW P \in SUBSET (1..n), P # {}
    PROVE  \E i \in P : \A j \in P : i <= j
<1>1. /\ IsFiniteSet(P)
      /\ Cardinality(P) \in Nat
      /\ \A k \in 1..Cardinality(P) : Nth(P, k) \in P /\ Rank(P, Nth(P, k)) = k
  BY NthRank
<1>2. Cardinality(P) # 0
  BY <1>1, FS_EmptySet
<1> DEFINE i == Nth(P, 1)
           B == {j \in P : j <= i}
<1>3. i \in P /\ Cardinality(B) = 1
  BY <1>1, <1>2 DEF Rank
<1>0. i \in Int /\ \A j \in P : j \in Int
  <2>1. \A j \in P : j \in Int
    OBVIOUS
  <2> HIDE DEF i
  <2> QED
    BY <1>3, <2>1
<1>4. IsFiniteSet(B) /\ {i} \in SUBSET B
  <2>1. B \in SUBSET P
    OBVIOUS
  <2>2. i <= i
    <3> HIDE DEF i
    <3> QED
      BY <1>0
  <2>3. QED
    BY <1>1, <1>3, <2>1, <2>2, FS_Subset
<1>5. Cardinality({i}) = 1
  BY FS_Singleton
<1>6. B = {i}
  <2> HIDE DEF B, i
  <2> QED
    BY <1>3, <1>4, <1>5, FS_Subset
<1>7. ASSUME NEW j \in P PROVE i <= j
  <2>1. CASE j <= i
    BY <1>6, <2>1
  <2>2. CASE ~(j <= i)
    <3> HIDE DEF i
    <3> QED
      BY <1>0, <2>2
  <2>3. QED
    BY <2>1, <2>2
<1>8. QED
  BY <1>3, <1>7

\* Joining two lists joins their entries; without a common entry and without
\* repetitions in either, the joined list has none.
LEMMA ConcatEntries ==
    ASSUME NEW S, NEW p \in Seq(S), NEW q \in Seq(S)
    PROVE  /\ p \o q \in Seq(S)
           /\ Entries(p \o q) = Entries(p) \cup Entries(q)
           /\ NoRepeats(p) /\ NoRepeats(q) /\ Entries(p) \cap Entries(q) = {}
                => NoRepeats(p \o q)
<1>1. /\ p \o q \in Seq(S)
      /\ Len(p) \in Nat /\ Len(q) \in Nat
      /\ DOMAIN p = 1..Len(p) /\ DOMAIN q = 1..Len(q)
      /\ DOMAIN (p \o q) = 1..(Len(p) + Len(q))
      /\ \A i \in 1..(Len(p) + Len(q)) :
            (p \o q)[i] = IF i <= Len(p) THEN p[i] ELSE q[i - Len(p)]
  OBVIOUS
<1>2. Entries(p \o q) \subseteq Entries(p) \cup Entries(q)
  BY <1>1 DEF Entries
<1>3. Entries(p) \subseteq Entries(p \o q)
  BY <1>1 DEF Entries
<1>4. Entries(q) \subseteq Entries(p \o q)
  <2> SUFFICES ASSUME NEW i \in 1..Len(q)
               PROVE  q[i] \in Entries(p \o q)
    BY <1>1 DEF Entries
  <2>1. /\ i + Len(p) \in 1..(Len(p) + Len(q))
        /\ ~(i + Len(p) <= Len(p))
        /\ (i + Len(p)) - Len(p) = i
    BY <1>1
  <2>2. (p \o q)[i + Len(p)] = q[i]
    BY <1>1, <2>1
  <2>3. QED
    BY <1>1, <2>1, <2>2 DEF Entries
<1>5. ASSUME NoRepeats(p), NoRepeats(q), Entries(p) \cap Entries(q) = {}
      PROVE  NoRepeats(p \o q)
  <2> SUFFICES ASSUME NEW i \in 1..(Len(p) + Len(q)),
                      NEW j \in 1..(Len(p) + Len(q)),
                      (p \o q)[i] = (p \o q)[j]
               PROVE  i = j
    BY <1>1 DEF NoRepeats
  <2>1. CASE i <= Len(p) /\ j <= Len(p)
    BY <1>1, <1>5, <2>1 DEF NoRepeats
  <2>2. CASE i > Len(p) /\ j > Len(p)
    BY <1>1, <1>5, <2>2 DEF NoRepeats
  <2>3. ASSUME NEW k \in 1..(Len(p) + Len(q)), NEW l \in 1..(Len(p) + Len(q)),
               k <= Len(p), l > Len(p)
        PROVE  (p \o q)[k] # (p \o q)[l]
    <3>1. k \in DOMAIN p /\ (p \o q)[k] = p[k]
      BY <1>1, <2>3
    <3>2. l - Len(p) \in DOMAIN q /\ (p \o q)[l] = q[l - Len(p)]
      BY <1>1, <2>3
    <3>3. (p \o q)[k] \in Entries(p) /\ (p \o q)[l] \in Entries(q)
      BY <3>1, <3>2 DEF Entries
    <3>4. QED
      BY <1>5, <3>3
  <2>4. CASE i <= Len(p) <=> ~(j <= Len(p))
    BY <1>1, <2>3, <2>4
  <2>5. QED
    BY <1>1, <2>1, <2>2, <2>3, <2>4
<1>6. QED
  BY <1>1, <1>2, <1>3, <1>4, <1>5

\* The same of a list with one entry added at its tail.
LEMMA AppendEntries ==
    ASSUME NEW S, NEW q \in Seq(S), NEW e \in S
    PROVE  /\ Append(q, e) \in Seq(S)
           /\ Entries(Append(q, e)) = Entries(q) \cup {e}
           /\ NoRepeats(q) /\ e \notin Entries(q) => NoRepeats(Append(q, e))
<1>1. /\ Append(q, e) \in Seq(S)
      /\ Len(q) \in Nat /\ DOMAIN q = 1..Len(q)
      /\ DOMAIN Append(q, e) = 1..(Len(q) + 1)
      /\ \A i \in 1..Len(q) : Append(q, e)[i] = q[i]
      /\ Append(q, e)[Len(q) + 1] = e
  OBVIOUS
<1>2. Entries(Append(q, e)) = Entries(q) \cup {e}
  <2>1. ASSUME NEW i \in 1..(Len(q) + 1)
        PROVE  Append(q, e)[i] \in Entries(q) \cup {e}
    BY <1>1 DEF Entries
  <2>2. Entries(q) \subseteq Entries(Append(q, e))
    BY <1>1 DEF Entries
  <2>3. Len(q) + 1 \in 1..(Len(q) + 1)
    BY <1>1
  <2>4. e \in Entries(Append(q, e))
    BY <1>1, <2>3 DEF Entries
  <2>5. QED
    BY <1>1, <2>1, <2>2, <2>4 DEF Entries
<1>3. ASSUME NoRepeats(q), e \notin Entries(q)
      PROVE  NoRepeats(Append(q, e))
  BY <1>1, <1>3 DEF NoRepeats, Entries
<1>4. QED
  BY <1>1, <1>2, <1>3

\* Taking the head off a list without repetitions takes that entry off it.
LEMMA TailEntries ==
    ASSUME NEW S, NEW q \in Seq(S), q # <<>>, NoRepeats(q)
    PROVE  /\ Head(q) \in S
           /\ Head(q) \in Entries(q)
           /\ Tail(q) \in Seq(S)
           /\ Entries(Tail(q)) = Entries(q) \ {Head(q)}
           /\ NoRepeats(Tail(q))
<1>1. /\ Len(q) \in Nat /\ Len(q) > 0 /\ DOMAIN q = 1..Len(q)
      /\ Head(q) = q[1] /\ 1 \in 1..Len(q)
      /\ Tail(q) \in Seq(S)
      /\ DOMAIN Tail(q) = 1..(Len(q) - 1)
      /\ \A i \in 1..(Len(q) - 1) : Tail(q)[i] = q[i + 1]
  OBVIOUS
<1>2. Head(q) \in S /\ Head(q) \in Entries(q)
  BY <1>1 DEF Entries
<1>3. NoRepeats(Tail(q))
  BY <1>1 DEF NoRepeats
<1>4. Entries(Tail(q)) \subseteq Entries(q) \ {Head(q)}
  BY <1>1 DEF Entries, NoRepeats
<1>5. Entries(q) \ {Head(q)} \subseteq Entries(Tail(q))
  <2> SUFFICES ASSUME NEW i \in 1..Len(q), q[i] # q[1]
               PROVE  q[i] \in Entries(Tail(q))
    BY <1>1 DEF Entries
  <2>1. i - 1 \in 1..(Len(q) - 1) /\ (i - 1) + 1 = i
    BY <1>1
  <2>2. QED
    BY <1>1, <2>1 DEF Entries
<1>6. QED
  BY <1>1, <1>2, <1>3, <1>4, <1>5

-----------------------------------------------------------------------------
(* The scheduler and the dispatcher objects *)

Blocks == Threads \X (Nat \ {0})

\* Thread states st and ready queue q fit together while cur is the current
\* thread: what KiSchedule is called with.
QueueMatches(st, q, cur) ==
    /\ st \in [Threads -> States]
    /\ q \in Seq(Threads)
    /\ NoRepeats(q)
    /\ \A t \in Threads : t \in Entries(q) <=> st[t] = "Ready"
    /\ \A t \in Threads : st[t] = "Running" => t = cur
    /\ \A t \in Threads : t = cur => st[t] # "Ready"

\* KiSchedule keeps the ready queue and the thread states in step.
LEMMA ScheduleLemma ==
    ASSUME current \in Threads \cup {Idle},
           NEW st, NEW q, NEW n \in 0..DEFAULT_QUANTUM,
           QueueMatches(st, q, current), KiSchedule(st, q, n)
    PROVE  /\ current' \in Threads \cup {Idle}
           /\ state' \in [Threads -> States]
           /\ readyQ' \in Seq(Threads)
           /\ quantum' \in 0..DEFAULT_QUANTUM
           /\ ReadyQueueOK'
           /\ \A t \in Threads : /\ state'[t] = "Waiting" <=> st[t] = "Waiting"
                                 /\ state'[t] = "None" <=> st[t] = "None"
<1> USE ConstantsAssumption
<1> DEFINE next == IF q = <<>> THEN Idle ELSE Head(q)
           rest == IF q = <<>> THEN <<>> ELSE Tail(q)
           requeue == Requeues(st)
<1>1. /\ st \in [Threads -> States]
      /\ q \in Seq(Threads)
      /\ NoRepeats(q)
      /\ \A t \in Threads : t \in Entries(q) <=> st[t] = "Ready"
      /\ \A t \in Threads : st[t] = "Running" => t = current
      /\ \A t \in Threads : t = current => st[t] # "Ready"
  BY DEF QueueMatches
<1>2. /\ next \in Threads \cup {Idle}
      /\ next \in Threads => st[next] = "Ready" /\ next # current
      /\ rest \in Seq(Threads) /\ NoRepeats(rest)
      /\ \A t \in Threads : t \in Entries(rest) <=> st[t] = "Ready" /\ t # next
  <2>1. CASE q = <<>>
    <3>1. Entries(q) = {} /\ rest = <<>> /\ next = Idle
      BY <2>1 DEF Entries
    <3>2. NoRepeats(<<>>) /\ <<>> \in Seq(Threads)
      BY DEF NoRepeats
    <3>3. QED
      BY <1>1, <2>1, <3>1, <3>2
  <2>2. CASE q # <<>>
    <3>1. /\ Head(q) \in Threads /\ Head(q) \in Entries(q)
          /\ Tail(q) \in Seq(Threads) /\ NoRepeats(Tail(q))
          /\ Entries(Tail(q)) = Entries(q) \ {Head(q)}
      BY <1>1, <2>2, TailEntries
    <3>2. QED
      BY <1>1, <2>2, <3>1
  <2>3. QED
    BY <2>1, <2>2
<1>3. /\ current' = next
      /\ readyQ' = IF requeue THEN Append(rest, current) ELSE rest
      /\ state' = [t \in Threads |->
                      CASE t = next -> "Running"
                        [] t = current /\ t # next /\ requeue -> "Ready"
                        [] OTHER -> st[t]]
      /\ quantum' = IF next = current THEN n ELSE DEFAULT_QUANTUM
  BY DEF KiSchedule, InsertTailList
<1> HIDE DEF next, rest
<1>4. \A t \in Threads :
          state'[t] = IF t = next THEN "Running"
                      ELSE IF t = current /\ requeue THEN "Ready" ELSE st[t]
  BY <1>3
<1>5. state' \in [Threads -> States]
  BY <1>1, <1>3, <1>4 DEF States
<1>6. /\ readyQ' \in Seq(Threads) /\ NoRepeats(readyQ')
      /\ Entries(readyQ') = Entries(rest) \cup (IF requeue THEN {current} ELSE {})
  <2>1. CASE requeue
    <3>1. current \in Threads /\ current \notin Entries(rest)
      BY <1>1, <1>2, <2>1 DEF Requeues
    <3>2. QED
      BY <1>2, <1>3, <2>1, <3>1, AppendEntries
  <2>2. CASE ~requeue
    BY <1>2, <1>3, <2>2
  <2>3. QED
    BY <2>1, <2>2
<1>7. ASSUME NEW t \in Threads
      PROVE  t \in Entries(readyQ') <=> state'[t] = "Ready"
  BY <1>1, <1>2, <1>4, <1>6 DEF Requeues
<1>8. ASSUME NEW t \in Threads
      PROVE  t = current' <=> state'[t] = "Running"
  BY <1>1, <1>2, <1>3, <1>4 DEF Requeues
<1>9. ReadyQueueOK'
  BY <1>6, <1>7, <1>8 DEF ReadyQueueOK
<1>10. ASSUME NEW t \in Threads
       PROVE  /\ state'[t] = "Waiting" <=> st[t] = "Waiting"
              /\ state'[t] = "None" <=> st[t] = "None"
  BY <1>1, <1>2, <1>4 DEF Requeues
<1>11. quantum' \in 0..DEFAULT_QUANTUM
  BY <1>3
<1>12. QED
  BY <1>2, <1>3, <1>5, <1>6, <1>9, <1>10, <1>11

-----------------------------------------------------------------------------
(* Lists after a wake-up *)

\* Unlinking the threads W takes their blocks off every list, and no others.
LEMMA UnlinkLemma ==
    ASSUME TypeOK, NEW W
    PROVE  /\ KiUnlinkThreadWait(W) \in [Objects -> Seq(Blocks)]
           /\ \A o \in Objects :
                 /\ Entries(KiUnlinkThreadWait(W)[o]) =
                        {b \in Entries(waitQ[o]) : b[1] \notin W}
                 /\ NoRepeats(waitQ[o]) => NoRepeats(KiUnlinkThreadWait(W)[o])
<1> DEFINE K(o) == {i \in DOMAIN waitQ[o] : waitQ[o][i][1] \notin W}
<1>1. waitQ \in [Objects -> Seq(Blocks)]
  BY DEF TypeOK, Blocks
<1>2. KiUnlinkThreadWait(W) = [o \in Objects |-> Keep(waitQ[o], K(o))]
  BY DEF KiUnlinkThreadWait
<1>3. ASSUME NEW o \in Objects
      PROVE  /\ Keep(waitQ[o], K(o)) \in Seq(Blocks)
             /\ Entries(Keep(waitQ[o], K(o))) = {waitQ[o][i] : i \in K(o)}
             /\ NoRepeats(waitQ[o]) => NoRepeats(Keep(waitQ[o], K(o)))
  <2>1. waitQ[o] \in Seq(Blocks)
    BY <1>1
  <2>2. K(o) \in SUBSET (DOMAIN waitQ[o])
    OBVIOUS
  <2>3. NoRepeats(waitQ[o]) =>
            \A i, j \in K(o) : waitQ[o][i] = waitQ[o][j] => i = j
    BY DEF NoRepeats
  <2> HIDE DEF K
  <2>4. QED
    BY <2>1, <2>2, <2>3, KeepProperties
<1>4. ASSUME NEW o \in Objects
      PROVE  {waitQ[o][i] : i \in K(o)} =
                {b \in Entries(waitQ[o]) : b[1] \notin W}
  BY DEF Entries
<1>5. QED
  BY <1>2, <1>3, <1>4

\* KiSignalObject makes exactly the waiting threads on the object's list ready,
\* each once, although a thread may have several blocks on it.
LEMMA WakeOrderLemma ==
    ASSUME TypeOK, NEW o \in Objects
    PROVE  /\ WakeOrder(o) \in Seq(Threads)
           /\ NoRepeats(WakeOrder(o))
           /\ Entries(WakeOrder(o)) = Woken(o)
<1> DEFINE q == waitQ[o]
           K == {i \in DOMAIN q : /\ state[q[i][1]] = "Waiting"
                                  /\ \A j \in 1..(i - 1) : q[j][1] # q[i][1]}
           first == Keep(q, K)
<1>1. q \in Seq(Blocks) /\ Len(q) \in Nat /\ DOMAIN q = 1..Len(q)
  BY DEF TypeOK, Blocks
<1>2. \A i \in DOMAIN q : q[i][1] \in Threads
  BY <1>1 DEF Blocks
<1>3. \A i, j \in K : q[i][1] = q[j][1] => i = j
  <2> SUFFICES ASSUME NEW i \in K, NEW j \in K, i < j
               PROVE  q[i][1] # q[j][1]
    BY <1>1
  <2> QED
    BY <1>1
<1>4. /\ first \in Seq(Blocks)
      /\ DOMAIN first = 1..Cardinality(K)
      /\ Cardinality(K) \in Nat
      /\ Entries(first) = {q[i] : i \in K}
      /\ NoRepeats(first)
  <2>1. K \in SUBSET (DOMAIN q)
    OBVIOUS
  <2>2. \A i, j \in K : q[i] = q[j] => i = j
    BY <1>3
  <2> HIDE DEF K, q
  <2>3. QED
    BY <1>1, <2>1, <2>2, KeepProperties
<1>5. WakeOrder(o) = [k \in DOMAIN first |-> first[k][1]]
  BY DEF WakeOrder
<1> HIDE DEF first
<1>6. ASSUME NEW k \in DOMAIN first
      PROVE  \E i \in K : first[k] = q[i]
  BY <1>4 DEF Entries
<1>7. WakeOrder(o) \in Seq(Threads)
  <2>1. \A k \in 1..Cardinality(K) : first[k][1] \in Threads
    BY <1>2, <1>4, <1>6
  <2> HIDE DEF K
  <2>2. QED
    BY <1>4, <1>5, <2>1
<1>8. NoRepeats(WakeOrder(o))
  <2> SUFFICES ASSUME NEW k \in DOMAIN first, NEW l \in DOMAIN first,
                      first[k][1] = first[l][1]
               PROVE  k = l
    BY <1>5 DEF NoRepeats
  <2>1. PICK i \in K : first[k] = q[i]
    BY <1>6
  <2>2. PICK j \in K : first[l] = q[j]
    BY <1>6
  <2>3. i = j
    BY <1>3, <2>1, <2>2
  <2>4. QED
    BY <1>4, <2>1, <2>2, <2>3 DEF NoRepeats
<1>9. Entries(WakeOrder(o)) \subseteq Woken(o)
  BY <1>2, <1>5, <1>6 DEF Entries, Woken
<1>10. ASSUME NEW t \in Woken(o)
       PROVE  t \in Entries(WakeOrder(o))
  <2> DEFINE P == {i \in DOMAIN q : q[i][1] = t}
  <2>1. P \in SUBSET (1..Len(q)) /\ P # {}
    BY <1>1 DEF Woken, Entries
  <2>2. PICK i \in P : \A j \in P : i <= j
    <3> HIDE DEF P, q
    <3> QED
      BY <1>1, <2>1, FirstPosition
  <2>3. i \in K
    BY <1>1, <2>2 DEF Woken
  <2>4. q[i] \in Entries(first)
    BY <1>4, <2>3
  <2>5. QED
    BY <1>5, <2>2, <2>4 DEF Entries
<1>11. QED
  BY <1>7, <1>8, <1>9, <1>10

\* The clock makes exactly the threads whose deadline has come ready, each once.
LEMMA ExpiredOrderLemma ==
    ASSUME TypeOK, CreatedOK, NEW now \in Nat
    PROVE  /\ ExpiredOrder(now) \in Seq(Threads)
           /\ NoRepeats(ExpiredOrder(now))
           /\ Entries(ExpiredOrder(now)) = Expired(now)
<1> DEFINE K == {i \in DOMAIN created : created[i] \in Expired(now)}
<1>1. created \in Seq(Threads) /\ NoRepeats(created)
  BY DEF TypeOK, CreatedOK
<1>2. \A t \in Expired(now) : t \in Entries(created)
  BY DEF Expired, CreatedOK
<1>3. K \in SUBSET (DOMAIN created)
  OBVIOUS
<1>4. \A i, j \in K : created[i] = created[j] => i = j
  BY <1>1 DEF NoRepeats
<1>5. {created[i] : i \in K} = Expired(now)
  BY <1>2 DEF Entries
<1>6. ExpiredOrder(now) = Keep(created, K)
  BY DEF ExpiredOrder
<1> HIDE DEF K
<1>7. /\ Keep(created, K) \in Seq(Threads)
      /\ Entries(Keep(created, K)) = {created[i] : i \in K}
      /\ NoRepeats(Keep(created, K))
  BY <1>1, <1>3, <1>4, KeepProperties
<1>8. QED
  BY <1>5, <1>6, <1>7

\* The blocks a thread links on o: one for each time the wait names o.
LEMMA WaitBlocksLemma ==
    ASSUME NEW t \in Threads, NEW objs \in Seq(Objects), NEW o \in Objects
    PROVE  /\ WaitBlocks(t, objs, o) \in Seq(Blocks)
           /\ NoRepeats(WaitBlocks(t, objs, o))
           /\ Entries(WaitBlocks(t, objs, o)) =
                  {<<t, i>> : i \in {j \in DOMAIN objs : objs[j] = o}}
<1> DEFINE K == {i \in DOMAIN objs : objs[i] = o}
           bl == [k \in 1..Cardinality(K) |-> <<t, Nth(K, k)>>]
<1>1. K \in SUBSET (1..Len(objs)) /\ Len(objs) \in Nat
  OBVIOUS
<1>2. WaitBlocks(t, objs, o) = bl
  BY DEF WaitBlocks
<1>3. \A i \in K : i \in Nat \ {0}
  BY <1>1
<1> HIDE DEF K
<1>4. /\ Cardinality(K) \in Nat
      /\ \A i \in K : /\ Rank(K, i) \in 1..Cardinality(K)
                      /\ Nth(K, Rank(K, i)) = i
      /\ \A k \in 1..Cardinality(K) : /\ Nth(K, k) \in K
                                      /\ Rank(K, Nth(K, k)) = k
  BY <1>1, NthRank
<1>5. bl \in Seq(Blocks)
  BY <1>3, <1>4 DEF Blocks
<1>6. NoRepeats(bl)
  <2> SUFFICES ASSUME NEW k \in 1..Cardinality(K), NEW l \in 1..Cardinality(K),
                      Nth(K, k) = Nth(K, l)
               PROVE  k = l
    BY DEF NoRepeats
  <2> QED
    BY <1>4
<1>7. Entries(bl) = {<<t, i>> : i \in K}
  <2>1. \A k \in 1..Cardinality(K) : bl[k] \in {<<t, i>> : i \in K}
    BY <1>4
  <2>2. \A i \in K : bl[Rank(K, i)] = <<t, i>> /\ Rank(K, i) \in DOMAIN bl
    BY <1>4
  <2>3. QED
    BY <2>1, <2>2 DEF Entries
<1>8. QED
  BY <1>2, <1>5, <1>6, <1>7 DEF K

-----------------------------------------------------------------------------
(* The inductive invariant *)

\* What a step does in which the threads of W stop waiting and nobody starts
\* to: no object is newly signalled for a thread that goes on waiting.
OnlyWakes(W) ==
    /\ current' \in Threads \cup {Idle} /\ state' \in [Threads -> States]
    /\ readyQ' \in Seq(Threads) /\ quantum' \in 0..DEFAULT_QUANTUM
    /\ tick' \in 0..MaxTick /\ signal' \in [Objects -> Int]
    /\ call' \in [Threads -> Calls] /\ created' \in Seq(Threads)
    /\ waitQ' \in [Objects -> Seq(Blocks)]
    /\ ReadyQueueOK'
    /\ NoRepeats(created')
    /\ \A t \in Threads : t \in Entries(created') <=> state'[t] # "None"
    /\ \A t \in Threads :
          state'[t] = "Waiting" <=> state[t] = "Waiting" /\ t \notin W
    /\ \A t \in Threads : state'[t] = "Waiting" =>
                              /\ call'[t].objs = call[t].objs
                              /\ call'[t].all = call[t].all
                              /\ call'[t].op = call[t].op
    /\ \A o \in Objects :
          /\ NoRepeats(waitQ'[o])
          /\ Entries(waitQ'[o]) = {b \in Entries(waitQ[o]) : b[1] \notin W}
    /\ \A t \in Threads, o \in Objects :
          (/\ state'[t] = "Waiting"
           /\ \E i \in DOMAIN call[t].objs : call[t].objs[i] = o
           /\ signal'[o] > 0) => signal[o] > 0

\* Such a step keeps the invariant.
LEMMA NobodyBlocks ==
    ASSUME IInv, NEW W, OnlyWakes(W)
    PROVE  IInv'
<1> USE ConstantsAssumption DEF OnlyWakes
<1>1. TypeOK'
  BY DEF TypeOK, Blocks
<1>2. CreatedOK'
  BY DEF IInv, CreatedOK
<1>3. WaitListsOK'
  <2> SUFFICES ASSUME NEW o \in Objects
               PROVE  /\ \A b \in Entries(waitQ'[o]) :
                            /\ state'[b[1]] = "Waiting"
                            /\ b[2] \in DOMAIN call'[b[1]].objs
                            /\ call'[b[1]].objs[b[2]] = o
                      /\ \A t \in Threads :
                            state'[t] = "Waiting" =>
                              \A i \in DOMAIN call'[t].objs :
                                call'[t].objs[i] = o => <<t, i>> \in Entries(waitQ'[o])
    BY DEF WaitListsOK
  <2>1. ASSUME NEW b \in Entries(waitQ'[o])
        PROVE  /\ state'[b[1]] = "Waiting"
               /\ b[2] \in DOMAIN call'[b[1]].objs
               /\ call'[b[1]].objs[b[2]] = o
    <3>1. b \in Entries(waitQ[o]) /\ b[1] \notin W
      BY <2>1
    <3>2. b[1] \in Threads
      BY <3>1 DEF IInv, TypeOK, Entries
    <3>3. /\ state[b[1]] = "Waiting"
          /\ b[2] \in DOMAIN call[b[1]].objs
          /\ call[b[1]].objs[b[2]] = o
      BY <3>1 DEF IInv, WaitListsOK
    <3>4. QED
      BY <3>1, <3>2, <3>3
  <2>2. ASSUME NEW t \in Threads, state'[t] = "Waiting",
               NEW i \in DOMAIN call'[t].objs, call'[t].objs[i] = o
        PROVE  <<t, i>> \in Entries(waitQ'[o])
    <3>1. /\ state[t] = "Waiting" /\ t \notin W
          /\ i \in DOMAIN call[t].objs /\ call[t].objs[i] = o
      BY <2>2
    <3>2. <<t, i>> \in Entries(waitQ[o])
      BY <3>1 DEF IInv, WaitListsOK
    <3>3. QED
      BY <3>1, <3>2
  <2>3. QED
    BY <2>1, <2>2
<1>4. NoLostWakeup'
  <2> SUFFICES ASSUME NEW t \in Threads, state'[t] = "Waiting",
                      CanSatisfy(call[t].objs, call[t].all)'
               PROVE  FALSE
    BY DEF NoLostWakeup
  <2>1. state[t] = "Waiting" /\ ~CanSatisfy(call[t].objs, call[t].all)
    BY DEF IInv, NoLostWakeup
  <2>2. /\ call'[t].objs = call[t].objs /\ call'[t].all = call[t].all
    OBVIOUS
  <2>3. call[t].objs \in Seq(Objects)
    <3>1. call[t].objs \in WaitLists \cup {<<>>}
      BY DEF IInv, TypeOK, Calls
    <3>2. <<>> \in Seq(Objects) /\ WaitLists \subseteq Seq(Objects)
      OBVIOUS
    <3>3. QED
      BY <3>1, <3>2
  <2>4. \A i \in DOMAIN call[t].objs :
            signal'[call[t].objs[i]] > 0 => signal[call[t].objs[i]] > 0
    BY <2>3
  <2>5. QED
    BY <2>1, <2>2, <2>4 DEF CanSatisfy, KiCanAcquire
<1>5. QED
  BY <1>1, <1>2, <1>3, <1>4 DEF IInv

\* Waking the waiting threads W in some order leaves a ready queue that fits.
LEMMA WakeMatches ==
    ASSUME IInv, NEW W, \A t \in W : t \in Threads /\ state[t] = "Waiting",
           NEW order \in Seq(Threads), NoRepeats(order), Entries(order) = W,
           NEW why \in {"SUCCESS", "TIMEOUT"}, KiWakeWaitingThread(W, why)
    PROVE  /\ QueueMatches(KiReadyThread(W), readyQ \o order, current)
           /\ call' \in [Threads -> Calls]
           /\ \A t \in Threads : /\ call'[t].objs = call[t].objs
                                 /\ call'[t].all = call[t].all
                                 /\ call'[t].op = call[t].op
           /\ \A t \in Threads :
                 KiReadyThread(W)[t] = IF t \in W THEN "Ready" ELSE state[t]
<1>1. /\ state \in [Threads -> States] /\ readyQ \in Seq(Threads)
      /\ call \in [Threads -> Calls]
      /\ NoRepeats(readyQ)
      /\ \A t \in Threads : t \in Entries(readyQ) <=> state[t] = "Ready"
      /\ \A t \in Threads : t = current <=> state[t] = "Running"
  BY DEF IInv, TypeOK, ReadyQueueOK
<1>2. \A t \in Threads :
         KiReadyThread(W)[t] = IF t \in W THEN "Ready" ELSE state[t]
  BY DEF KiReadyThread
<1>3. /\ readyQ \o order \in Seq(Threads)
      /\ Entries(readyQ \o order) = Entries(readyQ) \cup W
      /\ NoRepeats(readyQ \o order)
  <2>1. Entries(readyQ) \cap W = {}
    BY <1>1
  <2>2. QED
    BY <1>1, <2>1, ConcatEntries
<1>4. KiReadyThread(W) \in [Threads -> States]
  BY <1>1 DEF KiReadyThread, States
<1>5. QueueMatches(KiReadyThread(W), readyQ \o order, current)
  BY <1>1, <1>2, <1>3, <1>4 DEF QueueMatches
<1>6. call' = [t \in Threads |->
                 IF t \in W THEN [call[t] EXCEPT !.status = why] ELSE call[t]]
  BY DEF KiWakeWaitingThread
<1>7. \A t \in Threads : call[t] \in Calls
  BY <1>1
<1>8. ASSUME NEW t \in Threads
      PROVE  /\ [call[t] EXCEPT !.status = why] \in Calls
             /\ [call[t] EXCEPT !.status = why].objs = call[t].objs
             /\ [call[t] EXCEPT !.status = why].all = call[t].all
             /\ [call[t] EXCEPT !.status = why].op = call[t].op
  BY <1>7 DEF Calls
<1>9. QED
  BY <1>2, <1>5, <1>6, <1>7, <1>8

\* The facts of the invariant that every step below uses.
LEMMA IInvFacts ==
    ASSUME IInv
    PROVE  /\ QueueMatches(state, readyQ, current)
           /\ state \in [Threads -> States] /\ readyQ \in Seq(Threads)
           /\ current \in Threads \cup {Idle} /\ quantum \in 0..DEFAULT_QUANTUM
           /\ tick \in 0..MaxTick /\ signal \in [Objects -> Int]
           /\ call \in [Threads -> Calls] /\ created \in Seq(Threads)
           /\ waitQ \in [Objects -> Seq(Blocks)]
           /\ NoRepeats(created) /\ ReadyQueueOK
           /\ \A t \in Threads : t \in Entries(created) <=> state[t] # "None"
           /\ \A t \in Threads : t = current <=> state[t] = "Running"
           /\ \A o \in Objects : NoRepeats(waitQ[o])
           /\ \A o \in Objects : \A b \in Entries(waitQ[o]) :
                 b[1] \in Threads /\ state[b[1]] = "Waiting"
<1>1. \A o \in Objects : \A b \in Entries(waitQ[o]) : b[1] \in Threads
  BY DEF IInv, TypeOK, Entries
<1>2. QED
  BY <1>1 DEF IInv, TypeOK, ReadyQueueOK, WaitListsOK, CreatedOK, QueueMatches,
              Blocks

\* Unlinking a thread that is not waiting changes no list's entries.
LEMMA UnlinkRunning ==
    ASSUME IInv, NEW t \in Threads, state[t] # "Waiting"
    PROVE  \A o \in Objects : Entries(KiUnlinkThreadWait({t})[o]) = Entries(waitQ[o])
<1>1. \A o \in Objects : Entries(KiUnlinkThreadWait({t})[o]) =
                            {b \in Entries(waitQ[o]) : b[1] \notin {t}}
  BY UnlinkLemma DEF IInv
<1>2. \A o \in Objects : \A b \in Entries(waitQ[o]) : b[1] # t
  BY IInvFacts
<1>3. QED
  BY <1>1, <1>2

\* KeYield keeps the invariant.
LEMMA YieldStep ==
    ASSUME IInv, NEW t \in Threads, KeYield(t)
    PROVE  IInv'
<1>1. /\ KiSchedule(state, readyQ, quantum)
      /\ UNCHANGED <<created, tick, signal, waitQ, call>>
  BY DEF KeYield
<1>2. /\ current' \in Threads \cup {Idle} /\ state' \in [Threads -> States]
      /\ readyQ' \in Seq(Threads) /\ quantum' \in 0..DEFAULT_QUANTUM
      /\ ReadyQueueOK'
      /\ \A u \in Threads : /\ state'[u] = "Waiting" <=> state[u] = "Waiting"
                            /\ state'[u] = "None" <=> state[u] = "None"
  BY <1>1, IInvFacts, ScheduleLemma
<1>3. \A o \in Objects :
          Entries(waitQ'[o]) = {b \in Entries(waitQ[o]) : b[1] \notin {}}
  BY <1>1
<1>4. OnlyWakes({})
  <2>1. /\ tick' \in 0..MaxTick /\ signal' \in [Objects -> Int]
        /\ call' \in [Threads -> Calls] /\ created' \in Seq(Threads)
        /\ waitQ' \in [Objects -> Seq(Blocks)]
        /\ NoRepeats(created')
    BY <1>1, IInvFacts
  <2>2. \A u \in Threads : u \in Entries(created') <=> state'[u] # "None"
    BY <1>1, <1>2, IInvFacts
  <2>3. \A o \in Objects : NoRepeats(waitQ'[o])
    BY <1>1, IInvFacts
  <2>4. QED
    BY <1>1, <1>2, <1>3, <2>1, <2>2, <2>3 DEF OnlyWakes
<1>5. QED
  BY <1>4, NobodyBlocks

\* The thread t's call returns, or it goes on: the CPU stays with t.
LEMMA ReturnStep ==
    ASSUME IInv, NEW t \in Threads, t = current, Return(t),
           signal' \in [Objects -> Int],
           \A o \in Objects : signal'[o] > 0 => signal[o] > 0,
           UNCHANGED <<created, tick>>
    PROVE  IInv'
<1> USE ConstantsAssumption
<1>1. /\ call' = [call EXCEPT ![t] = NoCall]
      /\ waitQ' = KiUnlinkThreadWait({t})
      /\ UNCHANGED <<state, current, readyQ, quantum>>
  BY DEF Return
<1>2. NoCall \in Calls
  BY DEF NoCall, Call, Calls
<1>3. call' \in [Threads -> Calls]
  BY <1>1, <1>2, IInvFacts
<1>4. state[t] = "Running"
  BY IInvFacts
<1>5. /\ waitQ' \in [Objects -> Seq(Blocks)]
      /\ \A o \in Objects : /\ Entries(waitQ'[o]) =
                                  {b \in Entries(waitQ[o]) : b[1] \notin {t}}
                            /\ NoRepeats(waitQ'[o])
  BY <1>1, IInvFacts, UnlinkLemma DEF IInv
<1>6. ReadyQueueOK'
  BY <1>1, IInvFacts DEF ReadyQueueOK
<1>7. \A u \in Threads : state'[u] = "Waiting" => u # t /\ call'[u] = call[u]
  BY <1>1, <1>4, IInvFacts
<1>8. OnlyWakes({t})
  <2>1. /\ tick' \in 0..MaxTick /\ created' \in Seq(Threads)
        /\ current' \in Threads \cup {Idle} /\ state' \in [Threads -> States]
        /\ readyQ' \in Seq(Threads) /\ quantum' \in 0..DEFAULT_QUANTUM
        /\ NoRepeats(created')
    BY <1>1, IInvFacts
  <2>2. \A u \in Threads : u \in Entries(created') <=> state'[u] # "None"
    BY <1>1, IInvFacts
  <2>3. \A u \in Threads :
            state'[u] = "Waiting" <=> state[u] = "Waiting" /\ u \notin {t}
    BY <1>1, <1>4
  <2>4. QED
    BY <1>3, <1>5, <1>6, <1>7, <2>1, <2>2, <2>3 DEF OnlyWakes
<1>9. QED
  BY <1>8, NobodyBlocks

\* The current thread yields in a call that it does not leave.
LEMMA PollStep ==
    ASSUME IInv, NEW t \in Threads, t = current, NEW c \in Calls,
           call' = [call EXCEPT ![t] = c],
           KiSchedule(state, readyQ, quantum),
           UNCHANGED <<created, tick, signal, waitQ>>
    PROVE  IInv'
<1>1. /\ current' \in Threads \cup {Idle} /\ state' \in [Threads -> States]
      /\ readyQ' \in Seq(Threads) /\ quantum' \in 0..DEFAULT_QUANTUM
      /\ ReadyQueueOK'
      /\ \A u \in Threads : /\ state'[u] = "Waiting" <=> state[u] = "Waiting"
                            /\ state'[u] = "None" <=> state[u] = "None"
  BY IInvFacts, ScheduleLemma
<1>2. state[t] = "Running"
  BY IInvFacts
<1>3. call' \in [Threads -> Calls]
  BY IInvFacts
<1>4. \A u \in Threads : state'[u] = "Waiting" => call'[u] = call[u]
  BY <1>1, <1>2, IInvFacts
<1>5. OnlyWakes({})
  <2>1. /\ tick' \in 0..MaxTick /\ signal' \in [Objects -> Int]
        /\ created' \in Seq(Threads) /\ waitQ' \in [Objects -> Seq(Blocks)]
        /\ NoRepeats(created')
    BY IInvFacts
  <2>2. \A u \in Threads : u \in Entries(created') <=> state'[u] # "None"
    BY <1>1, IInvFacts
  <2>3. \A o \in Objects :
            /\ NoRepeats(waitQ'[o])
            /\ Entries(waitQ'[o]) = {b \in Entries(waitQ[o]) : b[1] \notin {}}
    BY IInvFacts
  <2>4. QED
    BY <1>1, <1>3, <1>4, <2>1, <2>2, <2>3 DEF OnlyWakes
<1>6. QED
  BY <1>5, NobodyBlocks

\* A call that was not a wait returns: the CPU stays with t.
LEMMA LeaveStep ==
    ASSUME IInv, NEW t \in Threads, t = current,
           call' = [call EXCEPT ![t] = NoCall],
           UNCHANGED <<state, current, readyQ, created, quantum, tick, signal, waitQ>>
    PROVE  IInv'
<1> USE ConstantsAssumption
<1>1. NoCall \in Calls
  BY DEF NoCall, Call, Calls
<1>2. call' \in [Threads -> Calls]
  BY <1>1, IInvFacts
<1>3. \A u \in Threads : state'[u] = "Waiting" => call'[u] = call[u]
  BY IInvFacts
<1>4. ReadyQueueOK'
  BY IInvFacts DEF ReadyQueueOK
<1>5. OnlyWakes({})
  <2>1. /\ current' \in Threads \cup {Idle} /\ state' \in [Threads -> States]
        /\ readyQ' \in Seq(Threads) /\ quantum' \in 0..DEFAULT_QUANTUM
        /\ tick' \in 0..MaxTick /\ signal' \in [Objects -> Int]
        /\ created' \in Seq(Threads) /\ NoRepeats(created')
        /\ waitQ' \in [Objects -> Seq(Blocks)]
    BY IInvFacts
  <2>2. \A u \in Threads : u \in Entries(created') <=> state'[u] # "None"
    BY IInvFacts
  <2>3. \A o \in Objects :
            /\ NoRepeats(waitQ'[o])
            /\ Entries(waitQ'[o]) = {b \in Entries(waitQ[o]) : b[1] \notin {}}
    BY IInvFacts
  <2>4. QED
    BY <1>2, <1>3, <1>4, <2>1, <2>2, <2>3 DEF OnlyWakes
<1>6. QED
  BY <1>5, NobodyBlocks

\* NtCreateThreadEx keeps the invariant: the new thread enters the ready queue
\* and the thread list together.
LEMMA CreateStep ==
    ASSUME IInv, NEW t \in UserThreads, NtCreateThreadEx(t)
    PROVE  IInv'
<1> USE ConstantsAssumption
<1> DEFINE st == [state EXCEPT ![t] = "Ready"]
           q == Append(readyQ, t)
<1>1. /\ state[t] = "None" /\ created' = Append(created, t)
      /\ KiSchedule(st, q, quantum) \/ (state' = st /\ readyQ' = q /\ UNCHANGED <<current, quantum>>)
      /\ UNCHANGED <<tick, signal, waitQ, call>>
      /\ \E u \in UserThreads : current = u
  BY DEF NtCreateThreadEx, Executing
<1>2. t \in Threads /\ t # current
  BY <1>1, IInvFacts DEF Threads
<1>3. QueueMatches(st, q, current)
  <2>1. /\ q \in Seq(Threads) /\ NoRepeats(q)
        /\ Entries(q) = Entries(readyQ) \cup {t}
    BY <1>1, <1>2, IInvFacts, AppendEntries DEF QueueMatches
  <2>2. st \in [Threads -> States]
    BY <1>2, IInvFacts DEF States
  <2>3. \A u \in Threads : st[u] = IF u = t THEN "Ready" ELSE state[u]
    BY IInvFacts
  <2> HIDE DEF st, q
  <2>4. QED
    BY <1>2, <2>1, <2>2, <2>3, IInvFacts DEF QueueMatches
<1>4. /\ current' \in Threads \cup {Idle} /\ state' \in [Threads -> States]
      /\ readyQ' \in Seq(Threads) /\ quantum' \in 0..DEFAULT_QUANTUM
      /\ ReadyQueueOK'
      /\ \A u \in Threads : /\ state'[u] = "Waiting" <=> st[u] = "Waiting"
                            /\ state'[u] = "None" <=> st[u] = "None"
  <2>0. \A u \in Threads : u = current <=> st[u] = "Running"
    BY <1>1, <1>2, IInvFacts
  <2> HIDE DEF st, q
  <2>1. CASE KiSchedule(st, q, quantum)
    BY <1>3, <2>1, IInvFacts, ScheduleLemma
  <2>2. CASE state' = st /\ readyQ' = q /\ UNCHANGED <<current, quantum>>
    BY <1>3, <2>0, <2>2, IInvFacts DEF QueueMatches, ReadyQueueOK
  <2>3. QED
    BY <1>1, <2>1, <2>2
<1>5. \A u \in Threads : /\ state'[u] = "Waiting" <=> state[u] = "Waiting"
                         /\ state'[u] = "None" <=> state[u] = "None" /\ u # t
  BY <1>1, <1>4, IInvFacts
<1>6. /\ created' \in Seq(Threads) /\ NoRepeats(created')
      /\ Entries(created') = Entries(created) \cup {t}
  BY <1>1, <1>2, IInvFacts, AppendEntries
<1>7. OnlyWakes({})
  <2>1. /\ tick' \in 0..MaxTick /\ signal' \in [Objects -> Int]
        /\ call' \in [Threads -> Calls] /\ waitQ' \in [Objects -> Seq(Blocks)]
    BY <1>1, IInvFacts
  <2>2. \A u \in Threads : u \in Entries(created') <=> state'[u] # "None"
    BY <1>2, <1>5, <1>6, IInvFacts
  <2>3. \A o \in Objects :
            /\ NoRepeats(waitQ'[o])
            /\ Entries(waitQ'[o]) = {b \in Entries(waitQ[o]) : b[1] \notin {}}
    BY <1>1, IInvFacts
  <2>4. QED
    BY <1>1, <1>4, <1>5, <1>6, <2>1, <2>2, <2>3 DEF OnlyWakes
<1>8. QED
  BY <1>7, NobodyBlocks

\* KiSignalObject takes the object's waiters, and only them, off all lists;
\* who goes on waiting does not wait for the object.
LEMMA SignalObjectLemma ==
    ASSUME IInv, NEW o \in Objects, KiSignalObject(o)
    PROVE  /\ waitQ' \in [Objects -> Seq(Blocks)]
           /\ \A x \in Objects :
                 /\ NoRepeats(waitQ'[x])
                 /\ Entries(waitQ'[x]) =
                        {b \in Entries(waitQ[x]) : b[1] \notin Woken(o)}
           /\ \A t \in Threads :
                 state[t] = "Waiting" /\ t \notin Woken(o) =>
                    ~ \E i \in DOMAIN call[t].objs : call[t].objs[i] = o
           /\ QueueMatches(KiReadyThread(Woken(o)), readyQ \o WakeOrder(o), current)
           /\ call' \in [Threads -> Calls]
           /\ \A t \in Threads : /\ call'[t].objs = call[t].objs
                                 /\ call'[t].all = call[t].all
                                 /\ call'[t].op = call[t].op
           /\ \A t \in Threads : KiReadyThread(Woken(o))[t] =
                                    IF t \in Woken(o) THEN "Ready" ELSE state[t]
           /\ \A t \in Woken(o) : t \in Threads /\ state[t] = "Waiting"
<1> DEFINE W == Woken(o)
           U == KiUnlinkThreadWait(W)
<1>1. TypeOK /\ WaitListsOK
  BY DEF IInv
<1>2. /\ KiWakeWaitingThread(W, "SUCCESS") /\ waitQ' = [U EXCEPT ![o] = <<>>]
  BY DEF KiSignalObject
<1>3. \A t \in W : t \in Threads /\ state[t] = "Waiting"
  BY DEF Woken
<1>4. /\ WakeOrder(o) \in Seq(Threads) /\ NoRepeats(WakeOrder(o))
      /\ Entries(WakeOrder(o)) = W
  BY <1>1, WakeOrderLemma
<1>5. /\ U \in [Objects -> Seq(Blocks)]
      /\ \A x \in Objects :
            /\ Entries(U[x]) = {b \in Entries(waitQ[x]) : b[1] \notin W}
            /\ NoRepeats(U[x])
  BY <1>1, UnlinkLemma, IInvFacts
<1> HIDE DEF U
<1>6. {b \in Entries(waitQ[o]) : b[1] \notin W} = {}
  BY IInvFacts DEF Woken
<1>7. Entries(<<>>) = {} /\ NoRepeats(<<>>) /\ <<>> \in Seq(Blocks)
  BY DEF Entries, NoRepeats
<1> HIDE DEF W
<1>8. waitQ' \in [Objects -> Seq(Blocks)]
  BY <1>2, <1>5, <1>7
<1>9. ASSUME NEW x \in Objects
      PROVE  /\ NoRepeats(waitQ'[x])
             /\ Entries(waitQ'[x]) = {b \in Entries(waitQ[x]) : b[1] \notin W}
  <2>1. CASE x = o
    BY <1>2, <1>5, <1>6, <1>7, <2>1
  <2>2. CASE x # o
    BY <1>2, <1>5, <2>2
  <2>3. QED
    BY <2>1, <2>2
<1>10. ASSUME NEW t \in Threads, state[t] = "Waiting", t \notin W,
              NEW i \in DOMAIN call[t].objs, call[t].objs[i] = o
       PROVE  FALSE
  <2>1. <<t, i>> \in Entries(waitQ[o])
    BY <1>1, <1>10 DEF WaitListsOK
  <2>2. QED
    BY <1>10, <2>1 DEF W, Woken
<1>11. /\ QueueMatches(KiReadyThread(W), readyQ \o WakeOrder(o), current)
       /\ call' \in [Threads -> Calls]
       /\ \A t \in Threads : /\ call'[t].objs = call[t].objs
                             /\ call'[t].all = call[t].all
                             /\ call'[t].op = call[t].op
       /\ \A t \in Threads :
             KiReadyThread(W)[t] = IF t \in W THEN "Ready" ELSE state[t]
  BY <1>2, <1>3, <1>4, WakeMatches
<1>12. QED
  BY <1>3, <1>8, <1>9, <1>10, <1>11 DEF W

\* Signalling an object, to whatever value, keeps the invariant: no thread that
\* can now be satisfied stays behind.
LEMMA SignalStep ==
    ASSUME IInv, NEW o \in Objects, NEW v \in Int, Signal(o, v)
    PROVE  IInv'
<1> DEFINE W == Woken(o)
<1>1. /\ signal' = [signal EXCEPT ![o] = v]
      /\ KiSignalObject(o)
      /\ state' = KiReadyThread(W)
      /\ readyQ' = readyQ \o WakeOrder(o)
      /\ UNCHANGED <<current, created, quantum, tick>>
  BY DEF Signal
<1>2. /\ waitQ' \in [Objects -> Seq(Blocks)]
      /\ \A x \in Objects :
            /\ NoRepeats(waitQ'[x])
            /\ Entries(waitQ'[x]) = {b \in Entries(waitQ[x]) : b[1] \notin W}
      /\ \A t \in Threads :
            state[t] = "Waiting" /\ t \notin W =>
               ~ \E i \in DOMAIN call[t].objs : call[t].objs[i] = o
      /\ QueueMatches(state', readyQ', current)
      /\ call' \in [Threads -> Calls]
      /\ \A t \in Threads : /\ call'[t].objs = call[t].objs
                            /\ call'[t].all = call[t].all
                            /\ call'[t].op = call[t].op
      /\ \A t \in Threads : state'[t] = IF t \in W THEN "Ready" ELSE state[t]
      /\ \A t \in W : t \in Threads /\ state[t] = "Waiting"
  BY <1>1, SignalObjectLemma
<1> HIDE DEF W
<1>3. /\ state' \in [Threads -> States] /\ readyQ' \in Seq(Threads)
      /\ ReadyQueueOK'
  <2>1. \A t \in Threads : t = current' <=> state'[t] = "Running"
    BY <1>1, <1>2, IInvFacts
  <2>2. QED
    BY <1>1, <1>2, <2>1 DEF QueueMatches, ReadyQueueOK
<1>4. /\ current' \in Threads \cup {Idle} /\ quantum' \in 0..DEFAULT_QUANTUM
      /\ tick' \in 0..MaxTick /\ created' \in Seq(Threads)
      /\ NoRepeats(created')
  BY <1>1, IInvFacts
<1>5. signal' \in [Objects -> Int]
  BY <1>1, IInvFacts
<1>6. \A t \in Threads : t \in Entries(created') <=> state'[t] # "None"
  BY <1>1, <1>2, IInvFacts
<1>7. \A t \in Threads : state'[t] = "Waiting" <=> state[t] = "Waiting" /\ t \notin W
  BY <1>2
<1>8. \A t \in Threads, x \in Objects :
          (/\ state'[t] = "Waiting"
           /\ \E i \in DOMAIN call[t].objs : call[t].objs[i] = x
           /\ signal'[x] > 0) => signal[x] > 0
  BY <1>1, <1>2, <1>7, IInvFacts
<1>9. OnlyWakes(W)
  BY <1>2, <1>3, <1>4, <1>5, <1>6, <1>7, <1>8 DEF OnlyWakes
<1>10. QED
  BY <1>9, NobodyBlocks

\* KeTerminateThread keeps the invariant, with and without a thread object.
LEMMA TerminateStep ==
    ASSUME IInv, NEW t \in UserThreads, KeTerminateThread(t)
    PROVE  IInv'
<1> USE ConstantsAssumption
<1>1. t \in Threads /\ t \in Objects /\ t = current /\ state[t] = "Running"
  BY IInvFacts DEF KeTerminateThread, Executing, Threads, Objects
<1>2. UNCHANGED <<created, tick>>
  BY DEF KeTerminateThread
<1>3. CASE t = BootThread
  <2> DEFINE st == [state EXCEPT ![t] = "Terminated"]
  <2>1. /\ KiSchedule(st, readyQ, quantum)
        /\ UNCHANGED <<signal, waitQ, call>>
    BY <1>3 DEF KeTerminateThread
  <2>2. st \in [Threads -> States]
    BY <1>1, IInvFacts DEF States
  <2>3. \A u \in Threads : st[u] = IF u = t THEN "Terminated" ELSE state[u]
    BY IInvFacts
  <2> HIDE DEF st
  <2>4. QueueMatches(st, readyQ, current)
    BY <1>1, <2>2, <2>3, IInvFacts DEF QueueMatches
  <2>5. /\ current' \in Threads \cup {Idle} /\ state' \in [Threads -> States]
        /\ readyQ' \in Seq(Threads) /\ quantum' \in 0..DEFAULT_QUANTUM
        /\ ReadyQueueOK'
        /\ \A u \in Threads : /\ state'[u] = "Waiting" <=> st[u] = "Waiting"
                              /\ state'[u] = "None" <=> st[u] = "None"
    BY <2>1, <2>4, IInvFacts, ScheduleLemma
  <2>6. \A u \in Threads : /\ state'[u] = "Waiting" <=> state[u] = "Waiting"
                           /\ state'[u] = "None" <=> state[u] = "None"
    BY <1>1, <2>3, <2>5
  <2>7. OnlyWakes({})
    <3>1. /\ tick' \in 0..MaxTick /\ signal' \in [Objects -> Int]
          /\ call' \in [Threads -> Calls] /\ waitQ' \in [Objects -> Seq(Blocks)]
          /\ created' \in Seq(Threads) /\ NoRepeats(created')
      BY <1>2, <2>1, IInvFacts
    <3>2. \A u \in Threads : u \in Entries(created') <=> state'[u] # "None"
      BY <1>2, <2>6, IInvFacts
    <3>3. \A o \in Objects :
              /\ NoRepeats(waitQ'[o])
              /\ Entries(waitQ'[o]) = {b \in Entries(waitQ[o]) : b[1] \notin {}}
      BY <2>1, IInvFacts
    <3>4. QED
      BY <2>1, <2>5, <2>6, <3>1, <3>2, <3>3 DEF OnlyWakes
  <2>8. QED
    BY <2>7, NobodyBlocks
<1>4. CASE t # BootThread
  <2> DEFINE W == Woken(t)
             st == [KiReadyThread(W) EXCEPT ![t] = "Terminated"]
             q == readyQ \o WakeOrder(t)
  <2>1. /\ signal' = [signal EXCEPT ![t] = 1]
        /\ KiSignalObject(t)
        /\ KiSchedule(st, q, quantum)
    BY <1>4 DEF KeTerminateThread
  <2>2. /\ waitQ' \in [Objects -> Seq(Blocks)]
        /\ \A x \in Objects :
              /\ NoRepeats(waitQ'[x])
              /\ Entries(waitQ'[x]) = {b \in Entries(waitQ[x]) : b[1] \notin W}
        /\ \A u \in Threads :
              state[u] = "Waiting" /\ u \notin W =>
                 ~ \E i \in DOMAIN call[u].objs : call[u].objs[i] = t
        /\ QueueMatches(KiReadyThread(W), q, current)
        /\ call' \in [Threads -> Calls]
        /\ \A u \in Threads : /\ call'[u].objs = call[u].objs
                              /\ call'[u].all = call[u].all
                              /\ call'[u].op = call[u].op
        /\ \A u \in Threads :
              KiReadyThread(W)[u] = IF u \in W THEN "Ready" ELSE state[u]
        /\ \A u \in W : u \in Threads /\ state[u] = "Waiting"
    BY <1>1, <2>1, SignalObjectLemma
  <2> HIDE DEF W, q
  <2>3. KiReadyThread(W) \in [Threads -> States]
    BY <2>2 DEF QueueMatches
  <2>4. \A u \in Threads : st[u] = IF u = t THEN "Terminated"
                                   ELSE IF u \in W THEN "Ready" ELSE state[u]
    BY <2>2, <2>3
  <2>5. st \in [Threads -> States]
    BY <2>3 DEF States
  <2> HIDE DEF st
  <2>6. QueueMatches(st, q, current)
    <3>1. /\ q \in Seq(Threads) /\ NoRepeats(q)
          /\ \A u \in Threads :
                /\ u \in Entries(q) <=> KiReadyThread(W)[u] = "Ready"
                /\ KiReadyThread(W)[u] = "Running" => u = current
      BY <2>2 DEF QueueMatches
    <3>2. t \notin W /\ KiReadyThread(W)[t] = "Running"
      BY <1>1, <2>2
    <3>3. \A u \in Threads : u # t => st[u] = KiReadyThread(W)[u]
      BY <2>2, <2>4
    <3>4. \A u \in Threads : u \in Entries(q) <=> st[u] = "Ready"
      BY <1>1, <2>4, <3>1, <3>2, <3>3
    <3>5. QED
      BY <1>1, <2>4, <2>5, <3>1, <3>3, <3>4 DEF QueueMatches
  <2>7. /\ current' \in Threads \cup {Idle} /\ state' \in [Threads -> States]
        /\ readyQ' \in Seq(Threads) /\ quantum' \in 0..DEFAULT_QUANTUM
        /\ ReadyQueueOK'
        /\ \A u \in Threads : /\ state'[u] = "Waiting" <=> st[u] = "Waiting"
                              /\ state'[u] = "None" <=> st[u] = "None"
    BY <2>1, <2>6, IInvFacts, ScheduleLemma
  <2>8. \A u \in Threads :
            /\ state'[u] = "Waiting" <=> state[u] = "Waiting" /\ u \notin W
            /\ state'[u] = "None" <=> state[u] = "None"
    BY <1>1, <2>2, <2>4, <2>7
  <2>9. OnlyWakes(W)
    <3>1. /\ tick' \in 0..MaxTick /\ created' \in Seq(Threads)
          /\ NoRepeats(created')
      BY <1>2, IInvFacts
    <3>2. signal' \in [Objects -> Int]
      <4>1. signal \in [Objects -> Int] /\ 1 \in Int
        BY IInvFacts
      <4>2. QED
        BY <2>1, <4>1
    <3>3. \A u \in Threads : u \in Entries(created') <=> state'[u] # "None"
      BY <1>2, <2>8, IInvFacts
    <3>4. \A u \in Threads, x \in Objects :
            (/\ state'[u] = "Waiting"
             /\ \E i \in DOMAIN call[u].objs : call[u].objs[i] = x
             /\ signal'[x] > 0) => signal[x] > 0
      BY <2>1, <2>2, <2>8, IInvFacts
    <3>5. QED
      BY <2>2, <2>7, <2>8, <3>1, <3>2, <3>3, <3>4 DEF OnlyWakes
  <2>10. QED
    BY <2>9, NobodyBlocks
<1>5. QED
  BY <1>3, <1>4

\* The clock interrupt keeps the invariant, whether or not it reschedules.
LEMMA TickStep ==
    ASSUME IInv, KeClockTick
    PROVE  IInv'
<1> USE ConstantsAssumption
<1> DEFINE now == IF tick < MaxTick THEN tick + 1 ELSE tick
           W == Expired(now)
           st == KiReadyThread(W)
           q == readyQ \o ExpiredOrder(now)
           left == IF quantum > 0 THEN quantum - 1 ELSE quantum
<1>1. /\ tick' = now
      /\ KiWakeWaitingThread(W, "TIMEOUT")
      /\ waitQ' = KiUnlinkThreadWait(W)
      /\ IF left <= 0 THEN KiSchedule(st, q, left)
         ELSE state' = st /\ readyQ' = q /\ quantum' = left /\ UNCHANGED current
      /\ UNCHANGED <<created, signal>>
  BY DEF KeClockTick, QuantumLeft
<1>2. now \in 0..MaxTick /\ now \in Nat
  BY IInvFacts
<1>3. left \in 0..DEFAULT_QUANTUM
  BY IInvFacts
<1> HIDE DEF now, left
<1>4. \A t \in W : t \in Threads /\ state[t] = "Waiting"
  BY DEF Expired
<1>5. /\ ExpiredOrder(now) \in Seq(Threads) /\ NoRepeats(ExpiredOrder(now))
      /\ Entries(ExpiredOrder(now)) = W
  BY <1>2, ExpiredOrderLemma DEF IInv
<1> HIDE DEF W
<1>6. /\ QueueMatches(st, q, current)
      /\ call' \in [Threads -> Calls]
      /\ \A t \in Threads : /\ call'[t].objs = call[t].objs
                            /\ call'[t].all = call[t].all
                            /\ call'[t].op = call[t].op
      /\ \A t \in Threads : st[t] = IF t \in W THEN "Ready" ELSE state[t]
  BY <1>1, <1>4, <1>5, WakeMatches
<1>7. /\ waitQ' \in [Objects -> Seq(Blocks)]
      /\ \A o \in Objects :
            /\ Entries(waitQ'[o]) = {b \in Entries(waitQ[o]) : b[1] \notin W}
            /\ NoRepeats(waitQ'[o])
  BY <1>1, IInvFacts, UnlinkLemma DEF IInv
<1> HIDE DEF st, q
<1>8. /\ current' \in Threads \cup {Idle} /\ state' \in [Threads -> States]
      /\ readyQ' \in Seq(Threads) /\ quantum' \in 0..DEFAULT_QUANTUM
      /\ ReadyQueueOK'
      /\ \A t \in Threads : /\ state'[t] = "Waiting" <=> st[t] = "Waiting"
                            /\ state'[t] = "None" <=> st[t] = "None"
  <2>1. CASE left <= 0
    BY <1>1, <1>3, <1>6, <2>1, IInvFacts, ScheduleLemma
  <2>2. CASE ~(left <= 0)
    <3>1. state' = st /\ readyQ' = q /\ quantum' = left /\ current' = current
      BY <1>1, <2>2
    <3>2. \A t \in Threads : t = current <=> st[t] = "Running"
      BY <1>4, <1>6, IInvFacts
    <3>3. QED
      BY <1>3, <1>6, <3>1, <3>2, IInvFacts DEF QueueMatches, ReadyQueueOK
  <2>3. QED
    BY <2>1, <2>2
<1>9. OnlyWakes(W)
  <2>1. /\ tick' \in 0..MaxTick /\ signal' \in [Objects -> Int]
        /\ created' \in Seq(Threads) /\ NoRepeats(created')
    BY <1>1, <1>2, IInvFacts
  <2>2. \A t \in Threads :
            /\ state'[t] = "Waiting" <=> state[t] = "Waiting" /\ t \notin W
            /\ state'[t] = "None" <=> state[t] = "None"
    BY <1>4, <1>6, <1>8
  <2>3. \A t \in Threads : t \in Entries(created') <=> state'[t] # "None"
    BY <1>1, <2>2, IInvFacts
  <2>4. QED
    BY <1>1, <1>6, <1>7, <1>8, <2>1, <2>2, <2>3 DEF OnlyWakes
<1>10. QED
  BY <1>9, NobodyBlocks

\* The current thread blocks: its wait cannot be satisfied, and its blocks are
\* linked.
LEMMA BlockStep ==
    ASSUME IInv, NEW t \in Threads, t = current, NEW objs \in WaitLists,
           NEW all \in BOOLEAN, NEW deadline \in 0..MaxTick,
           ~CanSatisfy(objs, all),
           call' = [call EXCEPT ![t] = Call("wait", objs, all, deadline, "PENDING")],
           waitQ' = [o \in Objects |-> KiUnlinkThreadWait({t})[o]
                                          \o WaitBlocks(t, objs, o)],
           KiSchedule([state EXCEPT ![t] = "Waiting"], readyQ, quantum),
           UNCHANGED <<signal, created, tick>>
    PROVE  IInv'
<1> USE ConstantsAssumption
<1> DEFINE st == [state EXCEPT ![t] = "Waiting"]
           c == Call("wait", objs, all, deadline, "PENDING")
           mine(o) == {<<t, i>> : i \in {j \in DOMAIN objs : objs[j] = o}}
<1>0. /\ \A o \in Objects : \A b \in mine(o) :
            \E i \in DOMAIN objs : objs[i] = o /\ b = <<t, i>>
      /\ \A o \in Objects : \A i \in DOMAIN objs :
            objs[i] = o => <<t, i>> \in mine(o)
  OBVIOUS
<1>1. state[t] = "Running" /\ objs \in Seq(Objects)
  BY IInvFacts
<1>2. /\ c \in Calls /\ c.op = "wait" /\ c.objs = objs /\ c.all = all
  BY DEF Call, Calls
<1>3. /\ st \in [Threads -> States]
      /\ \A u \in Threads : st[u] = IF u = t THEN "Waiting" ELSE state[u]
  BY IInvFacts DEF States
<1>4. call' \in [Threads -> Calls]
      /\ \A u \in Threads : call'[u] = IF u = t THEN c ELSE call[u]
  BY <1>2, IInvFacts
<1> HIDE DEF st, c
<1>5. QueueMatches(st, readyQ, current)
  BY <1>1, <1>3, IInvFacts DEF QueueMatches
<1>6. /\ current' \in Threads \cup {Idle} /\ state' \in [Threads -> States]
      /\ readyQ' \in Seq(Threads) /\ quantum' \in 0..DEFAULT_QUANTUM
      /\ ReadyQueueOK'
      /\ \A u \in Threads : /\ state'[u] = "Waiting" <=> st[u] = "Waiting"
                            /\ state'[u] = "None" <=> st[u] = "None"
  BY <1>5, IInvFacts, ScheduleLemma DEF st
<1>7. \A u \in Threads : /\ state'[u] = "Waiting" <=> u = t \/ state[u] = "Waiting"
                         /\ state'[u] = "None" <=> state[u] = "None"
  BY <1>1, <1>3, <1>6
<1>8. ASSUME NEW o \in Objects
      PROVE  /\ waitQ'[o] \in Seq(Blocks)
             /\ NoRepeats(waitQ'[o])
             /\ Entries(waitQ'[o]) = Entries(waitQ[o]) \cup mine(o)
  <2> DEFINE p == KiUnlinkThreadWait({t})[o]
             r == WaitBlocks(t, objs, o)
  <2>1. p \in Seq(Blocks) /\ NoRepeats(p) /\ Entries(p) = Entries(waitQ[o])
    <3>1. TypeOK /\ NoRepeats(waitQ[o]) /\ state[t] # "Waiting"
      BY <1>1, IInvFacts DEF IInv
    <3>2. p \in Seq(Blocks) /\ NoRepeats(p)
      BY <3>1, UnlinkLemma
    <3>3. Entries(p) = Entries(waitQ[o])
      BY <3>1, UnlinkRunning
    <3>4. QED
      BY <3>2, <3>3
  <2>2. r \in Seq(Blocks) /\ NoRepeats(r) /\ Entries(r) = mine(o)
    BY <1>1, WaitBlocksLemma
  <2>3. waitQ'[o] = p \o r
    OBVIOUS
  <2> HIDE DEF p, r
  <2>4. Entries(p) \cap Entries(r) = {}
    <3>1. \A b \in Entries(waitQ[o]) : b[1] # t
      BY <1>1, IInvFacts
    <3>2. \A b \in Entries(r) : b[1] = t
      BY <1>0, <2>2
    <3>3. QED
      BY <2>1, <3>1, <3>2
  <2>5. /\ p \o r \in Seq(Blocks) /\ NoRepeats(p \o r)
        /\ Entries(p \o r) = Entries(p) \cup Entries(r)
    BY <2>1, <2>2, <2>4, ConcatEntries
  <2> HIDE DEF mine
  <2>6. QED
    BY <2>1, <2>2, <2>3, <2>5
<1>9. waitQ' \in [Objects -> Seq(Blocks)]
  BY <1>8
<1>10. TypeOK'
  BY <1>4, <1>6, <1>9, IInvFacts DEF TypeOK, Blocks
<1>11. CreatedOK'
  <2>1. NoRepeats(created')
    BY IInvFacts
  <2>2. \A u \in Threads : u \in Entries(created') <=> state'[u] # "None"
    BY <1>7, IInvFacts
  <2>3. \A u \in Threads : state'[u] = "Waiting" => call'[u].op = "wait"
    BY <1>2, <1>4, <1>7 DEF IInv, CreatedOK
  <2>4. QED
    BY <2>1, <2>2, <2>3 DEF CreatedOK
<1> HIDE DEF mine
<1>12. WaitListsOK'
  <2>1. ASSUME NEW o \in Objects, NEW b \in Entries(waitQ'[o])
        PROVE  /\ state'[b[1]] = "Waiting"
               /\ b[2] \in DOMAIN call'[b[1]].objs
               /\ call'[b[1]].objs[b[2]] = o
    <3>1. CASE b \in Entries(waitQ[o])
      <4>1. b[1] \in Threads /\ b[1] # t
        BY <1>1, <3>1, IInvFacts
      <4>2. /\ state[b[1]] = "Waiting"
            /\ b[2] \in DOMAIN call[b[1]].objs
            /\ call[b[1]].objs[b[2]] = o
        BY <3>1 DEF IInv, WaitListsOK
      <4>3. QED
        BY <1>4, <1>7, <4>1, <4>2
    <3>2. CASE b \notin Entries(waitQ[o])
      <4>1. PICK i \in DOMAIN objs : objs[i] = o /\ b = <<t, i>>
        <5>1. b \in mine(o)
          BY <1>8, <2>1, <3>2
        <5>2. QED
          BY <1>0, <5>1
      <4>2. b[1] = t /\ b[2] = i
        BY <4>1
      <4>3. QED
        BY <1>2, <1>4, <1>7, <4>1, <4>2
    <3>3. QED
      BY <3>1, <3>2
  <2>2. ASSUME NEW o \in Objects, NEW u \in Threads, state'[u] = "Waiting",
               NEW i \in DOMAIN call'[u].objs, call'[u].objs[i] = o
        PROVE  <<u, i>> \in Entries(waitQ'[o])
    <3>1. CASE u = t
      <4>1. call'[u].objs = objs
        BY <1>2, <1>4, <3>1
      <4>2. <<t, i>> \in mine(o)
        BY <1>0, <2>2, <4>1
      <4>3. QED
        BY <1>8, <3>1, <4>2
    <3>2. CASE u # t
      <4>1. /\ state[u] = "Waiting" /\ i \in DOMAIN call[u].objs
            /\ call[u].objs[i] = o
        BY <1>4, <1>7, <2>2, <3>2
      <4>2. <<u, i>> \in Entries(waitQ[o])
        BY <4>1 DEF IInv, WaitListsOK
      <4>3. QED
        BY <1>8, <4>2
    <3>3. QED
      BY <3>1, <3>2
  <2>3. QED
    BY <1>8, <2>1, <2>2 DEF WaitListsOK
<1>13. NoLostWakeup'
  <2> SUFFICES ASSUME NEW u \in Threads, state'[u] = "Waiting"
               PROVE  ~CanSatisfy(call[u].objs, call[u].all)'
    BY DEF NoLostWakeup
  <2>1. CASE u = t
    BY <1>2, <1>4, <2>1 DEF CanSatisfy, KiCanAcquire
  <2>2. CASE u # t
    <3>1. state[u] = "Waiting" /\ call'[u] = call[u]
      BY <1>4, <1>7, <2>2
    <3>2. ~CanSatisfy(call[u].objs, call[u].all)
      BY <3>1 DEF IInv, NoLostWakeup
    <3>3. QED
      BY <3>1, <3>2 DEF CanSatisfy, KiCanAcquire
  <2>3. QED
    BY <2>1, <2>2
<1>14. QED
  BY <1>6, <1>10, <1>11, <1>12, <1>13 DEF IInv

\* A satisfied wait signals nothing.
LEMMA ConsumeLemma ==
    ASSUME signal \in [Objects -> Int], NEW objs \in Seq(Objects),
           NEW I \in SUBSET (DOMAIN objs)
    PROVE  /\ KiConsumeSignal(objs, I) \in [Objects -> Int]
           /\ \A o \in Objects : KiConsumeSignal(objs, I)[o] > 0 => signal[o] > 0
<1>1. ASSUME NEW o \in Objects
      PROVE  Cardinality({i \in I : objs[i] = o}) \in Nat
  <2>1. {i \in I : objs[i] = o} \in SUBSET (1..Len(objs)) /\ Len(objs) \in Nat
    OBVIOUS
  <2>2. QED
    BY <2>1, NthRank
<1>2. ASSUME NEW o \in Objects
      PROVE  /\ KiConsumeSignal(objs, I)[o] \in Int
             /\ KiConsumeSignal(objs, I)[o] > 0 => signal[o] > 0
  <2> DEFINE n == Cardinality({i \in I : objs[i] = o})
  <2>1. KiConsumeSignal(objs, I)[o] =
            CASE o \in SynchronizationEvents -> IF n > 0 THEN 0 ELSE signal[o]
              [] o \in Semaphores \cup Mutants -> signal[o] - n
              [] OTHER -> signal[o]
    BY DEF KiConsumeSignal
  <2>2. n \in Nat /\ signal[o] \in Int
    BY <1>1
  <2> HIDE DEF n
  <2>3. KiConsumeSignal(objs, I)[o] \in {0, signal[o], signal[o] - n}
    BY <2>1, ObjectKindsAssumption
  <2>4. QED
    BY <2>2, <2>3
<1>3. QED
  BY <1>2 DEF KiConsumeSignal

\* One pass of the loop of KeWaitForMultipleObjects keeps the invariant.
LEMMA WaitPassStep ==
    ASSUME IInv, NEW t \in Threads, t = current, NEW objs \in WaitLists,
           NEW all \in BOOLEAN, NEW deadline \in 0..MaxTick, NEW zero \in BOOLEAN,
           WaitPass(t, objs, all, deadline, zero), UNCHANGED <<created, tick>>
    PROVE  IInv'
<1> USE ConstantsAssumption
<1>1. objs \in Seq(Objects) /\ signal \in [Objects -> Int]
  BY IInvFacts
<1>2. CASE /\ CanSatisfy(objs, all)
           /\ signal' = KiConsumeSignal(objs, Consumes(objs, all))
           /\ Return(t)
  <2>1. Consumes(objs, all) \in SUBSET (DOMAIN objs)
    BY DEF Consumes
  <2>2. /\ signal' \in [Objects -> Int]
        /\ \A o \in Objects : signal'[o] > 0 => signal[o] > 0
    BY <1>1, <1>2, <2>1, ConsumeLemma
  <2>3. QED
    BY <1>2, <2>2, ReturnStep
<1>3. CASE Return(t) /\ UNCHANGED signal
  BY <1>1, <1>3, ReturnStep
<1>4. CASE /\ ~CanSatisfy(objs, all)
           /\ call' = [call EXCEPT ![t] =
                            Call("wait", objs, all, deadline, "PENDING")]
           /\ waitQ' = [o \in Objects |-> KiUnlinkThreadWait({t})[o]
                                             \o WaitBlocks(t, objs, o)]
           /\ KiSchedule([state EXCEPT ![t] = "Waiting"], readyQ, quantum)
           /\ UNCHANGED signal
  BY <1>4, BlockStep
<1>5. QED
  BY <1>2, <1>3, <1>4 DEF WaitPass

\* KeResetEvent keeps the invariant: it can only make fewer waits satisfiable.
LEMMA ResetStep ==
    ASSUME IInv, NEW t \in Threads,
           NEW e \in NotificationEvents \cup SynchronizationEvents,
           KeResetEvent(t, e)
    PROVE  IInv'
<1>1. /\ signal' = [signal EXCEPT ![e] = 0]
      /\ UNCHANGED <<state, current, readyQ, created, quantum, tick, waitQ, call>>
  BY DEF KeResetEvent
<1>2. /\ signal' \in [Objects -> Int]
      /\ \A o \in Objects : signal'[o] > 0 => signal[o] > 0
  <2>1. signal \in [Objects -> Int] /\ 0 \in Int
    BY IInvFacts
  <2>2. signal' \in [Objects -> Int]
    BY <1>1, <2>1
  <2>3. ASSUME NEW o \in Objects
        PROVE  signal'[o] > 0 => signal[o] > 0
    <3>1. signal'[o] = IF o = e THEN 0 ELSE signal[o]
      BY <1>1, <2>1
    <3>2. QED
      BY <3>1
  <2>4. QED
    BY <2>2, <2>3
<1>3. ReadyQueueOK'
  BY <1>1, IInvFacts DEF ReadyQueueOK
<1>4. OnlyWakes({})
  <2>1. /\ current' \in Threads \cup {Idle} /\ state' \in [Threads -> States]
        /\ readyQ' \in Seq(Threads) /\ quantum' \in 0..DEFAULT_QUANTUM
        /\ tick' \in 0..MaxTick /\ call' \in [Threads -> Calls]
        /\ created' \in Seq(Threads) /\ NoRepeats(created')
        /\ waitQ' \in [Objects -> Seq(Blocks)]
    BY <1>1, IInvFacts
  <2>2. \A u \in Threads : u \in Entries(created') <=> state'[u] # "None"
    BY <1>1, IInvFacts
  <2>3. \A o \in Objects :
            /\ NoRepeats(waitQ'[o])
            /\ Entries(waitQ'[o]) = {b \in Entries(waitQ[o]) : b[1] \notin {}}
    BY <1>1, IInvFacts
  <2>4. QED
    BY <1>1, <1>2, <1>3, <2>1, <2>2, <2>3 DEF OnlyWakes
<1>5. QED
  BY <1>4, NobodyBlocks

\* What the boot context leaves satisfies the invariant.
LEMMA InitIInv == Init => IInv
<1> USE ConstantsAssumption
<1> SUFFICES ASSUME Init PROVE IInv
  OBVIOUS
<1> DEFINE first == <<BootThread, InputThread>>
<1>1. /\ BootThread \in Threads /\ InputThread \in Threads
      /\ BootThread # InputThread /\ Idle \notin Threads
  BY DEF Threads
<1>2. /\ first \in Seq(Threads) /\ NoRepeats(first)
      /\ Entries(first) = {BootThread, InputThread}
  <2>1. DOMAIN first = {1, 2}
    OBVIOUS
  <2>2. QED
    BY <1>1, <2>1 DEF Entries, NoRepeats
<1>3. /\ NoRepeats(<<>>) /\ Entries(<<>>) = {}
      /\ <<>> \in Seq(Threads \X (Nat \ {0}))
  BY DEF NoRepeats, Entries
<1>4. NoCall \in Calls
  BY DEF NoCall, Call, Calls
<1>5. TypeOK
  <2>1. state \in [Threads -> States]
    BY DEF Init, States
  <2>2. /\ current \in Threads \cup {Idle}
        /\ readyQ \in Seq(Threads) /\ created \in Seq(Threads)
        /\ quantum \in 0..DEFAULT_QUANTUM /\ tick \in 0..MaxTick
    BY <1>2 DEF Init
  <2>3. signal \in [Objects -> Int]
    BY DEF Init
  <2>4. waitQ \in [Objects -> Seq(Threads \X (Nat \ {0}))]
    BY <1>3 DEF Init
  <2>5. call \in [Threads -> Calls]
    BY <1>4 DEF Init
  <2>6. QED
    BY <2>1, <2>2, <2>3, <2>4, <2>5 DEF TypeOK
<1>6. \A t \in Threads :
         state[t] = IF t \in {BootThread, InputThread} THEN "Ready" ELSE "None"
  BY DEF Init
<1>7. ReadyQueueOK
  BY <1>1, <1>2, <1>6 DEF ReadyQueueOK, Init
<1>8. WaitListsOK
  BY <1>3, <1>6 DEF WaitListsOK, Init
<1>9. NoLostWakeup
  BY <1>6 DEF NoLostWakeup
<1>10. CreatedOK
  BY <1>2, <1>6 DEF CreatedOK, Init
<1>11. QED
  BY <1>5, <1>7, <1>8, <1>9, <1>10 DEF IInv

\* Every step keeps the invariant.
LEMMA NextIInv == IInv /\ [Next]_vars => IInv'
<1> USE ConstantsAssumption
<1> SUFFICES ASSUME IInv, [Next]_vars PROVE IInv'
  OBVIOUS
<1>1. CASE UNCHANGED vars
  BY <1>1 DEF vars, IInv, TypeOK, ReadyQueueOK, WaitListsOK, NoLostWakeup,
              CreatedOK, CanSatisfy, KiCanAcquire
<1>2. CASE KeClockTick
  BY <1>2, TickStep
<1>3. ASSUME NEW t \in Threads, KeYield(t) PROVE IInv'
  BY <1>3, YieldStep
<1>4. ASSUME NEW t \in Threads,
             NEW e \in NotificationEvents \cup SynchronizationEvents,
             KeSetEvent(t, e) \/ KeResetEvent(t, e)
      PROVE  IInv'
  <2>1. e \in Objects
    BY DEF Objects
  <2>2. CASE KeSetEvent(t, e)
    BY <2>1, <2>2, SignalStep DEF KeSetEvent
  <2>3. CASE KeResetEvent(t, e)
    BY <2>3, ResetStep
  <2>4. QED
    BY <1>4, <2>2, <2>3
<1>5. ASSUME NEW t \in UserThreads,
             NtCreateThreadEx(t) \/ KeTerminateThread(t)
      PROVE  IInv'
  BY <1>5, CreateStep, TerminateStep
<1>6. ASSUME NEW t \in UserThreads, ResumeWait(t) PROVE IInv'
  <2>1. t \in Threads /\ t = current /\ UNCHANGED <<created, tick>>
    BY <1>6 DEF ResumeWait, Threads
  <2>2. CASE Return(t) /\ UNCHANGED signal
    BY <2>1, <2>2, IInvFacts, ReturnStep
  <2>3. CASE WaitPass(t, call[t].objs, call[t].all, call[t].deadline, FALSE)
    <3>1. /\ call[t].objs \in WaitLists \cup {<<>>} /\ call[t].all \in BOOLEAN
          /\ call[t].deadline \in 0..MaxTick
      BY <2>1, IInvFacts DEF Calls
    <3>2. call[t].objs \in WaitLists
      BY <1>6, <2>1, IInvFacts DEF Calls, ResumeWait
    <3>3. QED
      BY <2>1, <2>3, <3>1, <3>2, WaitPassStep
  <2>4. QED
    BY <1>6, <2>2, <2>3 DEF ResumeWait
<1>7. ASSUME NEW t \in UserThreads, ResumeDelay(t) PROVE IInv'
  <2>1. /\ t \in Threads /\ t = current
        /\ UNCHANGED <<created, tick, signal, waitQ>>
    BY <1>7 DEF ResumeDelay, Threads
  <2>2. CASE KiSchedule(state, readyQ, quantum) /\ UNCHANGED call
    <3>1. call[t] \in Calls /\ call' = [call EXCEPT ![t] = call[t]]
      BY <2>1, <2>2, IInvFacts
    <3>2. QED
      BY <2>1, <2>2, <3>1, PollStep
  <2>3. CASE /\ call' = [call EXCEPT ![t] = NoCall]
             /\ UNCHANGED <<state, current, readyQ, quantum>>
    BY <2>1, <2>3, LeaveStep
  <2>4. QED
    BY <1>7, <2>2, <2>3 DEF ResumeDelay
<1>8. ASSUME NEW t \in UserThreads, NEW objs \in WaitLists, NEW all \in BOOLEAN,
             NEW timeout \in Timeouts, KeWaitForMultipleObjects(t, objs, all, timeout)
      PROVE  IInv'
  <2> DEFINE deadline == IF timeout = Infinite THEN 0 ELSE tick + timeout
  <2>1. /\ t \in Threads /\ t = current /\ UNCHANGED <<created, tick>>
        /\ WaitPass(t, objs, all, deadline, timeout = 0)
        /\ deadline <= MaxTick
    BY <1>8 DEF KeWaitForMultipleObjects, Executing, Threads
  <2>2. deadline \in 0..MaxTick
    BY <2>1, IInvFacts DEF Timeouts, Infinite
  <2>3. (timeout = 0) \in BOOLEAN
    OBVIOUS
  <2> HIDE DEF deadline
  <2>4. QED
    BY <2>1, <2>2, <2>3, WaitPassStep
<1>9. ASSUME NEW t \in UserThreads, NEW n \in 1..MaxTimeout, NtDelayExecution(t, n)
      PROVE  IInv'
  <2> DEFINE c == Call("delay", <<>>, FALSE, tick + n, "PENDING")
  <2>1. /\ t \in Threads /\ t = current /\ tick + n <= MaxTick
        /\ call' = [call EXCEPT ![t] = c]
        /\ KiSchedule(state, readyQ, quantum)
        /\ UNCHANGED <<created, tick, signal, waitQ>>
    BY <1>9 DEF NtDelayExecution, Executing, Threads
  <2>2. c \in Calls
    BY <2>1, IInvFacts DEF Call, Calls
  <2> HIDE DEF c
  <2>3. QED
    BY <2>1, <2>2, PollStep
<1>10. ASSUME NEW t \in UserThreads, NEW s \in Semaphores, NEW n \in Releases,
              NtReleaseSemaphore(t, s, n)
       PROVE  IInv'
  <2> DEFINE v == IF signal[s] + n > Limit[s] THEN Limit[s] ELSE signal[s] + n
  <2>1. s \in Objects /\ Signal(s, v)
    BY <1>10 DEF NtReleaseSemaphore, Objects
  <2>2. v \in Int
    <3>1. signal[s] \in Int /\ Limit[s] \in Nat /\ n \in Nat
      BY <2>1, IInvFacts
    <3>2. QED
      BY <3>1
  <2> HIDE DEF v
  <2>3. QED
    BY <2>1, <2>2, SignalStep
<1>11. ASSUME NEW t \in UserThreads, NEW m \in Mutants, KeReleaseMutant(t, m)
       PROVE  IInv'
  <2>1. m \in Objects /\ Signal(m, 1) /\ 1 \in Int
    BY <1>11 DEF KeReleaseMutant, Objects
  <2>2. QED
    BY <2>1, SignalStep
<1>12. QED
  BY <1>1, <1>2, <1>3, <1>4, <1>5, <1>6, <1>7, <1>8, <1>9, <1>10, <1>11 DEF Next

\* In every reachable state, for any number of threads and objects: the types
\* hold, the ready queue holds exactly the ready threads, the wait lists exactly
\* the blocks of the waiting threads, and no thread sleeps on a wait that could
\* be satisfied.
THEOREM DispatcherInvariant == Spec => []IInv
<1>1. QED
  BY InitIInv, NextIInv, PTL DEF Spec

\* The ready queue and the wait lists stay consistent (KiSchedule,
\* KiReadyThread, KiUnlinkThreadWait).
THEOREM QueuesConsistent == Spec => [](TypeOK /\ ReadyQueueOK /\ WaitListsOK)
<1>1. IInv => TypeOK /\ ReadyQueueOK /\ WaitListsOK
  BY DEF IInv
<1>2. QED
  BY <1>1, DispatcherInvariant, PTL

\* No wake-up is lost (KeWaitForMultipleObjects, KiSignalObject).
THEOREM NoWakeupIsLost == Spec => []NoLostWakeup
<1>1. IInv => NoLostWakeup
  BY DEF IInv
<1>2. QED
  BY <1>1, DispatcherInvariant, PTL

\* The ready queue holds exactly the ready threads, each once, and one thread
\* at most is running: the current one (KiReadyThread, KiSchedule).
THEOREM ReadyThreadsQueued == Spec => []ReadyQueueOK
<1>1. IInv => ReadyQueueOK
  BY DEF IInv
<1>2. QED
  BY <1>1, DispatcherInvariant, PTL

-----------------------------------------------------------------------------
(* Signals *)

\* No wait names an object twice.  One that does may take two signals where
\* there is one (KeWaitForMultipleObjects tests all objects before it consumes
\* any), so the range of signals depends on this.
NoObjectTwice == \A objs \in WaitLists : NoRepeats(objs)

Top(o) == IF o \in Semaphores THEN Limit[o] ELSE 1

\* What a satisfied wait consumes is there, once.
LEMMA ConsumesWhatIsThere ==
    ASSUME NEW objs \in Seq(Objects), NoRepeats(objs), NEW all \in BOOLEAN, CanSatisfy(objs, all),
           NEW o \in Objects, signal[o] \in Int
    PROVE  LET n == Cardinality({i \in Consumes(objs, all) : objs[i] = o})
           IN  n = 0 \/ (n = 1 /\ signal[o] > 0)
<1> DEFINE K == {i \in Consumes(objs, all) : objs[i] = o}
<1>1. CASE K = {}
  BY <1>1, FS_EmptySet
<1>2. CASE K # {}
  <2>1. PICK i \in K : TRUE
    BY <1>2
  <2>2. i \in DOMAIN objs /\ objs[i] = o /\ KiCanAcquire(objs[i])
    BY <2>1 DEF Consumes, CanSatisfy
  <2>3. K = {i}
    BY <2>1, <2>2 DEF NoRepeats, Consumes
  <2>4. Cardinality(K) = 1
    BY <2>3, FS_Singleton
  <2>5. QED
    BY <2>2, <2>4 DEF KiCanAcquire
<1>3. QED
  BY <1>1, <1>2

\* A wait keeps the signals in range: it takes one that is there, or none.
LEMMA PassKeepsRange ==
    ASSUME NoObjectTwice, IInv, SignalInRange, NEW t, NEW objs \in WaitLists, NEW all \in BOOLEAN,
           NEW deadline, NEW zero, WaitPass(t, objs, all, deadline, zero)
    PROVE  SignalInRange'
<1>1. objs \in Seq(Objects) /\ NoRepeats(objs)
  BY ConstantsAssumption DEF NoObjectTwice
<1>2. CASE signal' = signal
  BY <1>2 DEF SignalInRange
<1>3. CASE CanSatisfy(objs, all) /\ signal' = KiConsumeSignal(objs, Consumes(objs, all))
  <2>1. ASSUME NEW o \in Objects PROVE signal'[o] \in 0..Top(o)
    <3> DEFINE n == Cardinality({i \in Consumes(objs, all) : objs[i] = o})
    <3>1. signal[o] \in 0..Top(o) /\ Top(o) \in Nat /\ signal[o] \in Int
      BY ConstantsAssumption DEF SignalInRange, Top
    <3>2. n = 0 \/ (n = 1 /\ signal[o] > 0)
      BY <1>1, <1>3, <3>1, ConsumesWhatIsThere
    <3>3. signal'[o] = CASE o \in SynchronizationEvents -> IF n > 0 THEN 0 ELSE signal[o]
                         [] o \in Semaphores \cup Mutants -> signal[o] - n
                         [] OTHER -> signal[o]
      BY <1>3 DEF KiConsumeSignal
    <3> HIDE DEF n
    <3>4. signal'[o] \in {0, signal[o], signal[o] - n}
      BY <3>2, <3>3, ObjectKindsAssumption
    <3>5. QED
      BY <3>1, <3>2, <3>4
  <2>2. QED
    BY <2>1 DEF SignalInRange, Top
<1>4. QED
  BY <1>2, <1>3 DEF WaitPass

\* One signal is set to a value in its range.
LEMMA SetKeepsRange ==
    ASSUME IInv, SignalInRange, NEW o \in Objects, NEW v \in 0..Top(o),
           signal' = [signal EXCEPT ![o] = v]
    PROVE  SignalInRange'
<1>1. signal \in [Objects -> Int]
  BY DEF IInv, TypeOK
<1>2. QED
  BY <1>1 DEF SignalInRange, Top

LEMMA RangeStep == NoObjectTwice /\ IInv /\ SignalInRange /\ [Next]_vars => SignalInRange'
<1> SUFFICES ASSUME NoObjectTwice, IInv, SignalInRange, [Next]_vars PROVE SignalInRange'
  OBVIOUS
<1>1. CASE UNCHANGED signal
  BY <1>1 DEF SignalInRange
<1>2. \A t \in UserThreads : t \in Threads /\ t \in Objects
  BY DEF Threads, Objects
<1>3. ASSUME NEW t \in UserThreads, KeTerminateThread(t) PROVE SignalInRange'
  <2>1. CASE signal' = [signal EXCEPT ![t] = 1]
    <3>1. 1 \in 0..Top(t)
      BY ConstantsAssumption, ObjectKindsAssumption DEF Top
    <3>2. QED
      BY <1>2, <2>1, <3>1, SetKeepsRange
  <2>2. QED
    BY <1>1, <1>3, <2>1 DEF KeTerminateThread
<1>4. ASSUME NEW t \in Threads, NEW e \in NotificationEvents \cup SynchronizationEvents,
             KeSetEvent(t, e) \/ KeResetEvent(t, e)
      PROVE  SignalInRange'
  <2>1. PICK v \in {0, 1} : signal' = [signal EXCEPT ![e] = v]
    BY <1>4 DEF KeSetEvent, KeResetEvent, Signal
  <2>2. e \in Objects /\ v \in 0..Top(e)
    BY ConstantsAssumption, ObjectKindsAssumption DEF Top, Objects
  <2>3. QED
    BY <2>1, <2>2, SetKeepsRange
<1>5. ASSUME NEW t \in UserThreads, NEW m \in Mutants, KeReleaseMutant(t, m) PROVE SignalInRange'
  <2>1. signal' = [signal EXCEPT ![m] = 1]
    BY <1>5 DEF KeReleaseMutant, Signal
  <2>2. m \in Objects /\ 1 \in 0..Top(m)
    BY ConstantsAssumption, ObjectKindsAssumption DEF Top, Objects
  <2>3. QED
    BY <2>1, <2>2, SetKeepsRange
<1>6. ASSUME NEW t \in UserThreads, NEW s \in Semaphores, NEW n \in Releases, NtReleaseSemaphore(t, s, n)
      PROVE  SignalInRange'
  <2> DEFINE v == IF signal[s] + n > Limit[s] THEN Limit[s] ELSE signal[s] + n
  <2>1. signal' = [signal EXCEPT ![s] = v]
    BY <1>6 DEF NtReleaseSemaphore, Signal
  <2>2. s \in Objects /\ Limit[s] \in Nat /\ n \in Nat /\ Top(s) = Limit[s]
    BY ConstantsAssumption DEF Top, Objects
  <2>3. signal[s] \in 0..Limit[s]
    BY <2>2 DEF SignalInRange
  <2>4. v \in 0..Top(s)
    BY <2>2, <2>3
  <2> HIDE DEF v
  <2>5. QED
    BY <2>1, <2>2, <2>4, SetKeepsRange
<1>7. ASSUME NEW t \in UserThreads, NEW objs \in WaitLists, NEW all \in BOOLEAN, NEW timeout \in Timeouts,
             KeWaitForMultipleObjects(t, objs, all, timeout)
      PROVE  SignalInRange'
  <2>1. WaitPass(t, objs, all, IF timeout = Infinite THEN 0 ELSE tick + timeout, timeout = 0)
    BY <1>7 DEF KeWaitForMultipleObjects
  <2>2. QED
    BY <2>1, PassKeepsRange
<1>8. ASSUME NEW t \in UserThreads, ResumeWait(t) PROVE SignalInRange'
  <2>1. CASE WaitPass(t, call[t].objs, call[t].all, call[t].deadline, FALSE)
    <3>1. call[t].objs \in WaitLists /\ call[t].all \in BOOLEAN
      BY <1>2, <1>8, IInvFacts DEF Calls, ResumeWait
    <3>2. QED
      BY <2>1, <3>1, PassKeepsRange
  <2>2. QED
    BY <1>1, <1>8, <2>1 DEF ResumeWait
<1>9. CASE KeClockTick
  BY <1>1, <1>9 DEF KeClockTick
<1>10. ASSUME NEW t \in Threads, KeYield(t) PROVE SignalInRange'
  BY <1>1, <1>10 DEF KeYield
<1>11. ASSUME NEW t \in UserThreads,
              \/ NtCreateThreadEx(t) \/ ResumeDelay(t)
              \/ \E n \in 1..MaxTimeout : NtDelayExecution(t, n)
       PROVE  SignalInRange'
  BY <1>1, <1>11 DEF NtCreateThreadEx, ResumeDelay, NtDelayExecution
<1>12. CASE UNCHANGED vars
  BY <1>1, <1>12 DEF vars
<1>13. QED
  BY <1>3, <1>4, <1>5, <1>6, <1>7, <1>8, <1>9, <1>10, <1>11, <1>12 DEF Next

\* As long as no wait names an object twice, signals stay between zero and the
\* limit: no number of waiters that retest after one signal takes more than
\* there is, and no release passes the limit (KiConsumeSignal,
\* NtReleaseSemaphore).
THEOREM SignalsStayInRange == ASSUME NoObjectTwice PROVE Spec => []SignalInRange
<1>1. Init => SignalInRange
  BY ConstantsAssumption DEF Init, SignalInRange
<1>2. IInv /\ SignalInRange /\ [Next]_vars => SignalInRange'
  BY RangeStep
<1>3. QED
  BY <1>1, <1>2, DispatcherInvariant, PTL DEF Spec

-----------------------------------------------------------------------------
(* How a wait ends *)

\* A thread that was told its wait has run out: its deadline has come.
TimeoutsDue ==
    \A t \in Threads :
        call[t].status = "TIMEOUT" => call[t].deadline # 0 /\ tick >= call[t].deadline

\* A pass of the loop leaves no timeout behind, and no other call changes.
LEMMA PassCalls ==
    ASSUME IInv, NEW t \in Threads, NEW objs, NEW all, NEW deadline, NEW zero,
           WaitPass(t, objs, all, deadline, zero)
    PROVE  /\ \A u \in Threads \ {t} : call'[u] = call[u]
           /\ call'[t].status # "TIMEOUT"
           /\ call'[t] # NoCall \/ CanSatisfy(objs, all)
                 \/ ((zero \/ TimedOut(deadline)) /\ signal' = signal)
<1>1. call \in [Threads -> Calls]
  BY IInvFacts
<1>2. CASE call' = [call EXCEPT ![t] = NoCall]
  <2>1. \/ CanSatisfy(objs, all) \/ ((zero \/ TimedOut(deadline)) /\ signal' = signal)
        \/ call' = [call EXCEPT ![t] = Call("wait", objs, all, deadline, "PENDING")]
    BY DEF WaitPass
  <2>2. NoCall.status # "TIMEOUT" /\ Call("wait", objs, all, deadline, "PENDING") # NoCall
    BY DEF NoCall, Call
  <2>3. QED
    BY <1>1, <1>2, <2>1, <2>2
<1>3. CASE call' = [call EXCEPT ![t] = Call("wait", objs, all, deadline, "PENDING")]
  <2>1. /\ Call("wait", objs, all, deadline, "PENDING") # NoCall
        /\ Call("wait", objs, all, deadline, "PENDING").status # "TIMEOUT"
    BY DEF NoCall, Call
  <2>2. QED
    BY <1>1, <1>3, <2>1
<1>4. QED
  BY <1>2, <1>3 DEF WaitPass, Return

\* Waking a thread changes nothing of its call but the status.
LEMMA WakeCalls ==
    ASSUME IInv, NEW W \in SUBSET Threads, NEW why \in {"SUCCESS", "TIMEOUT"},
           KiWakeWaitingThread(W, why), NEW t \in Threads
    PROVE  /\ call'[t].op = call[t].op /\ call'[t].deadline = call[t].deadline
           /\ call'[t].status = IF t \in W THEN why ELSE call[t].status
<1>1. call[t] \in Calls
  BY IInvFacts
<1>2. call'[t] = IF t \in W THEN [call[t] EXCEPT !.status = why] ELSE call[t]
  BY DEF KiWakeWaitingThread
<1>3. /\ [call[t] EXCEPT !.status = why].op = call[t].op
      /\ [call[t] EXCEPT !.status = why].deadline = call[t].deadline
      /\ [call[t] EXCEPT !.status = why].status = why
  BY <1>1 DEF Calls
<1>4. QED
  BY <1>2, <1>3

\* The calls of all threads after a step: woken, changed by their own thread,
\* or as they were.
LEMMA CallSteps ==
    ASSUME IInv, [Next]_vars
    PROVE  \/ call' = call /\ tick' = tick
           \/ \E W \in SUBSET Threads : KiWakeWaitingThread(W, "SUCCESS") /\ tick' = tick
           \/ KeClockTick
           \/ \E t \in UserThreads : ResumeWait(t)
           \/ /\ tick' = tick
              /\ \E t \in UserThreads :
                    /\ call[t].op # "wait" /\ call'[t].status # "TIMEOUT"
                    /\ \A u \in Threads \ {t} : call'[u] = call[u]
<1> DEFINE Goal == \/ call' = call /\ tick' = tick
                   \/ \E W \in SUBSET Threads : KiWakeWaitingThread(W, "SUCCESS") /\ tick' = tick
                   \/ KeClockTick
                   \/ \E t \in UserThreads : ResumeWait(t)
                   \/ /\ tick' = tick
                      /\ \E t \in UserThreads :
                            /\ call[t].op # "wait" /\ call'[t].status # "TIMEOUT"
                            /\ \A u \in Threads \ {t} : call'[u] = call[u]
<1>1. call \in [Threads -> Calls] /\ UserThreads \subseteq Threads
  BY IInvFacts DEF Threads
<1>2. NoCall.op # "wait" /\ NoCall.status # "TIMEOUT"
  BY DEF NoCall, Call
<1>3. ASSUME UNCHANGED vars PROVE Goal
  BY <1>3 DEF vars
<1>4. ASSUME NEW t \in Threads, KeYield(t) PROVE Goal
  BY <1>4 DEF KeYield
<1>5. ASSUME NEW o, NEW v, Signal(o, v) PROVE Goal
  <2>1. Woken(o) \in SUBSET Threads
    BY DEF Woken
  <2>2. QED
    BY <1>5, <2>1 DEF Signal, KiSignalObject
<1>6. ASSUME NEW t \in UserThreads, NtCreateThreadEx(t) PROVE Goal
  BY <1>6 DEF NtCreateThreadEx
<1>7. ASSUME NEW t \in UserThreads, KeTerminateThread(t) PROVE Goal
  <2>1. Woken(t) \in SUBSET Threads
    BY DEF Woken
  <2>2. QED
    BY <1>7, <2>1 DEF KeTerminateThread, KiSignalObject
<1>8. ASSUME NEW t \in UserThreads, ResumeDelay(t) PROVE Goal
  <2>1. CASE call' = [call EXCEPT ![t] = NoCall]
    <3>1. call'[t] = NoCall /\ \A u \in Threads \ {t} : call'[u] = call[u]
      BY <1>1, <2>1
    <3>2. QED
      BY <1>2, <1>8, <3>1 DEF ResumeDelay
  <2>2. QED
    BY <1>8, <2>1 DEF ResumeDelay
<1>9. ASSUME NEW t \in UserThreads, NEW objs \in WaitLists, NEW all \in BOOLEAN, NEW timeout \in Timeouts,
             KeWaitForMultipleObjects(t, objs, all, timeout)
      PROVE  Goal
  <2>1. WaitPass(t, objs, all, IF timeout = Infinite THEN 0 ELSE tick + timeout, timeout = 0)
    BY <1>9 DEF KeWaitForMultipleObjects
  <2>2. call'[t].status # "TIMEOUT" /\ \A u \in Threads \ {t} : call'[u] = call[u]
    BY <1>1, <2>1, PassCalls
  <2>3. QED
    BY <1>2, <1>9, <2>2 DEF KeWaitForMultipleObjects, Executing
<1>10. ASSUME NEW t \in UserThreads, NEW n \in 1..MaxTimeout, NtDelayExecution(t, n) PROVE Goal
  <2> DEFINE c == Call("delay", <<>>, FALSE, tick + n, "PENDING")
  <2>1. c.status # "TIMEOUT" /\ call' = [call EXCEPT ![t] = c]
    BY <1>10 DEF NtDelayExecution, Call
  <2> HIDE DEF c
  <2>2. call'[t] = c /\ \A u \in Threads \ {t} : call'[u] = call[u]
    BY <1>1, <2>1
  <2>3. QED
    BY <1>2, <1>10, <2>1, <2>2 DEF NtDelayExecution, Executing
<1>11. ASSUME NEW t \in Threads, NEW e, KeSetEvent(t, e) \/ KeResetEvent(t, e) PROVE Goal
  BY <1>5, <1>11 DEF KeSetEvent, KeResetEvent
<1>12. ASSUME NEW t, NEW s, NEW n, NtReleaseSemaphore(t, s, n) \/ KeReleaseMutant(t, s) PROVE Goal
  BY <1>5, <1>12 DEF NtReleaseSemaphore, KeReleaseMutant
<1>13. ASSUME KeClockTick \/ \E t \in UserThreads : ResumeWait(t) PROVE Goal
  BY <1>13
<1> HIDE DEF Goal
<1>14. Goal
  BY <1>3, <1>4, <1>6, <1>7, <1>8, <1>9, <1>10, <1>11, <1>12, <1>13 DEF Next
<1>15. QED
  BY <1>14 DEF Goal

\* The clock never goes back.
LEMMA TickGoesOn == ASSUME IInv, KeClockTick PROVE tick' >= tick /\ tick' \in Nat
<1>1. tick \in 0..MaxTick /\ MaxTick \in Nat
  BY IInvFacts, ConstantsAssumption
<1>2. tick' = IF tick < MaxTick THEN tick + 1 ELSE tick
  BY DEF KeClockTick
<1>3. QED
  BY <1>1, <1>2

\* The timeouts of the clock are due.
LEMMA TickCalls ==
    ASSUME IInv, KeClockTick, NEW t \in Threads
    PROVE  /\ call'[t].op = call[t].op /\ call'[t].deadline = call[t].deadline
           /\ \/ call'[t].status = call[t].status
              \/ call[t].deadline # 0 /\ tick' >= call[t].deadline
<1> DEFINE W == Expired(tick')
<1>1. W \in SUBSET Threads /\ KiWakeWaitingThread(W, "TIMEOUT")
  BY DEF KeClockTick, Expired
<1>2. t \in W => call[t].deadline # 0 /\ tick' >= call[t].deadline
  BY DEF Expired
<1> HIDE DEF W
<1>3. /\ call'[t].op = call[t].op /\ call'[t].deadline = call[t].deadline
      /\ call'[t].status = IF t \in W THEN "TIMEOUT" ELSE call[t].status
  BY <1>1, WakeCalls
<1>4. QED
  BY <1>2, <1>3

LEMMA DueStep == IInv /\ TimeoutsDue /\ [Next]_vars => TimeoutsDue'
<1> SUFFICES ASSUME IInv, TimeoutsDue, [Next]_vars, NEW t \in Threads, call'[t].status = "TIMEOUT"
             PROVE  call'[t].deadline # 0 /\ tick' >= call'[t].deadline
  BY DEF TimeoutsDue
<1>1. call[t].status = "TIMEOUT" => call[t].deadline # 0 /\ tick >= call[t].deadline
  BY DEF TimeoutsDue
<1>2. tick \in Nat /\ call[t].deadline \in Nat
  BY IInvFacts, ConstantsAssumption DEF Calls
<1>3. CASE call' = call /\ tick' = tick
  BY <1>1, <1>3
<1>4. ASSUME NEW W \in SUBSET Threads, KiWakeWaitingThread(W, "SUCCESS"), tick' = tick
      PROVE  call'[t].deadline # 0 /\ tick' >= call'[t].deadline
  BY <1>1, <1>4, WakeCalls
<1>5. CASE KeClockTick
  BY <1>1, <1>2, <1>5, TickGoesOn, TickCalls
<1>6. ASSUME NEW u \in UserThreads, ResumeWait(u)
      PROVE  call'[t].deadline # 0 /\ tick' >= call'[t].deadline
  <2>1. tick' = tick /\ u \in Threads /\ call \in [Threads -> Calls]
    BY <1>6, IInvFacts DEF ResumeWait, Threads
  <2>2. call'[u].status # "TIMEOUT" /\ \A v \in Threads \ {u} : call'[v] = call[v]
    <3>1. CASE Return(u)
      <4>1. NoCall.status # "TIMEOUT"
        BY DEF NoCall, Call
      <4>2. QED
        BY <2>1, <3>1, <4>1 DEF Return
    <3>2. CASE WaitPass(u, call[u].objs, call[u].all, call[u].deadline, FALSE)
      BY <2>1, <3>2, PassCalls
    <3>3. QED
      BY <1>6, <3>1, <3>2 DEF ResumeWait
  <2>3. QED
    BY <1>1, <2>1, <2>2
<1>7. ASSUME tick' = tick, NEW u \in UserThreads, call'[u].status # "TIMEOUT",
             \A v \in Threads \ {u} : call'[v] = call[v]
      PROVE  call'[t].deadline # 0 /\ tick' >= call'[t].deadline
  BY <1>1, <1>7
<1>8. QED
  BY <1>3, <1>4, <1>5, <1>6, <1>7, CallSteps

\* How the step that ends a wait ends it.
LEMMA OutcomeStep ==
    ASSUME IInv, TimeoutsDue, [Next]_vars, NEW t \in UserThreads,
           call[t].op = "wait", call'[t] = NoCall
    PROVE  \/ CanSatisfy(call[t].objs, call[t].all)
           \/ /\ call[t].deadline # 0 /\ tick >= call[t].deadline
              /\ signal' = signal
<1>1. t \in Threads /\ NoCall.op # "wait" /\ call'[t] # call[t] /\ call'[t].op # "wait"
  BY DEF Threads, NoCall, Call
<1>2. ~KeClockTick /\ ~\E W \in SUBSET Threads : KiWakeWaitingThread(W, "SUCCESS")
  BY <1>1, WakeCalls, TickCalls
<1>3. PICK u \in UserThreads : ResumeWait(u)
  BY <1>1, <1>2, CallSteps
<1>4. u \in Threads /\ call \in [Threads -> Calls]
  BY IInvFacts DEF Threads
<1>5. u = t
  <2>1. CASE Return(u)
    BY <1>1, <1>4, <2>1 DEF Return
  <2>2. CASE WaitPass(u, call[u].objs, call[u].all, call[u].deadline, FALSE)
    BY <1>1, <1>4, <2>2, PassCalls
  <2>3. QED
    BY <1>3, <2>1, <2>2 DEF ResumeWait
<1>6. CASE call[t].status = "TIMEOUT" /\ UNCHANGED signal
  BY <1>1, <1>6 DEF TimeoutsDue
<1>7. CASE WaitPass(t, call[t].objs, call[t].all, call[t].deadline, FALSE)
  <2>1. \/ CanSatisfy(call[t].objs, call[t].all)
        \/ (FALSE \/ TimedOut(call[t].deadline)) /\ signal' = signal
    BY <1>1, <1>7, PassCalls
  <2>2. QED
    BY <2>1 DEF TimedOut
<1>8. QED
  BY <1>3, <1>5, <1>6, <1>7 DEF ResumeWait

\* A wait that blocked ends because it can be satisfied at that instant, or
\* because its deadline has come, and then it takes no signal
\* (KeWaitForMultipleObjects, KeClockTick).
THEOREM WaitsEndRightly == Spec => WaitOutcomes
<1>1. Init => TimeoutsDue
  BY DEF Init, TimeoutsDue, NoCall, Call
<1>2. IInv /\ TimeoutsDue /\ [Next]_vars =>
        [\A t \in UserThreads :
            call[t].op = "wait" /\ call'[t] = NoCall =>
                \/ CanSatisfy(call[t].objs, call[t].all)
                \/ /\ call[t].deadline # 0 /\ tick >= call[t].deadline
                   /\ signal' = signal]_vars
  BY OutcomeStep
<1>3. QED
  BY <1>1, <1>2, DueStep, DispatcherInvariant, PTL DEF Spec, WaitOutcomes
=============================================================================
