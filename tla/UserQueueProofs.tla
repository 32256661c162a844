--------------------------- MODULE UserQueueProofs ---------------------------
(***************************************************************************)
(* Proofs about UserQueue, for any number of threads, windows and cells:   *)
(* a thread with work finds its input event set, and the head/tail rings   *)
(* implement the bounded queues of MessageFifo.  And about Input, whose    *)
(* thread fills them: what the devices deliver is kept until it is taken.  *)
(***************************************************************************)
EXTENDS UserQueue, Input, SequenceTheorems, WellFoundedInduction, TLAPS

C == USER_MESSAGE_QUEUE_CAPACITY

-----------------------------------------------------------------------------
(* Indices modulo the capacity *)

LEMMA Modulo ==
    ASSUME NEW c \in Nat \ {0}
    PROVE  /\ \A x \in 0..(c - 1) : x % c = x
           /\ \A x \in c..(2 * c - 1) : x % c = x - c
           /\ \A x \in (-c)..(-1) : x % c = x + c
<1>1. \A a, q, r \in Int : a = c * q + r /\ r >= 0 /\ r < c => a % c = r
  OBVIOUS
<1>2. ASSUME NEW x \in 0..(c - 1) PROVE x % c = x
  OBVIOUS
<1>3. ASSUME NEW x \in c..(2 * c - 1) PROVE x % c = x - c
  <2>1. x = c * 1 + (x - c)
    OBVIOUS
  <2>2. QED
    BY <1>1, <2>1
<1>4. ASSUME NEW x \in (-c)..(-1) PROVE x % c = x + c
  <2>1. x = c * (-1) + (x + c)
    OBVIOUS
  <2>2. QED
    BY <1>1, <2>1
<1>5. QED
  BY <1>2, <1>3, <1>4

\* How many messages a ring with indices h and l holds, and the i-th cell from l.
Held(c, h, l) == (h - l) % c
Cell(c, l, i) == (l + i - 1) % c

\* The same by cases.
LEMMA ByCases ==
    ASSUME NEW c \in Nat \ {0}, NEW h \in 0..(c - 1), NEW l \in 0..(c - 1)
    PROVE  /\ Held(c, h, l) = IF h >= l THEN h - l ELSE h - l + c
           /\ (h + 1) % c = IF h + 1 = c THEN 0 ELSE h + 1
           /\ \A i \in 1..c : Cell(c, l, i) = IF l + i - 1 < c THEN l + i - 1 ELSE l + i - 1 - c
<1>1. Held(c, h, l) = IF h >= l THEN h - l ELSE h - l + c
  <2>1. CASE h >= l
    <3>1. h - l \in 0..(c - 1)
      BY <2>1
    <3>2. QED
      BY <2>1, <3>1, Modulo DEF Held
  <2>2. CASE ~(h >= l)
    <3>1. h - l \in (-c)..(-1)
      BY <2>2
    <3>2. QED
      BY <2>2, <3>1, Modulo DEF Held
  <2>3. QED
    BY <2>1, <2>2
<1>2. (h + 1) % c = IF h + 1 = c THEN 0 ELSE h + 1
  <2>1. CASE h + 1 = c
    <3>1. h + 1 \in c..(2 * c - 1)
      BY <2>1
    <3>2. QED
      BY <2>1, <3>1, Modulo
  <2>2. CASE h + 1 # c
    <3>1. h + 1 \in 0..(c - 1)
      BY <2>2
    <3>2. QED
      BY <2>2, <3>1, Modulo
  <2>3. QED
    BY <2>1, <2>2
<1>3. ASSUME NEW i \in 1..c
      PROVE  Cell(c, l, i) = IF l + i - 1 < c THEN l + i - 1 ELSE l + i - 1 - c
  <2>1. CASE l + i - 1 < c
    <3>1. l + i - 1 \in 0..(c - 1)
      BY <2>1
    <3>2. QED
      BY <2>1, <3>1, Modulo DEF Cell
  <2>2. CASE ~(l + i - 1 < c)
    <3>1. l + i - 1 \in c..(2 * c - 1)
      BY <2>2
    <3>2. QED
      BY <2>2, <3>1, Modulo DEF Cell
  <2>3. QED
    BY <2>1, <2>2
<1>4. QED
  BY <1>1, <1>2, <1>3

\* A ring that is not full takes one message more, in a cell that holds none.
LEMMA RingPost ==
    ASSUME NEW c \in Nat \ {0}, NEW h \in 0..(c - 1), NEW l \in 0..(c - 1), (h + 1) % c # l
    PROVE  /\ Held(c, h, l) \in 0..(c - 2)
           /\ Held(c, (h + 1) % c, l) = Held(c, h, l) + 1
           /\ Cell(c, l, Held(c, h, l) + 1) = h
           /\ \A i \in 1..Held(c, h, l) : Cell(c, l, i) \in 0..(c - 1) \ {h}
<1> DEFINE k == (h + 1) % c
           n == Held(c, h, l)
<1>1. k = IF h + 1 = c THEN 0 ELSE h + 1
  BY ByCases
<1>2. n = IF h >= l THEN h - l ELSE h - l + c
  BY ByCases
<1> HIDE DEF k, n
<1>3. k \in 0..(c - 1) /\ n \in 0..(c - 1)
  BY <1>1, <1>2
<1>4. Held(c, k, l) = IF k >= l THEN k - l ELSE k - l + c
  BY <1>3, ByCases
<1>5. \A i \in 1..c : Cell(c, l, i) = IF l + i - 1 < c THEN l + i - 1 ELSE l + i - 1 - c
  BY ByCases
<1>6. k # l
  BY DEF k
<1>7. n \in 0..(c - 2) /\ Held(c, k, l) = n + 1
  BY <1>1, <1>2, <1>3, <1>4, <1>6
<1>8. Cell(c, l, n + 1) = h
  BY <1>2, <1>5, <1>7
<1>9. \A i \in 1..n : Cell(c, l, i) \in 0..(c - 1) \ {h}
  BY <1>2, <1>5, <1>7
<1>10. QED
  BY <1>7, <1>8, <1>9 DEF k, n

\* Taking the oldest leaves the others in their order.
LEMMA RingTake ==
    ASSUME NEW c \in Nat \ {0}, NEW h \in 0..(c - 1), NEW l \in 0..(c - 1), h # l
    PROVE  /\ Held(c, h, l) \in 1..(c - 1)
           /\ Held(c, h, (l + 1) % c) = Held(c, h, l) - 1
           /\ \A i \in 1..(Held(c, h, l) - 1) : Cell(c, (l + 1) % c, i) = Cell(c, l, i + 1)
           /\ \A i \in 1..Held(c, h, l) : Cell(c, l, i) \in 0..(c - 1)
<1> DEFINE k == (l + 1) % c
           n == Held(c, h, l)
<1>1. k = IF l + 1 = c THEN 0 ELSE l + 1
  BY ByCases
<1>2. n = IF h >= l THEN h - l ELSE h - l + c
  BY ByCases
<1> HIDE DEF k, n
<1>3. k \in 0..(c - 1) /\ n \in 1..(c - 1)
  BY <1>1, <1>2
<1>4. Held(c, h, k) = IF h >= k THEN h - k ELSE h - k + c
  BY <1>3, ByCases
<1>5. \A i \in 1..c : Cell(c, l, i) = IF l + i - 1 < c THEN l + i - 1 ELSE l + i - 1 - c
  BY ByCases
<1>6. \A i \in 1..c : Cell(c, k, i) = IF k + i - 1 < c THEN k + i - 1 ELSE k + i - 1 - c
  BY <1>3, ByCases
<1>7. Held(c, h, k) = n - 1
  BY <1>1, <1>2, <1>3, <1>4
<1>8. ASSUME NEW i \in 1..(n - 1) PROVE Cell(c, k, i) = Cell(c, l, i + 1)
  <2>1. i \in 1..c /\ i + 1 \in 1..c
    BY <1>3
  <2>2. QED
    BY <1>1, <1>5, <1>6, <2>1
<1>9. \A i \in 1..n : Cell(c, l, i) \in 0..(c - 1)
  BY <1>3, <1>5
<1>10. QED
  BY <1>3, <1>7, <1>8, <1>9 DEF k, n

-----------------------------------------------------------------------------
(* The input event *)

\* A slot that was never used owes nothing: a window created hidden does not bring a
\* WM_PAINT of its own that no event was set for.
UnusedOweNothing == \A w \in Windows : w >= next_window_index => update[w] = 0

\* The inductive invariant.
IInv == TypeOK /\ WorkSignalled /\ UnusedOweNothing

LEMMA CapacityFacts == C \in Nat \ {0} /\ Cells = 0..(C - 1) /\ \A i \in Cells : Succ(i) \in Cells
  BY UserQueueAssumption, ByCases DEF C, Cells, Succ

LEMMA InitIInv == Init => IInv
<1> SUFFICES ASSUME Init PROVE IInv
  OBVIOUS
<1>1. TypeOK
  BY CapacityFacts, UserQueueAssumption DEF Init, TypeOK, NoCallback, Windows
<1>2. WorkSignalled /\ UnusedOweNothing
  BY DEF Init, WorkSignalled, UnusedOweNothing, Windows
<1>3. QED
  BY <1>1, <1>2 DEF IInv

\* What the event of t is after it was brought in step.
LEMMA SyncType ==
    ASSUME NEW t, NEW h, NEW l, NEW own, NEW upd
    PROVE  /\ KiUserSyncInputEvent(t, h, l, own, upd) \in {"none", "reset", "set"}
           /\ h # l \/ Owed(t, own, upd) # {} =>
                 KiUserSyncInputEvent(t, h, l, own, upd) \in {"none", "set"}
  BY DEF KiUserSyncInputEvent

LEMMA EnqueueStep ==
    ASSUME IInv, NEW u \in Threads, NEW m \in Messages, Enqueue(u, m)
    PROVE  IInv'
<1>1. head[u] \in Cells /\ Succ(head[u]) \in Cells
  BY CapacityFacts DEF IInv, TypeOK
<1>2. TypeOK'
  <2>1. msgs' \in [Threads -> [Cells -> Messages \cup {NoMessage}]]
    BY <1>1 DEF IInv, TypeOK, Enqueue
  <2>2. head' \in [Threads -> Cells]
    BY <1>1 DEF IInv, TypeOK, Enqueue
  <2>3. event' \in [Threads -> {"none", "reset", "set"}]
    BY SyncType DEF IInv, TypeOK, Enqueue
  <2>4. QED
    BY <2>1, <2>2, <2>3 DEF IInv, TypeOK, Enqueue
<1>3. WorkSignalled'
  BY SyncType DEF IInv, TypeOK, WorkSignalled, Enqueue, HasMessage, Owed
<1>4. QED
  BY <1>2, <1>3 DEF IInv, UnusedOweNothing, Enqueue

\* A nonempty set of windows has a first: the choice of KiUserNextUpdateWindow.
LEMMA LeastWindow ==
    ASSUME NEW S \in SUBSET Windows, S # {}
    PROVE  \E w \in S : \A v \in S : w <= v
<1>1. S \subseteq Nat
  BY UserQueueAssumption DEF Windows
<1>2. PICK w \in S : \A v \in S : <<v, w>> \notin OpToRel(<, Nat)
  BY <1>1, NatLessThanWellFounded, WFMin
<1>3. ASSUME NEW v \in S PROVE ~(v < w)
  BY <1>1, <1>2 DEF OpToRel
<1>4. QED
  BY <1>1, <1>3

\* A take counts a WM_PAINT down or advances the tail.
LEMMA AttemptStep ==
    ASSUME IInv, NEW t \in Threads, NEW remove \in BOOLEAN,
           NEW otherwise \in {"run", "get", "wait"}, Attempt(t, remove, otherwise)
    PROVE  IInv'
<1>1. tail[t] \in Cells /\ Succ(tail[t]) \in Cells
  BY CapacityFacts DEF IInv, TypeOK
<1>2. UNCHANGED <<msgs, head, owner, next_window_index, callback>>
      /\ mode' \in [Threads -> {"run", "get", "wait", "sleep"}]
  BY DEF IInv, TypeOK, Attempt
<1>3. CASE ~HasMessage(t)
  BY <1>2, <1>3 DEF Attempt, IInv, TypeOK, WorkSignalled, UnusedOweNothing, HasMessage, Owed
<1>4. CASE HasMessage(t) /\ head[t] # tail[t]
  <2>1. UNCHANGED update
    BY <1>4 DEF Attempt, KiUserTakeMessage
  <2>2. CASE remove
    <3>1. /\ tail' = [tail EXCEPT ![t] = Succ(tail[t])]
          /\ event' = [event EXCEPT ![t] =
                         KiUserSyncInputEvent(t, head[t], Succ(tail[t]), owner, update)]
      BY <1>4, <2>2 DEF Attempt, KiUserTakeMessage
    <3>2. TypeOK'
      BY <1>1, <1>2, <2>1, <3>1, SyncType DEF IInv, TypeOK
    <3>3. WorkSignalled'
      BY <1>2, <2>1, <3>1, SyncType DEF IInv, TypeOK, WorkSignalled, HasMessage, Owed
    <3>4. QED
      BY <1>2, <2>1, <3>2, <3>3 DEF IInv, UnusedOweNothing
  <2>3. CASE ~remove
    <3>1. UNCHANGED <<tail, event>>
      BY <1>4, <2>3 DEF Attempt, KiUserTakeMessage
    <3>2. QED
      BY <1>2, <2>1, <3>1 DEF IInv, TypeOK, WorkSignalled, UnusedOweNothing, HasMessage, Owed
  <2>4. QED
    BY <2>2, <2>3
<1>5. CASE HasMessage(t) /\ head[t] = tail[t]
  <2> DEFINE w == KiUserNextUpdateWindow(t)
             left == [update EXCEPT ![w] = @ - 1]
  <2>1. Owed(t, owner, update) # {}
    BY <1>5 DEF HasMessage
  <2>2. /\ update' = left /\ UNCHANGED tail
        /\ event' = IF left[w] = 0
                    THEN [event EXCEPT ![t] =
                            KiUserSyncInputEvent(t, head[t], tail[t], owner, left)]
                    ELSE event
    BY <1>5 DEF Attempt, KiUserTakeMessage
  <2>3. w \in Owed(t, owner, update)
    <3>1. Owed(t, owner, update) \in SUBSET Windows
      BY DEF Owed
    <3>2. \E v \in Owed(t, owner, update) : \A u \in Owed(t, owner, update) : v <= u
      BY <2>1, <3>1, LeastWindow
    <3>3. QED
      BY <3>2 DEF KiUserNextUpdateWindow
  <2> HIDE DEF w
  <2>4. w \in Windows /\ update[w] > 0 /\ owner[w] = t
        /\ update[w] \in 0..USER_PAINT_REDELIVERY /\ USER_PAINT_REDELIVERY \in Nat
    BY <2>3, UserQueueAssumption DEF Owed, IInv, TypeOK
  <2>5. left[w] = update[w] - 1 /\ left \in [Windows -> 0..USER_PAINT_REDELIVERY]
        /\ \A v \in Windows \ {w} : left[v] = update[v]
    BY <2>4 DEF IInv, TypeOK
  <2> HIDE DEF left
  <2>6. TypeOK'
    BY <1>2, <2>2, <2>5, SyncType DEF IInv, TypeOK
  <2>7. \A v \in Threads \ {t} : Owed(v, owner, left) = Owed(v, owner, update)
    BY <2>4, <2>5 DEF Owed
  <2>8. WorkSignalled'
    <3>1. CASE left[w] = 0
      BY <1>2, <2>2, <2>7, <3>1, SyncType DEF IInv, TypeOK, WorkSignalled, HasMessage
    <3>2. CASE left[w] # 0
      BY <1>2, <1>5, <2>2, <2>7, <3>2 DEF IInv, TypeOK, WorkSignalled, HasMessage
    <3>3. QED
      BY <3>1, <3>2
  <2>9. UnusedOweNothing'
    BY <1>2, <2>2, <2>4, <2>5 DEF IInv, UnusedOweNothing
  <2>10. QED
    BY <2>6, <2>8, <2>9 DEF IInv
<1>6. QED
  BY <1>3, <1>4, <1>5

\* Another update count brings the owner's event in step; nobody else's work changes.
LEMMA SetUpdateStep ==
    ASSUME IInv, NEW w \in Created, NEW n \in 0..USER_PAINT_REDELIVERY, SetUpdate(w, n)
    PROVE  IInv'
<1> DEFINE upd == [update EXCEPT ![w] = n]
<1>1. w \in Windows /\ w < next_window_index
  BY UserQueueAssumption DEF Created, Windows, IInv, TypeOK
<1>2. /\ update' = upd
      /\ \A t \in Threads :
            event'[t] = IF t = owner[w]
                        THEN KiUserSyncInputEvent(t, head[t], tail[t], owner, upd)
                        ELSE event[t]
      /\ DOMAIN event' = Threads
      /\ UNCHANGED <<msgs, head, tail, owner, next_window_index, callback, mode>>
  BY DEF SetUpdate
<1>3. upd \in [Windows -> 0..USER_PAINT_REDELIVERY]
      /\ \A v \in Windows \ {w} : upd[v] = update[v]
  BY <1>1 DEF IInv, TypeOK
<1>4. event' \in [Threads -> {"none", "reset", "set"}]
  BY SyncType DEF SetUpdate, IInv, TypeOK
<1> HIDE DEF upd
<1>5. TypeOK'
  BY <1>2, <1>3, <1>4 DEF IInv, TypeOK
<1>6. \A t \in Threads : t # owner[w] => Owed(t, owner, upd) = Owed(t, owner, update)
  BY <1>1, <1>3 DEF Owed
<1>7. WorkSignalled'
  BY <1>2, <1>6, SyncType DEF IInv, WorkSignalled, HasMessage
<1>8. UnusedOweNothing'
  BY <1>1, <1>2, <1>3, UserQueueAssumption DEF IInv, TypeOK, UnusedOweNothing, Windows
<1>9. QED
  BY <1>5, <1>7, <1>8 DEF IInv

LEMMA CreateStep ==
    ASSUME IInv, NEW t \in Threads, NEW visible \in BOOLEAN, NEW proc \in BOOLEAN,
           NtUserCreateWindowEx(t, visible, proc)
    PROVE  IInv'
<1> DEFINE w == next_window_index
           own == [owner EXCEPT ![w] = t]
           upd == IF visible THEN [update EXCEPT ![w] = USER_PAINT_REDELIVERY] ELSE update
<1>1. w \in Windows /\ w + 1 \in 1..(MaxWindows + 1) /\ USER_PAINT_REDELIVERY \in Nat
  BY UserQueueAssumption DEF NtUserCreateWindowEx, Windows, IInv, TypeOK
<1>2. /\ next_window_index' = w + 1 /\ owner' = own /\ update' = upd
      /\ event' = IF visible THEN [event EXCEPT ![t] =
                                     KiUserSyncInputEvent(t, head[t], tail[t], own, upd)]
                  ELSE event
      /\ callback' = IF proc /\ callback[t] = NoCallback
                     THEN [callback EXCEPT ![t] = <<"NCCREATE", w>>]
                     ELSE callback
      /\ UNCHANGED <<msgs, head, tail, mode>>
  BY DEF NtUserCreateWindowEx
<1>3. own \in [Windows -> Threads \cup {NoOwner}]
  BY DEF IInv, TypeOK
<1>4. /\ upd \in [Windows -> 0..USER_PAINT_REDELIVERY]
      /\ \A v \in Windows \ {w} : upd[v] = update[v]
      /\ ~visible => upd = update /\ update[w] = 0
  BY <1>1 DEF IInv, TypeOK, UnusedOweNothing
<1>5. callback' \in [Threads -> {"none", "NCCREATE", "WMCREATE"} \X (Windows \cup {0})]
  BY <1>1, <1>2 DEF IInv, TypeOK
<1>6. event' \in [Threads -> {"none", "reset", "set"}]
  BY <1>2, SyncType DEF IInv, TypeOK
<1>7. TypeOK'
  BY <1>1, <1>2, <1>3, <1>4, <1>5, <1>6 DEF IInv, TypeOK
<1>8. own[w] = t /\ \A v \in Windows \ {w} : own[v] = owner[v]
  BY <1>1 DEF IInv, TypeOK
<1> HIDE DEF own, upd
<1>9. \A u \in Threads : u # t => Owed(u, own, upd) \subseteq Owed(u, owner, update)
  BY <1>4, <1>8 DEF Owed
<1>10. ~visible => Owed(t, own, upd) \subseteq Owed(t, owner, update)
  BY <1>4, <1>8 DEF Owed
<1>11. WorkSignalled'
  <2>1. CASE visible
    BY <1>2, <1>9, <2>1, SyncType DEF IInv, TypeOK, WorkSignalled, HasMessage
  <2>2. CASE ~visible
    BY <1>2, <1>9, <1>10, <2>2 DEF IInv, TypeOK, WorkSignalled, HasMessage
  <2>3. QED
    BY <2>1, <2>2
<1>12. UnusedOweNothing'
  BY <1>1, <1>2, <1>4 DEF IInv, TypeOK, UnusedOweNothing, Windows
<1>13. QED
  BY <1>7, <1>11, <1>12 DEF IInv

\* A window that loses its owner takes no work from anybody but him.
LEMMA DisownStep ==
    ASSUME IInv, NEW w, owner' = [owner EXCEPT ![w] = NoOwner],
           callback' \in [Threads -> {"none", "NCCREATE", "WMCREATE"} \X (Windows \cup {0})],
           UNCHANGED <<msgs, head, tail, event, update, next_window_index, mode>>
    PROVE  IInv'
<1>1. TypeOK'
  BY DEF IInv, TypeOK
<1>2. \A t \in Threads : Owed(t, owner', update) \subseteq Owed(t, owner, update)
  BY UserQueueAssumption DEF IInv, TypeOK, Owed
<1>3. WorkSignalled'
  BY <1>2 DEF IInv, WorkSignalled, HasMessage
<1>4. QED
  BY <1>1, <1>3 DEF IInv, UnusedOweNothing

LEMMA NextIInv == IInv /\ [Next]_vars => IInv'
<1> SUFFICES ASSUME IInv, [Next]_vars PROVE IInv'
  OBVIOUS
<1>1. CASE UNCHANGED vars
  BY <1>1 DEF vars, IInv, TypeOK, WorkSignalled, UnusedOweNothing, HasMessage, Owed
<1>2. ASSUME NEW t \in Threads, NEW m \in Messages, NEW w, NtUserPostMessage(t, w, m)
      PROVE  IInv'
  <2>1. (IF w \in Windows /\ owner[w] # NoOwner THEN owner[w] ELSE t) \in Threads
    BY DEF IInv, TypeOK
  <2>2. QED
    BY <1>2, <2>1, EnqueueStep DEF NtUserPostMessage
<1>3. ASSUME NEW t \in Threads, NEW m \in Messages, NEW u \in Threads,
             NtUserPostThreadMessage(t, u, m)
      PROVE  IInv'
  BY <1>3, EnqueueStep DEF NtUserPostThreadMessage
<1>4. ASSUME NEW t \in Threads, NEW remove \in BOOLEAN, NtUserPeekMessage(t, remove) PROVE IInv'
  BY <1>4, AttemptStep DEF NtUserPeekMessage
<1>5. ASSUME NEW t \in Threads, NtUserGetMessage(t) \/ NtUserWaitMessage(t) PROVE IInv'
  BY <1>5, AttemptStep DEF NtUserGetMessage, NtUserWaitMessage
<1>6. ASSUME NEW t \in Threads, KiUserGetInputEvent(t) PROVE IInv'
  BY <1>6 DEF KiUserGetInputEvent, IInv, TypeOK, WorkSignalled, UnusedOweNothing, HasMessage, Owed
<1>7. ASSUME NEW t \in Threads, MsgWait(t) \/ Wake(t) PROVE IInv'
  <2>1. /\ UNCHANGED <<msgs, head, tail, event, owner, update, next_window_index, callback>>
        /\ mode' \in [Threads -> {"run", "get", "wait", "sleep"}]
    BY <1>7 DEF MsgWait, Wake, IInv, TypeOK
  <2>2. QED
    BY <2>1 DEF IInv, TypeOK, WorkSignalled, UnusedOweNothing, HasMessage, Owed
<1>8. ASSUME NEW t \in Threads, NEW visible \in BOOLEAN, NEW proc \in BOOLEAN,
             NtUserCreateWindowEx(t, visible, proc)
      PROVE  IInv'
  BY <1>8, CreateStep
<1>9. ASSUME NEW t \in Threads, NEW accepted \in BOOLEAN, NEW chained \in BOOLEAN,
             NtCallbackReturn(t, accepted, chained)
      PROVE  IInv'
  <2>1. callback[t] \in {"none", "NCCREATE", "WMCREATE"} \X (Windows \cup {0})
    BY DEF IInv, TypeOK
  <2>2. callback' \in [Threads -> {"none", "NCCREATE", "WMCREATE"} \X (Windows \cup {0})]
    BY <1>9, <2>1 DEF NtCallbackReturn, NoCallback, IInv, TypeOK
  <2>3. UNCHANGED <<msgs, head, tail, event, update, next_window_index, mode>>
    BY <1>9 DEF NtCallbackReturn
  <2>4. CASE accepted
    BY <1>9, <2>2, <2>3, <2>4
       DEF NtCallbackReturn, IInv, TypeOK, WorkSignalled, UnusedOweNothing, HasMessage, Owed
  <2>5. CASE ~accepted
    BY <1>9, <2>2, <2>3, <2>5, DisownStep DEF NtCallbackReturn
  <2>6. QED
    BY <2>4, <2>5
<1>10. ASSUME NEW t \in Threads, NEW w \in Created,
              KiUserInvalidateWindow(t, w) \/ KiUserValidateWindow(t, w)
       PROVE  IInv'
  BY <1>10, SetUpdateStep, UserQueueAssumption DEF KiUserInvalidateWindow, KiUserValidateWindow
<1>11. ASSUME NEW t \in Threads, NEW w \in Created, NtUserDestroyWindow(t, w) PROVE IInv'
  BY <1>11, DisownStep DEF NtUserDestroyWindow, IInv, TypeOK
<1>12. QED
  BY <1>1, <1>2, <1>3, <1>4, <1>5, <1>6, <1>7, <1>8, <1>9, <1>10, <1>11 DEF Next

\* The type invariant.
THEOREM QueueTypes == Spec => []TypeOK
<1>1. IInv => TypeOK
  BY DEF IInv
<1>2. QED
  BY <1>1, InitIInv, NextIInv, PTL DEF Spec

\* A thread with a message or a WM_PAINT to come never finds its input event unset,
\* whoever posts, shows, paints, hides, creates or destroys (KiUserSyncInputEvent).
THEOREM WorkIsSignalled == Spec => []WorkSignalled
<1>1. IInv => WorkSignalled
  BY DEF IInv
<1>2. QED
  BY <1>1, InitIInv, NextIInv, PTL DEF Spec

-----------------------------------------------------------------------------
(* The rings implement bounded first-in first-out queues *)

LEMMA ContentsIs ==
    ASSUME NEW t \in Threads
    PROVE  Contents(t) = [i \in 1..Held(C, head[t], tail[t]) |-> msgs[t][Cell(C, tail[t], i)]]
  BY DEF Contents, Held, Cell, C

LEMMA FifoInit == Init => Fifo!Init
<1> SUFFICES ASSUME Init, NEW t \in Threads PROVE Contents(t) = <<>>
  BY DEF Fifo!Init
<1>1. Held(C, head[t], tail[t]) = 0
  BY CapacityFacts, ByCases DEF Init
<1>2. QED
  BY <1>1, ContentsIs

LEMMA PostStep ==
    ASSUME IInv, NEW u \in Threads, NEW m \in Messages, Enqueue(u, m)
    PROVE  Fifo!Post(u, m)
<1> DEFINE h == head[u]
           l == tail[u]
           n == Held(C, h, l)
<1>1. C \in Nat \ {0} /\ h \in 0..(C - 1) /\ l \in 0..(C - 1) /\ (h + 1) % C # l
      /\ Succ(h) = (h + 1) % C
  BY CapacityFacts DEF IInv, TypeOK, Enqueue, Succ, C
<1>2. /\ n \in 0..(C - 2) /\ Held(C, (h + 1) % C, l) = n + 1 /\ Cell(C, l, n + 1) = h
      /\ \A i \in 1..n : Cell(C, l, i) \in 0..(C - 1) \ {h}
  <2> HIDE DEF h, l
  <2>1. QED
    BY <1>1, RingPost DEF n
<1>3. /\ head'[u] = (h + 1) % C /\ tail'[u] = l
      /\ msgs'[u][h] = m /\ \A i \in Cells \ {h} : msgs'[u][i] = msgs[u][i]
  BY <1>1, CapacityFacts DEF IInv, TypeOK, Enqueue
<1>4. Contents(u) = [i \in 1..n |-> msgs[u][Cell(C, l, i)]]
  BY ContentsIs
<1>5. Contents(u)' = [i \in 1..(n + 1) |-> msgs'[u][Cell(C, l, i)]]
  <2>1. Contents(u)' = [i \in 1..Held(C, head'[u], tail'[u]) |-> msgs'[u][Cell(C, tail'[u], i)]]
    BY DEF Contents, Held, Cell, C
  <2>2. QED
    BY <1>2, <1>3, <2>1
<1> HIDE DEF h, l, n
<1>6. Contents(u) \in Seq(Messages \cup {NoMessage}) /\ Len(Contents(u)) = n
  <2>1. msgs[u] \in [Cells -> Messages \cup {NoMessage}]
    BY DEF IInv, TypeOK
  <2>2. \A i \in 1..n : Cell(C, l, i) \in Cells
    BY <1>2, CapacityFacts
  <2>3. \A i \in 1..n : msgs[u][Cell(C, l, i)] \in Messages \cup {NoMessage}
    BY <2>1, <2>2
  <2>4. QED
    BY <1>2, <1>4, <2>3
<1>7. Contents(u)' = Append(Contents(u), m)
  <2>1. \A i \in 1..n : msgs'[u][Cell(C, l, i)] = msgs[u][Cell(C, l, i)]
    BY <1>2, <1>3, CapacityFacts
  <2>2. msgs'[u][Cell(C, l, n + 1)] = m
    BY <1>2, <1>3
  <2>3. QED
    BY <1>2, <1>4, <1>5, <1>6, <2>1, <2>2
<1>8. \A t \in Threads \ {u} : Contents(t)' = Contents(t)
  BY DEF Contents, Enqueue, IInv, TypeOK
<1>9. Len(Contents(u)) < USER_MESSAGE_QUEUE_CAPACITY - 1
  BY <1>1, <1>2, <1>6 DEF C
<1>10. QED
  BY <1>7, <1>8, <1>9 DEF Fifo!Post

LEMMA TakeStep ==
    ASSUME IInv, NEW t \in Threads, head[t] # tail[t],
           tail' = [tail EXCEPT ![t] = Succ(tail[t])], UNCHANGED <<msgs, head>>
    PROVE  Fifo!Take(t)
<1> DEFINE h == head[t]
           l == tail[t]
           n == Held(C, h, l)
           k == (l + 1) % C
<1>1. C \in Nat \ {0} /\ h \in 0..(C - 1) /\ l \in 0..(C - 1) /\ h # l /\ Succ(l) = k
  BY CapacityFacts DEF IInv, TypeOK, Succ, C
<1>2. /\ n \in 1..(C - 1) /\ Held(C, h, k) = n - 1
      /\ \A i \in 1..(n - 1) : Cell(C, k, i) = Cell(C, l, i + 1)
      /\ \A i \in 1..n : Cell(C, l, i) \in 0..(C - 1)
  BY <1>1, RingTake
<1>3. head'[t] = h /\ tail'[t] = k /\ msgs' = msgs
  BY <1>1 DEF IInv, TypeOK
<1>4. Contents(t) = [i \in 1..n |-> msgs[t][Cell(C, l, i)]]
  BY ContentsIs
<1>5. Contents(t)' = [i \in 1..(n - 1) |-> msgs[t][Cell(C, k, i)]]
  <2>1. Contents(t)' = [i \in 1..Held(C, head'[t], tail'[t]) |-> msgs'[t][Cell(C, tail'[t], i)]]
    BY DEF Contents, Held, Cell, C
  <2>2. QED
    BY <1>2, <1>3, <2>1
<1> HIDE DEF h, l, n, k
<1>6. Contents(t)' = [i \in 1..(n - 1) |-> Contents(t)[i + 1]]
  BY <1>2, <1>4, <1>5
<1>7. Contents(t) \in Seq(Messages \cup {NoMessage}) /\ Len(Contents(t)) = n
  <2>1. \A i \in 1..n : msgs[t][Cell(C, l, i)] \in Messages \cup {NoMessage}
    BY <1>2, CapacityFacts DEF IInv, TypeOK
  <2>2. QED
    BY <1>2, <1>4, <2>1
<1>8. Contents(t)' = Tail(Contents(t)) /\ Contents(t) # <<>>
  <2> DEFINE s == Contents(t)
  <2>1. s \in Seq(Messages \cup {NoMessage}) /\ Len(s) = n /\ n \in Nat \ {0}
    BY <1>2, <1>7
  <2>2. Contents(t)' = [i \in 1..(n - 1) |-> s[i + 1]]
    BY <1>6
  <2> HIDE DEF s
  <2>3. s # <<>>
    BY <2>1
  <2> DEFINE f == [i \in 1..(n - 1) |-> s[i + 1]]
  <2>4. f \in Seq(Messages \cup {NoMessage}) /\ Len(f) = n - 1
    BY <2>1
  <2>5. /\ Tail(s) \in Seq(Messages \cup {NoMessage}) /\ Len(Tail(s)) = n - 1
        /\ \A i \in 1..(n - 1) : Tail(s)[i] = f[i]
    BY <2>1, <2>3, HeadTailProperties
  <2> HIDE DEF f
  <2>6. Tail(s) = f
    BY <2>4, <2>5, SeqEqual
  <2>7. QED
    BY <2>2, <2>3, <2>6 DEF s, f
<1>9. \A u \in Threads \ {t} : Contents(u)' = Contents(u)
  BY DEF Contents, IInv, TypeOK
<1>10. QED
  BY <1>8, <1>9 DEF Fifo!Take

LEMMA FifoNext == IInv /\ [Next]_vars => [Fifo!Next]_[t \in Threads |-> Contents(t)]
<1> SUFFICES ASSUME IInv, [Next]_vars
             PROVE  Fifo!Next \/ UNCHANGED <<msgs, head, tail>>
  BY DEF Contents
<1>1. CASE UNCHANGED vars
  BY <1>1 DEF vars
<1>2. ASSUME NEW u \in Threads, NEW m \in Messages, Enqueue(u, m) PROVE Fifo!Next
  BY <1>2, PostStep DEF Fifo!Next
<1>3. ASSUME NEW t \in Threads, NEW m \in Messages, NEW w, NtUserPostMessage(t, w, m)
      PROVE  Fifo!Next
  <2>1. (IF w \in Windows /\ owner[w] # NoOwner THEN owner[w] ELSE t) \in Threads
    BY DEF IInv, TypeOK
  <2>2. QED
    BY <1>2, <1>3, <2>1 DEF NtUserPostMessage
<1>4. ASSUME NEW t \in Threads, NEW remove \in BOOLEAN, NEW otherwise,
             Attempt(t, remove, otherwise)
      PROVE  Fifo!Next \/ UNCHANGED <<msgs, head, tail>>
  <2>1. UNCHANGED <<msgs, head>>
    BY <1>4 DEF Attempt
  <2>2. CASE tail' = tail
    BY <2>1, <2>2
  <2>3. CASE tail' # tail
    <3>1. head[t] # tail[t] /\ tail' = [tail EXCEPT ![t] = Succ(tail[t])]
      BY <1>4, <2>3 DEF Attempt, KiUserTakeMessage
    <3>2. QED
      BY <2>1, <3>1, TakeStep DEF Fifo!Next
  <2>4. QED
    BY <2>2, <2>3
<1>5. ASSUME NEW t \in Threads, NEW m \in Messages, NEW u \in Threads,
             NtUserPostThreadMessage(t, u, m)
      PROVE  Fifo!Next
  BY <1>2, <1>5 DEF NtUserPostThreadMessage
<1>6. ASSUME NEW t \in Threads,
             \/ KiUserGetInputEvent(t) \/ MsgWait(t) \/ Wake(t)
             \/ \E visible, proc \in BOOLEAN : NtUserCreateWindowEx(t, visible, proc)
             \/ \E accepted, chained \in BOOLEAN : NtCallbackReturn(t, accepted, chained)
             \/ \E w \in Created : \/ KiUserInvalidateWindow(t, w) \/ KiUserValidateWindow(t, w)
                                   \/ NtUserDestroyWindow(t, w)
      PROVE  UNCHANGED <<msgs, head, tail>>
  BY <1>6 DEF KiUserGetInputEvent, MsgWait, Wake, NtUserCreateWindowEx, NtCallbackReturn,
              KiUserInvalidateWindow, KiUserValidateWindow, SetUpdate, NtUserDestroyWindow
<1>7. ASSUME NEW t \in Threads, NEW remove \in BOOLEAN,
             \/ NtUserPeekMessage(t, remove) \/ NtUserGetMessage(t) \/ NtUserWaitMessage(t)
      PROVE  Fifo!Next \/ UNCHANGED <<msgs, head, tail>>
  BY <1>4, <1>7 DEF NtUserPeekMessage, NtUserGetMessage, NtUserWaitMessage
<1>8. QED
  BY <1>1, <1>3, <1>5, <1>6, <1>7 DEF Next

\* The rings of all threads are the bounded queues of MessageFifo, across wrap-around
\* and at the limit: a message that is accepted is taken once, and in the order of the
\* posts (KiUserEnqueueMessage, KiUserTakeMessage).
THEOREM RingsAreFifo == Spec => ImplementsFifo
<1>1. Init /\ [][Next]_vars => []IInv
  BY InitIInv, NextIInv, PTL
<1>2. QED
  BY <1>1, FifoInit, FifoNext, PTL DEF Spec, ImplementsFifo, Fifo!Spec

-----------------------------------------------------------------------------
(* The input devices and the thread that reads them *)

Chars == {"", "a", "A", "1", "!"}
Motion == [X : Int, Y : Int, Buttons : Int, Seq : Int]
UserRec == [active : Int, buttons : Int, chars : Int, posted : Int, motion : Motion]
Reader == [pc : {"test", "read", "advance", "forward", "seq", "fields"}, c : Chars, last : Int,
           unread : SUBSET Fields, seen : Motion]

KeyTypes ==
    /\ ring \in [0..(KBD_RING - 1) -> Chars] /\ pending \in Seq(Chars)
    /\ kbd_head \in 0..(KBD_RING - 1) /\ kbd_tail \in 0..(KBD_RING - 1)

Bit3(byte) == byte.bit3

MouseTypes ==
    /\ mouse \in Motion /\ mouse.X \in 0..MaxX /\ mouse.Y \in 0..MaxY
    /\ pkt \in Seq(MouseBytes) /\ Len(pkt) < 3 /\ (Len(pkt) > 0 => Bit3(pkt[1]))
    /\ user \in UserRec

\* The cells from the tail on hold the characters that are pending.
InRing ==
    /\ Held(KBD_RING, kbd_head, kbd_tail) = Len(pending)
    /\ \A k \in 1..Len(pending) : ring[Cell(KBD_RING, kbd_tail, k)] = pending[k]

\* The reader does not find the ring empty between its test and its step.
ReaderOK ==
    /\ th.pc \in {"read", "advance"} => Len(pending) > 0
    /\ th.pc = "advance" => th.c = pending[1]

\* f is read as a constant where it names a field.
SameField(a, b, f) == CASE f = "X" -> a.X = b.X [] f = "Y" -> a.Y = b.Y [] OTHER -> a.Buttons = b.Buttons

\* While the number that is remembered is the mouse's, what was read is what is there.
MotionOK ==
    /\ th.last <= mouse.Seq
    /\ th.last = mouse.Seq /\ th.pc = "fields" =>
          \A f \in Fields \ th.unread : SameField(th.seen, mouse, f)
    /\ th.last = mouse.Seq /\ th.pc # "fields" =>
          \A f \in Fields : SameField(user.motion, mouse, f)

InputInv == KeyTypes /\ MouseTypes /\ th \in Reader /\ InRing /\ ReaderOK /\ MotionOK

LEMMA FieldCases ==
    ASSUME NEW a \in Motion, NEW b \in Motion, NEW f \in Fields, SameField(a, b, f)
    PROVE  a[f] = b[f]
<1>1. f \in {"X", "Y", "Buttons"}
  BY DEF Fields
<1>2. CASE f = "X"
  BY <1>2 DEF SameField, Motion
<1>3. CASE f = "Y"
  BY <1>3 DEF SameField, Motion
<1>4. CASE f = "Buttons"
  BY <1>4 DEF SameField, Motion
<1>5. QED
  BY <1>1, <1>2, <1>3, <1>4

\* One field is read.
LEMMA FieldRead ==
    ASSUME NEW a \in Motion, NEW b \in Motion, NEW f \in Fields
    PROVE  /\ [a EXCEPT ![f] = b[f]] \in Motion /\ SameField([a EXCEPT ![f] = b[f]], b, f)
           /\ \A g \in Fields \ {f} : SameField(a, b, g) => SameField([a EXCEPT ![f] = b[f]], b, g)
<1>1. f \in {"X", "Y", "Buttons"} /\ Fields = {"X", "Y", "Buttons"}
  BY DEF Fields
<1>2. CASE f = "X"
  BY <1>1, <1>2 DEF SameField, Motion
<1>3. CASE f = "Y"
  BY <1>1, <1>3 DEF SameField, Motion
<1>4. CASE f = "Buttons"
  BY <1>1, <1>4 DEF SameField, Motion
<1>5. QED
  BY <1>1, <1>2, <1>3, <1>4

LEMMA InputInit == ASSUME InputAssumption PROVE DeviceInit => InputInv
<1> SUFFICES ASSUME DeviceInit PROVE InputInv
  OBVIOUS
<1>1. KBD_RING \in Nat \ {0, 1} /\ MaxX \in Nat /\ MaxY \in Nat
  BY DEF InputAssumption
<1>2. KeyTypes
  <2>1. ring = [i \in 0..(KBD_RING - 1) |-> ""] /\ pending = << >> /\ kbd_head = 0 /\ kbd_tail = 0
    BY DEF DeviceInit, NoChar
  <2>2. pending \in Seq(Chars)
    <3>1. << >> \in Seq(Chars)
      OBVIOUS
    <3>2. QED
      BY <2>1, <3>1, Zenon
  <2>5. 0 \in 0..(KBD_RING - 1)
    BY <1>1
  <2>3. ring \in [0..(KBD_RING - 1) -> Chars]
    BY <2>1 DEF Chars
  <2>4. QED
    BY <2>1, <2>2, <2>3, <2>5 DEF KeyTypes
<1>3. (MaxX + 1) \div 2 \in 0..MaxX /\ (MaxY + 1) \div 2 \in 0..MaxY
  BY <1>1
<1>4. mouse \in Motion /\ mouse.X \in 0..MaxX /\ mouse.Y \in 0..MaxY /\ mouse.Seq = 1
  <2>1. mouse = [X |-> (MaxX + 1) \div 2, Y |-> (MaxY + 1) \div 2, Buttons |-> 0, Seq |-> 1]
    BY DEF DeviceInit
  <2>2. QED
    BY <1>3, <2>1 DEF Motion
<1>5. MouseTypes
  <2>1. pkt = << >>
    BY DEF DeviceInit
  <2>2. user = [active |-> 0, buttons |-> 0, chars |-> 0, posted |-> 0, motion |-> mouse]
    BY DEF DeviceInit
  <2>3. user \in UserRec
    BY <1>4, <2>2 DEF UserRec
  <2>4. pkt \in Seq(MouseBytes) /\ Len(pkt) = 0
    BY <2>1
  <2>5. QED
    BY <1>4, <2>3, <2>4 DEF MouseTypes
<1>6. th = [pc |-> "test", c |-> "", last |-> -1, unread |-> {}, seen |-> mouse]
  BY DEF DeviceInit, NoChar
<1>7. th \in Reader /\ th.pc = "test" /\ th.last = -1
  <2>1. "" \in Chars /\ -1 \in Int /\ {} \in SUBSET Fields
    BY DEF Chars
  <2>2. QED
    BY <1>4, <1>6, <2>1 DEF Reader
<1>8. InRing
  <2>1. Len(pending) = 0 /\ kbd_head = 0 /\ kbd_tail = 0
    BY DEF DeviceInit
  <2>2. Held(KBD_RING, 0, 0) = 0
    <3>1. 0 \in 0..(KBD_RING - 1) /\ KBD_RING \in Nat \ {0}
      BY <1>1
    <3>2. Held(KBD_RING, 0, 0) = IF 0 >= 0 THEN 0 - 0 ELSE 0 - 0 + KBD_RING
      BY <3>1, ByCases
    <3>3. QED
      BY <3>2
  <2>3. QED
    BY <2>1, <2>2 DEF InRing
<1>9. QED
  BY <1>2, <1>4, <1>5, <1>7, <1>8 DEF InputInv, ReaderOK, MotionOK

\* What a step of the mouse or of the reader leaves of the keyboard, and the other way.
LEMMA KeepsKeys ==
    ASSUME KeyTypes, InRing, UNCHANGED <<ring, kbd_head, kbd_tail, pending>>
    PROVE  KeyTypes' /\ InRing'
<1>1. KeyTypes'
  BY DEF KeyTypes
<1>2. InRing'
  BY DEF InRing, Held, Cell
<1>3. QED
  BY <1>1, <1>2

LEMMA KeepsMouse == ASSUME MouseTypes, UNCHANGED <<mouse, pkt, user>> PROVE MouseTypes'
  BY DEF MouseTypes

LEMMA KeyIrq ==
    ASSUME InputAssumption, InputInv, NEW code \in Scancodes, kbd_irq(code)
    PROVE  InputInv'
<1>1. UNCHANGED <<kbd_tail, pkt, mouse, th, user>>
  BY DEF kbd_irq
<1>2. MouseTypes' /\ (th \in Reader)' /\ MotionOK'
  BY <1>1, KeepsMouse DEF InputInv, MotionOK
<1>3. CASE UNCHANGED <<ring, kbd_head, pending>>
  <2>1. KeyTypes' /\ InRing'
    BY <1>1, <1>3, KeepsKeys DEF InputInv
  <2>2. ReaderOK'
    BY <1>1, <1>3 DEF InputInv, ReaderOK
  <2>3. QED
    BY <1>2, <2>1, <2>2 DEF InputInv
<1>4. CASE ~UNCHANGED <<ring, kbd_head, pending>>
  <2>1. PICK c : c = WithCaps(Translate(code))
    OBVIOUS
  <2>2. kbd_push(c)
    BY <1>4, <2>1 DEF kbd_irq
  <2>3. c \in Chars
    <3>1. Translate(code) \in Chars
      BY DEF Translate, NoChar, Chars
    <3>2. QED
      BY <2>1, <3>1 DEF WithCaps, Chars
  <2>4. /\ (kbd_head + 1) % KBD_RING # kbd_tail
        /\ ring' = [ring EXCEPT ![kbd_head] = c] /\ kbd_head' = (kbd_head + 1) % KBD_RING
        /\ pending' = Append(pending, c)
    BY <1>4, <2>2 DEF kbd_push
  <2>5. /\ KBD_RING \in Nat \ {0} /\ kbd_head \in 0..(KBD_RING - 1) /\ kbd_tail \in 0..(KBD_RING - 1)
        /\ pending \in Seq(Chars) /\ ring \in [0..(KBD_RING - 1) -> Chars]
    BY DEF InputAssumption, InputInv, KeyTypes
  <2>6. PICK n : n = Held(KBD_RING, kbd_head, kbd_tail)
    OBVIOUS
  <2>7. /\ n \in 0..(KBD_RING - 2) /\ Held(KBD_RING, (kbd_head + 1) % KBD_RING, kbd_tail) = n + 1
        /\ Cell(KBD_RING, kbd_tail, n + 1) = kbd_head
        /\ \A i \in 1..n : Cell(KBD_RING, kbd_tail, i) \in 0..(KBD_RING - 1) \ {kbd_head}
    BY <2>4, <2>5, <2>6, RingPost
  <2>8. /\ Len(pending) = n /\ Len(pending') = n + 1 /\ pending'[n + 1] = c /\ pending' \in Seq(Chars)
        /\ \A k \in 1..n : pending'[k] = pending[k]
    BY <2>3, <2>4, <2>5, <2>6 DEF InputInv, InRing
  <2>9. KeyTypes'
    <3>1. kbd_head' \in 0..(KBD_RING - 1)
      BY <2>4, <2>5, ByCases
    <3>2. ring' \in [0..(KBD_RING - 1) -> Chars]
      BY <2>3, <2>4, <2>5
    <3>3. QED
      BY <1>1, <2>5, <2>8, <3>1, <3>2 DEF KeyTypes
  <2>10. InRing'
    <3>1. \A k \in 1..n : ring'[Cell(KBD_RING, kbd_tail, k)] = pending'[k]
      <4>1. \A k \in 1..n : ring[Cell(KBD_RING, kbd_tail, k)] = pending[k]
        BY <2>8 DEF InputInv, InRing
      <4>2. QED
        BY <2>4, <2>5, <2>7, <2>8, <4>1
    <3>2. ring'[Cell(KBD_RING, kbd_tail, n + 1)] = pending'[n + 1]
      BY <2>4, <2>5, <2>7, <2>8
    <3>3. \A k \in 1..(n + 1) : ring'[Cell(KBD_RING, kbd_tail, k)] = pending'[k]
      BY <2>7, <3>1, <3>2
    <3>4. Held(KBD_RING, kbd_head', kbd_tail) = n + 1
      BY <2>4, <2>7
    <3>5. QED
      BY <1>1, <2>8, <3>3, <3>4 DEF InRing, Held, Cell
  <2>11. ReaderOK'
    <3>1. th'.pc \in {"read", "advance"} => n > 0 /\ pending'[1] = pending[1]
      BY <1>1, <2>7, <2>8 DEF InputInv, ReaderOK
    <3>2. QED
      BY <1>1, <2>7, <2>8, <3>1 DEF InputInv, ReaderOK
  <2>12. QED
    BY <1>2, <2>9, <2>10, <2>11 DEF InputInv
<1>5. QED
  BY <1>3, <1>4

LEMMA MouseIrq ==
    ASSUME InputAssumption, InputInv, NEW byte \in MouseBytes, mouse_irq(byte)
    PROVE  InputInv'
<1>1. UNCHANGED <<ring, kbd_head, kbd_tail, pending, th, user>>
  BY DEF mouse_irq, keyboard
<1>2. KeyTypes' /\ InRing' /\ ReaderOK' /\ (th \in Reader)'
  BY <1>1, KeepsKeys DEF InputInv, ReaderOK
<1>3. PICK p : p = IF pkt = << >> /\ ~byte.bit3 THEN << >> ELSE Append(pkt, byte)
  OBVIOUS
<1>4. /\ pkt' = IF Len(p) = 3 THEN << >> ELSE p
      /\ mouse' = IF Len(p) = 3 /\ ~p[1].over THEN Moved(p) ELSE mouse
  BY <1>3 DEF mouse_irq
<1>5. pkt \in Seq(MouseBytes) /\ Len(pkt) < 3 /\ (Len(pkt) > 0 => Bit3(pkt[1]))
  BY DEF InputInv, MouseTypes
<1>6. p \in Seq(MouseBytes) /\ Len(p) \in 0..3 /\ (Len(p) > 0 => Bit3(p[1]))
  <2>1. CASE pkt = << >> /\ ~Bit3(byte)
    BY <1>3, <2>1 DEF Bit3
  <2>2. CASE ~(pkt = << >> /\ ~Bit3(byte))
    <3>1. p = Append(pkt, byte)
      BY <1>3, <2>2 DEF Bit3
    <3>2. p \in Seq(MouseBytes) /\ Len(p) = Len(pkt) + 1 /\ Len(pkt) \in Nat
      BY <1>5, <3>1
    <3>3. CASE Len(pkt) = 0
      <4>1. pkt = << >>
        BY <1>5, <3>3
      <4>2. p[1] = byte
        BY <3>1, <4>1
      <4>3. Bit3(byte)
        BY <2>2, <4>1
      <4>4. QED
        BY <3>2, <3>3, <4>2, <4>3
    <3>4. CASE Len(pkt) > 0
      <4>1. p[1] = pkt[1]
        BY <1>5, <3>1, <3>4
      <4>2. Bit3(p[1])
        BY <1>5, <3>4, <4>1
      <4>3. Len(p) \in 0..3
        BY <1>5, <3>2
      <4>4. QED
        BY <3>2, <4>2, <4>3
    <3>5. QED
      BY <3>2, <3>3, <3>4
  <2>3. QED
    BY <2>1, <2>2
<1>7. pkt' \in Seq(MouseBytes) /\ Len(pkt') < 3 /\ (Len(pkt') > 0 => Bit3(pkt'[1]))
  <2>1. CASE Len(p) = 3
    <3>1. pkt' = << >>
      BY <1>4, <2>1
    <3>2. << >> \in Seq(MouseBytes) /\ Len(<< >>) = 0
      OBVIOUS
    <3>3. QED
      BY <3>1, <3>2
  <2>2. CASE Len(p) # 3
    <3>0. pkt' = p
      BY <1>4, <2>2, Zenon
    <3>1. Len(p) < 3
      <4>1. PICK n : n = Len(p)
        OBVIOUS
      <4>2. n \in 0..3 /\ n # 3
        BY <1>6, <2>2, <4>1, Zenon
      <4>3. n < 3
        BY <4>2
      <4>4. QED
        BY <4>1, <4>3, Zenon
    <3>2. QED
      BY <1>6, <3>0, <3>1, Zenon
  <2>3. QED
    BY <2>1, <2>2
<1>8. CASE mouse' = mouse
  <2>1. MouseTypes'
    BY <1>1, <1>7, <1>8 DEF InputInv, MouseTypes
  <2>2. MotionOK'
    BY <1>1, <1>8 DEF InputInv, MotionOK
  <2>3. QED
    BY <1>2, <2>1, <2>2 DEF InputInv
<1>9. CASE Len(p) = 3 /\ mouse' = Moved(p)
  <2>1. p[1] \in MouseBytes /\ p[2] \in MouseBytes /\ p[3] \in MouseBytes
    BY <1>6, <1>9
  <2>2. BYTE \in Nat /\ MaxX \in Nat /\ MaxY \in Nat
    BY DEF InputAssumption
  <2>3. p[2].val \in Int /\ p[3].val \in Int /\ p[1].buttons \in Int
    BY <2>1, <2>2 DEF InputAssumption
  <2>4. PICK dx, dy : /\ dx = p[2].val - (IF p[1].sx THEN BYTE ELSE 0)
                      /\ dy = p[3].val - (IF p[1].sy THEN BYTE ELSE 0)
    OBVIOUS
  <2>5. dx \in Int /\ dy \in Int
    BY <2>2, <2>3, <2>4
  <2>6. mouse.X \in Int /\ mouse.Y \in Int /\ mouse.Seq \in Int
    BY DEF InputInv, MouseTypes, Motion
  <2>7. PICK x, y : x = Clamp(mouse.X + dx, MaxX) /\ y = Clamp(mouse.Y - dy, MaxY)
    OBVIOUS
  <2>8. x \in 0..MaxX /\ y \in 0..MaxY
    BY <2>2, <2>5, <2>6, <2>7 DEF Clamp
  <2>9. mouse' = [X |-> x, Y |-> y, Buttons |-> p[1].buttons, Seq |-> mouse.Seq + 1]
    BY <1>9, <2>4, <2>7 DEF Moved
  <2>10. mouse' \in Motion /\ mouse'.X = x /\ mouse'.Y = y /\ mouse'.Seq = mouse.Seq + 1
    BY <2>2, <2>3, <2>6, <2>8, <2>9 DEF Motion
  <2>11. MouseTypes'
    BY <1>1, <1>7, <2>8, <2>10 DEF InputInv, MouseTypes
  <2>12. th.last < mouse'.Seq
    <3>1. th.last \in Int /\ th.last <= mouse.Seq
      BY DEF InputInv, MotionOK, Reader
    <3>2. QED
      BY <2>6, <2>10, <3>1
  <2>13. MotionOK'
    <3>1. th.last \in Int /\ mouse'.Seq \in Int
      BY <2>10 DEF InputInv, Reader, Motion
    <3>2. th.last # mouse'.Seq /\ th.last <= mouse'.Seq
      BY <2>12, <3>1
    <3>3. QED
      BY <1>1, <3>2 DEF MotionOK
  <2>14. QED
    BY <1>2, <2>11, <2>13 DEF InputInv
<1>10. QED
  BY <1>4, <1>8, <1>9

\* A step of the reader that leaves everything but itself alone.
LEMMA ReaderSteps ==
    ASSUME InputInv, UNCHANGED <<ring, kbd_head, kbd_tail, pending, pkt, mouse, user>>, (th \in Reader)',
           ReaderOK', MotionOK'
    PROVE  InputInv'
  BY KeepsKeys, KeepsMouse DEF InputInv

\* The reader goes on, and remembers what it did.
LEMMA GoesOn ==
    ASSUME InputInv, NEW pc \in {"test", "read", "advance", "forward", "seq", "fields"}, Goto(pc)
    PROVE  /\ th' \in Reader /\ th'.pc = pc /\ th'.c = th.c /\ th'.last = th.last
           /\ th'.unread = th.unread /\ th'.seen = th.seen
  BY DEF InputInv, Reader, Goto

LEMMA TestSteps == ASSUME InputAssumption, InputInv, TestRing PROVE InputInv'
<1>1. /\ UNCHANGED <<ring, kbd_head, kbd_tail, pending, pkt, mouse, user>> /\ th.pc = "test"
      /\ Goto(IF kbd_head # kbd_tail THEN "read" ELSE "seq")
  BY DEF TestRing, keyboard
<1>2. PICK pc : pc = IF kbd_head # kbd_tail THEN "read" ELSE "seq"
  OBVIOUS
<1>3. /\ th' \in Reader /\ th'.pc = pc /\ th'.last = th.last /\ pc \in {"read", "seq"}
  BY <1>1, <1>2, GoesOn
<1>4. pc = "read" => Len(pending) > 0
  <2>1. ASSUME kbd_head # kbd_tail PROVE Held(KBD_RING, kbd_head, kbd_tail) \in 1..(KBD_RING - 1)
    BY <2>1, RingTake DEF InputAssumption, InputInv, KeyTypes
  <2>2. QED
    BY <1>2, <2>1 DEF InputInv, InRing
<1>5. ReaderOK'
  BY <1>1, <1>3, <1>4 DEF ReaderOK
<1>6. MotionOK'
  BY <1>1, <1>3 DEF InputInv, MotionOK
<1>7. QED
  BY <1>1, <1>3, <1>5, <1>6, ReaderSteps

LEMMA SlotSteps == ASSUME InputAssumption, InputInv, ReadSlot PROVE InputInv'
<1>1. /\ UNCHANGED <<ring, kbd_head, kbd_tail, pending, pkt, mouse, user>> /\ th.pc = "read"
      /\ th' = [th EXCEPT !.pc = "advance", !.c = ring[kbd_tail]]
  BY DEF ReadSlot, keyboard
<1>2. Len(pending) > 0 /\ Len(pending) \in Nat /\ kbd_tail \in 0..(KBD_RING - 1) /\ KBD_RING \in Nat \ {0}
  BY <1>1 DEF InputInv, ReaderOK, KeyTypes, InputAssumption
<1>3. ring[kbd_tail] = pending[1]
  <2>1. ring[Cell(KBD_RING, kbd_tail, 1)] = pending[1]
    BY <1>2 DEF InputInv, InRing
  <2>2. Cell(KBD_RING, kbd_tail, 1) = kbd_tail
    <3>1. 1 \in 1..KBD_RING
      BY <1>2
    <3>2. Cell(KBD_RING, kbd_tail, 1) = IF kbd_tail + 1 - 1 < KBD_RING THEN kbd_tail + 1 - 1 ELSE kbd_tail + 1 - 1 - KBD_RING
      BY <1>2, <3>1, ByCases
    <3>3. QED
      BY <1>2, <3>2
  <2>3. QED
    BY <2>1, <2>2
<1>4. ring[kbd_tail] \in Chars
  BY <1>2 DEF InputInv, KeyTypes
<1>5. th' \in Reader /\ th'.pc = "advance" /\ th'.c = ring[kbd_tail] /\ th'.last = th.last
  BY <1>1, <1>4 DEF InputInv, Reader
<1>6. ReaderOK'
  BY <1>1, <1>2, <1>3, <1>5 DEF ReaderOK
<1>7. MotionOK'
  BY <1>1, <1>5 DEF InputInv, MotionOK
<1>8. QED
  BY <1>1, <1>5, <1>6, <1>7, ReaderSteps

LEMMA AdvanceSteps == ASSUME InputAssumption, InputInv, AdvanceTail PROVE InputInv'
<1>1. /\ UNCHANGED <<ring, kbd_head, pkt, mouse, user>> /\ th.pc = "advance" /\ Goto("forward")
      /\ kbd_tail' = (kbd_tail + 1) % KBD_RING /\ pending' = Tail(pending)
  BY DEF AdvanceTail
<1>2. th' \in Reader /\ th'.pc = "forward" /\ th'.last = th.last
  BY <1>1, GoesOn
<1>3. /\ KBD_RING \in Nat \ {0} /\ kbd_head \in 0..(KBD_RING - 1) /\ kbd_tail \in 0..(KBD_RING - 1)
      /\ pending \in Seq(Chars)
  BY DEF InputAssumption, InputInv, KeyTypes
<1>4. PICK n : n = Len(pending)
  OBVIOUS
<1>5. n \in Nat /\ n > 0 /\ Held(KBD_RING, kbd_head, kbd_tail) = n
  BY <1>1, <1>3, <1>4 DEF InputInv, ReaderOK, InRing
<1>6. kbd_head # kbd_tail
  <2>1. kbd_head = kbd_tail => Held(KBD_RING, kbd_head, kbd_tail) = 0
    BY <1>3, ByCases
  <2>2. QED
    BY <1>5, <2>1
<1>7. /\ Held(KBD_RING, kbd_head, (kbd_tail + 1) % KBD_RING) = n - 1
      /\ \A i \in 1..(n - 1) :
            Cell(KBD_RING, (kbd_tail + 1) % KBD_RING, i) = Cell(KBD_RING, kbd_tail, i + 1)
  BY <1>3, <1>5, <1>6, RingTake
<1>8. /\ pending' \in Seq(Chars) /\ Len(pending') = n - 1
      /\ \A k \in 1..(n - 1) : pending'[k] = pending[k + 1]
  BY <1>1, <1>3, <1>4, <1>5
<1>9. KeyTypes'
  <2>1. kbd_tail' \in 0..(KBD_RING - 1)
    BY <1>1, <1>3, ByCases
  <2>2. QED
    BY <1>1, <1>8, <2>1 DEF InputInv, KeyTypes
<1>10. InRing'
  <2>1. \A k \in 1..(n - 1) : ring[Cell(KBD_RING, kbd_tail', k)] = pending'[k]
    <3>1. ASSUME NEW k \in 1..(n - 1) PROVE ring[Cell(KBD_RING, kbd_tail', k)] = pending'[k]
      <4>1. k + 1 \in 1..n
        BY <1>5
      <4>2. ring[Cell(KBD_RING, kbd_tail, k + 1)] = pending[k + 1]
        BY <1>4, <4>1 DEF InputInv, InRing
      <4>3. QED
        BY <1>1, <1>7, <1>8, <4>2
    <3>2. QED
      BY <3>1
  <2>2. Held(KBD_RING, kbd_head, kbd_tail') = n - 1
    BY <1>1, <1>7
  <2>3. QED
    BY <1>1, <1>8, <2>1, <2>2 DEF InRing, Held, Cell
<1>11. ReaderOK'
  BY <1>2 DEF ReaderOK
<1>12. MotionOK'
  BY <1>1, <1>2 DEF InputInv, MotionOK
<1>13. MouseTypes'
  BY <1>1, KeepsMouse DEF InputInv
<1>14. QED
  BY <1>2, <1>9, <1>10, <1>11, <1>12, <1>13 DEF InputInv

LEMMA CharSteps == ASSUME InputInv, KiUserQueueCharacter PROVE InputInv'
<1>1. /\ UNCHANGED <<ring, kbd_head, kbd_tail, pending, pkt, mouse>> /\ th.pc = "forward" /\ Goto("test")
      /\ user' = [user EXCEPT !.chars = @ + 1, !.posted = IF user.active = 0 THEN @ ELSE @ + 1]
  BY DEF KiUserQueueCharacter, keyboard
<1>2. th' \in Reader /\ th'.pc = "test" /\ th'.last = th.last
  BY <1>1, GoesOn
<1>3. user' \in UserRec /\ user'.motion = user.motion
  <2>1. PICK k : k = IF user.active = 0 THEN user.posted ELSE user.posted + 1
    OBVIOUS
  <2>2. PICK u : u = user
    OBVIOUS
  <2>3. u \in UserRec
    BY <2>2 DEF InputInv, MouseTypes
  <2>4. u.posted \in Int /\ u.chars \in Int
    BY <2>3 DEF UserRec
  <2>5. k \in Int /\ u.chars + 1 \in Int
    BY <2>1, <2>2, <2>4
  <2>6. user' = [u EXCEPT !.chars = u.chars + 1, !.posted = k]
    BY <1>1, <2>1, <2>2, <2>3 DEF UserRec
  <2>7. user' \in UserRec /\ user'.motion = u.motion
    BY <2>3, <2>5, <2>6 DEF UserRec
  <2>8. QED
    BY <2>2, <2>7
<1>4. MouseTypes'
  BY <1>1, <1>3 DEF InputInv, MouseTypes
<1>5. ReaderOK' /\ MotionOK'
  BY <1>1, <1>2, <1>3 DEF InputInv, ReaderOK, MotionOK
<1>6. QED
  BY <1>1, <1>2, <1>4, <1>5, KeepsKeys DEF InputInv

LEMMA SeqSteps == ASSUME InputInv, ReadSeq PROVE InputInv'
<1>1. UNCHANGED <<ring, kbd_head, kbd_tail, pending, pkt, mouse, user>> /\ th.pc = "seq"
  BY DEF ReadSeq, keyboard
<1>2. CASE mouse.Seq = th.last
  <2>1. th' = [th EXCEPT !.pc = "test"]
    BY <1>2 DEF ReadSeq
  <2>2. th' \in Reader /\ th'.pc = "test" /\ th'.last = th.last
    BY <2>1 DEF InputInv, Reader
  <2>3. ReaderOK' /\ MotionOK'
    BY <1>1, <2>2 DEF InputInv, ReaderOK, MotionOK
  <2>4. QED
    BY <1>1, <2>2, <2>3, ReaderSteps
<1>3. CASE mouse.Seq # th.last
  <2>1. th' = [th EXCEPT !.pc = "fields", !.last = mouse.Seq, !.unread = Fields]
    BY <1>3 DEF ReadSeq
  <2>2. mouse.Seq \in Int
    BY DEF InputInv, MouseTypes, Motion
  <2>3. th' \in Reader /\ th'.pc = "fields" /\ th'.last = mouse.Seq /\ th'.unread = Fields
    BY <2>1, <2>2 DEF InputInv, Reader
  <2>4. ReaderOK' /\ MotionOK'
    BY <1>1, <2>2, <2>3 DEF InputInv, ReaderOK, MotionOK
  <2>5. QED
    BY <1>1, <2>3, <2>4, ReaderSteps
<1>4. QED
  BY <1>2, <1>3

LEMMA FieldSteps == ASSUME InputInv, NEW f \in Fields, ReadField(f) PROVE InputInv'
<1>1. /\ UNCHANGED <<ring, kbd_head, kbd_tail, pending, pkt, mouse, user>> /\ th.pc = "fields"
      /\ th' = [th EXCEPT !.unread = @ \ {f}, !.seen[f] = mouse[f]]
  BY DEF ReadField, keyboard
<1>2. PICK s : s = [th.seen EXCEPT ![f] = mouse[f]]
  OBVIOUS
<1>3. th.seen \in Motion /\ mouse \in Motion /\ th.unread \subseteq Fields
  BY DEF InputInv, Reader, MouseTypes
<1>4. /\ s \in Motion /\ SameField(s, mouse, f)
      /\ \A g \in Fields \ {f} : SameField(th.seen, mouse, g) => SameField(s, mouse, g)
  BY <1>2, <1>3, FieldRead
<1>5. th' = [th EXCEPT !.unread = th.unread \ {f}, !.seen = s]
  BY <1>1, <1>2 DEF InputInv, Reader
<1>6. /\ th' \in Reader /\ th'.pc = "fields" /\ th'.last = th.last /\ th'.seen = s
      /\ th'.unread = th.unread \ {f}
  <2>1. th.unread \ {f} \in SUBSET Fields
    BY <1>3
  <2>2. QED
    BY <1>1, <1>4, <1>5, <2>1 DEF InputInv, Reader
<1>7. ReaderOK'
  BY <1>6 DEF ReaderOK
<1>8. MotionOK'
  <2>1. \A g \in Fields \ (th.unread \ {f}) : g = f \/ g \in (Fields \ th.unread) \ {f}
    OBVIOUS
  <2>2. QED
    BY <1>1, <1>4, <1>6, <2>1 DEF InputInv, MotionOK
<1>9. QED
  BY <1>1, <1>6, <1>7, <1>8, ReaderSteps

LEMMA MouseSteps == ASSUME InputInv, KiUserQueueMouse PROVE InputInv'
<1>1. /\ UNCHANGED <<ring, kbd_head, kbd_tail, pending, pkt, mouse>> /\ th.pc = "fields" /\ th.unread = {}
      /\ Goto("test")
      /\ user' = [user EXCEPT !.buttons = th.seen.Buttons, !.motion = th.seen,
                              !.posted = IF user.active = 0 THEN @ ELSE @ + 1]
  BY DEF KiUserQueueMouse, keyboard
<1>2. th' \in Reader /\ th'.pc = "test" /\ th'.last = th.last
  BY <1>1, GoesOn
<1>3. th.seen \in Motion /\ th.seen.Buttons \in Int
  BY DEF InputInv, Reader, Motion
<1>4. user' \in UserRec /\ user'.motion = th.seen
  <2>1. PICK k : k = IF user.active = 0 THEN user.posted ELSE user.posted + 1
    OBVIOUS
  <2>2. PICK u : u = user
    OBVIOUS
  <2>3. u \in UserRec
    BY <2>2 DEF InputInv, MouseTypes
  <2>4. PICK m : m = th.seen
    OBVIOUS
  <2>5. u.posted \in Int /\ m \in Motion
    BY <1>3, <2>3, <2>4 DEF UserRec
  <2>6. k \in Int /\ m.Buttons \in Int
    BY <1>3, <2>1, <2>2, <2>4, <2>5
  <2>7. user' = [u EXCEPT !.buttons = m.Buttons, !.motion = m, !.posted = k]
    BY <1>1, <2>1, <2>2, <2>3, <2>4 DEF UserRec
  <2>8. user' \in UserRec /\ user'.motion = m
    BY <2>3, <2>5, <2>6, <2>7 DEF UserRec
  <2>9. QED
    BY <2>4, <2>8
<1>5. MouseTypes'
  BY <1>1, <1>4 DEF InputInv, MouseTypes
<1>6. ReaderOK' /\ MotionOK'
  BY <1>1, <1>2, <1>4 DEF InputInv, ReaderOK, MotionOK
<1>7. QED
  BY <1>1, <1>2, <1>5, <1>6, KeepsKeys DEF InputInv

LEMMA InputNext == ASSUME InputAssumption, InputInv, [DeviceNext]_devices PROVE InputInv'
<1>1. CASE DeviceNext
  BY <1>1, KeyIrq, MouseIrq, TestSteps, SlotSteps, AdvanceSteps, CharSteps, SeqSteps, FieldSteps,
     MouseSteps DEF DeviceNext, InputWorker
<1>2. CASE UNCHANGED devices
  <2>1. UNCHANGED <<ring, kbd_head, kbd_tail, pending, pkt, mouse, user, th>>
    BY <1>2 DEF devices, keyboard
  <2>2. (th \in Reader)' /\ ReaderOK' /\ MotionOK'
    BY <2>1 DEF InputInv, ReaderOK, MotionOK
  <2>3. QED
    BY <2>1, <2>2, ReaderSteps
<1>3. QED
  BY <1>1, <1>2

\* Whatever the interrupts do between two loads of the input thread, the ring holds the
\* characters accepted and not yet taken, in order, and a motion whose number is
\* remembered was forwarded as it is (kbd_push, KbdReadChar, InputWorker).
THEOREM InputIsKept == ASSUME InputAssumption PROVE DeviceSpec => []InputKept
<1>1. DeviceInit => InputInv
  BY InputInit
<1>2. InputInv /\ [DeviceNext]_devices => InputInv'
  BY InputNext
<1>3. InputInv => InputKept
  <2> SUFFICES ASSUME InputInv PROVE InputKept
    OBVIOUS
  <2>1. DeviceTypeOK
    <3>1. kbd_head \in DOMAIN ring /\ kbd_tail \in DOMAIN ring
      BY DEF InputInv, KeyTypes
    <3>2. pkt # << >> => Bit3(pkt[1])
      BY DEF InputInv, MouseTypes
    <3>3. th.unread \subseteq Fields
      BY DEF InputInv, Reader
    <3>4. QED
      BY <3>1, <3>2, <3>3 DEF InputInv, MouseTypes, DeviceTypeOK, Bit3
  <2>2. RingHolds
    <3>1. /\ (kbd_head - kbd_tail) % KBD_RING = Len(pending)
          /\ \A k \in 1..Len(pending) : ring[(kbd_tail + k - 1) % KBD_RING] = pending[k]
      BY DEF InputInv, InRing, Held, Cell
    <3>2. th.pc = "advance" => pending # << >> /\ th.c = Head(pending)
      BY DEF InputInv, ReaderOK, KeyTypes
    <3>3. QED
      BY <3>1, <3>2 DEF RingHolds
  <2>3. MotionSeen
    <3>1. user.motion \in Motion /\ mouse \in Motion
      BY DEF InputInv, MouseTypes, UserRec
    <3>2. ASSUME th.last = mouse.Seq, th.pc # "fields", NEW f \in Fields
          PROVE  user.motion[f] = mouse[f]
      <4>1. SameField(user.motion, mouse, f)
        BY <3>2 DEF InputInv, MotionOK
      <4>2. QED
        BY <3>1, <4>1, FieldCases
    <3>3. QED
      BY <3>2 DEF MotionSeen
  <2>4. QED
    BY <2>1, <2>2, <2>3 DEF InputKept
<1>4. QED
  BY <1>1, <1>2, <1>3, PTL DEF DeviceSpec
=============================================================================
