---------------------------- MODULE ProcessHeap ----------------------------
(***************************************************************************)
(* The process heap of kernel32 (user/kernel32.c): one list of blocks over *)
(* segments from NtAllocateVirtualMemory, with no lock.  Memory is counted *)
(* in words of 8 bytes, the rounding of every request.  A call that        *)
(* allocates searches the list in one step and changes it in the next, so  *)
(* that two threads can meet between the two; a header stays where it was  *)
(* written, also after the list has dropped it.                            *)
(***************************************************************************)
EXTENDS Integers, Sequences, SequencesExt, FiniteSets, FiniteSetsExt

CONSTANTS Threads,
          BLOCK, HEAP,      \* sizeof(BLOCK), sizeof(HEAP), in words
          MIN_SPLIT,        \* 16 bytes in words
          REGION,           \* 0x10000 bytes in words
          PAGE,             \* words in a page
          Sizes,            \* what HeapAlloc is asked for
          ReAllocSizes,     \* what HeapReAlloc is asked for
          AreaSizes,        \* what VirtualAlloc is asked for
          MaxPages          \* pages the process can commit

ProcessHeapAssumption ==
  /\ {BLOCK, HEAP, MIN_SPLIT, REGION, PAGE} \subseteq Nat \ {0}
  /\ Sizes \cup ReAllocSizes \cup AreaSizes \subseteq Nat
  /\ MaxPages \in Nat

VARIABLES hdr,     \* the headers in memory: address to [size, next, free]
          pages,   \* pages committed so far (g_user_alloc_next)
          segs,    \* the heap's segments
          call,    \* call[t]: what thread t is doing
          live     \* extents that callers have

vars == <<hdr, pages, segs, call, live>>

Idle == [pc |-> "idle", size |-> 0, at |-> 0, old |-> 0]
First == PAGE + HEAP

Ceil(words) == (words + PAGE - 1) \div PAGE
Extent(a, n) == [addr |-> a, len |-> n]
Put(h, a, b) == [x \in DOMAIN h \cup {a} |-> IF x = a THEN b ELSE h[x]]
Header(size, next) == [size |-> size, next |-> next, free |-> TRUE]

\* HeapCreate, called by GetProcessHeap before the second thread exists; page 0
\* holds no memory.
Init ==
  /\ hdr = [a \in {First} |-> Header(REGION, 0)]
  /\ pages = 1 + Ceil(HEAP + BLOCK + REGION)
  /\ segs = {Extent(PAGE, HEAP + BLOCK + REGION)}
  /\ call = [t \in Threads |-> Idle]
  /\ live = {}

\* The list from block a on; next is always higher.
Chain(h) ==
  LET from[a \in {0} \cup DOMAIN h] == IF a = 0 THEN << >> ELSE <<a>> \o from[h[a].next]
  IN from

List == Chain(hdr)[First]
End(h, a) == a + BLOCK + h[a].size

\* What is left of block a behind its first size words becomes a block.
Split(h, a, size) ==
  IF h[a].size < size + BLOCK + MIN_SPLIT THEN h
  ELSE LET rest == a + BLOCK + size
       IN Put(Put(h, a, [h[a] EXCEPT !.size = size, !.next = rest]),
              rest, Header(h[a].size - size - BLOCK, h[a].next))

\* Words a caller has, from the block at a.
Given(a, size, t) == [addr |-> a + BLOCK, len |-> size, by |-> t]
Mine(t) == {e \in live : e.by = t}
Words(bytes) == IF bytes = 0 THEN 1 ELSE bytes

\* The search of HeapAlloc (also LocalAlloc, GlobalAlloc, CoTaskMemAlloc).
Search(t, size, old) ==
  LET fits == {i \in DOMAIN List : hdr[List[i]].free /\ hdr[List[i]].size >= size}
  IN call' = [call EXCEPT ![t] = [pc |-> "take", size |-> size, old |-> old,
                                  at |-> IF fits = {} THEN 0 ELSE List[Min(fits)]]]

HeapAlloc(t, bytes) ==
  /\ call[t] = Idle
  /\ Search(t, Words(bytes), 0)
  /\ UNCHANGED <<hdr, pages, segs, live>>

\* A reallocation goes on to free the old block.
After(t) ==
  IF call[t].old = 0 THEN Idle ELSE [Idle EXCEPT !.pc = "free", !.old = call[t].old]

Take(t) ==
  LET a == call[t].at
  IN /\ call[t].pc = "take" /\ a # 0
     /\ hdr' = [Split(hdr, a, call[t].size) EXCEPT ![a].free = FALSE]
     /\ live' = live \cup {Given(a, call[t].size, t)}
     /\ call' = [call EXCEPT ![t] = After(t)]
     /\ UNCHANGED <<pages, segs>>

\* Faulty heap_grow: the pages for the new block's header are not asked for.
GrowHeaderless(t) ==
  LET payload == Max({REGION, call[t].size})
      a == pages * PAGE
      grown == Put([hdr EXCEPT ![Last(List)].next = a], a, Header(payload, 0))
  IN /\ call[t].pc = "take" /\ call[t].at = 0
     /\ pages + Ceil(payload) <= MaxPages
     /\ pages' = pages + Ceil(payload)
     /\ segs' = segs \cup {Extent(a, BLOCK + payload)}
     /\ hdr' = [Split(grown, a, call[t].size) EXCEPT ![a].free = FALSE]
     /\ live' = live \cup {Given(a, call[t].size, t)}
     /\ call' = [call EXCEPT ![t] = After(t)]

\* heap_grow: a segment of its own, linked behind the last block.
Grow(t) ==
  LET payload == Max({REGION, call[t].size})
      a == pages * PAGE
      grown == Put([hdr EXCEPT ![Last(List)].next = a], a, Header(payload, 0))
  IN /\ call[t].pc = "take" /\ call[t].at = 0
     /\ pages + Ceil(BLOCK + payload) <= MaxPages
     /\ pages' = pages + Ceil(BLOCK + payload)
     /\ segs' = segs \cup {Extent(a, BLOCK + payload)}
     /\ hdr' = [Split(grown, a, call[t].size) EXCEPT ![a].free = FALSE]
     /\ live' = live \cup {Given(a, call[t].size, t)}
     /\ call' = [call EXCEPT ![t] = After(t)]

OutOfMemory(t) ==
  /\ call[t].pc = "take" /\ call[t].at = 0
  /\ pages + Ceil(BLOCK + Max({REGION, call[t].size})) > MaxPages
  /\ call' = [call EXCEPT ![t] = Idle]
  /\ UNCHANGED <<hdr, pages, segs, live>>

\* Faulty Joins: whether the blocks touch is not looked at.
JoinsAnyway(h, a) ==
  LET b == h[a].next IN b # 0 /\ h[a].free /\ h[b].free

\* Two free blocks that touch.
Joins(h, a) ==
  LET b == h[a].next IN b # 0 /\ h[a].free /\ h[b].free /\ End(h, a) = b

\* Block a takes in the next one, whose header is forgotten unless some thread
\* has found it.
Absorb(h, a) ==
  LET b == h[a].next
      kept == DOMAIN h \ ({b} \ {call[t].at : t \in Threads})
  IN [x \in kept |-> IF x = a THEN [h[a] EXCEPT !.size = @ + BLOCK + h[b].size, !.next = h[b].next]
                     ELSE h[x]]

\* One forward pass over the list: a block absorbs its neighbour as often as it can.
Coalesce(h) ==
  LET step(s, b) == IF Joins(s.h, s.at) THEN [s EXCEPT !.h = Absorb(s.h, s.at)]
                    ELSE [s EXCEPT !.at = s.h[s.at].next]
  IN FoldLeft(step, [h |-> h, at |-> First], Tail(List)).h

\* HeapFree of the block whose payload is e (LocalFree, GlobalFree, CoTaskMemFree).
Release(t, e) ==
  /\ hdr' = Coalesce([hdr EXCEPT ![e.addr - BLOCK].free = TRUE])
  /\ live' = live \ {e}
  /\ call' = [call EXCEPT ![t] = Idle]
  /\ UNCHANGED <<pages, segs>>

HeapFree(t) ==
  /\ call[t] = Idle
  /\ \E e \in Mine(t) : Release(t, e)

FreeOld(t) ==
  /\ call[t].pc = "free"
  /\ \E e \in Mine(t) : e.addr = call[t].old /\ Release(t, e)

Resized(t, e, h, wanted) ==
  /\ hdr' = h
  /\ live' = (live \ {e}) \cup {Given(e.addr - BLOCK, wanted, t)}
  /\ UNCHANGED <<pages, segs, call>>

\* HeapReAlloc: shrink in place, grow into the next block of the list, or move.
\* (A size of 0 frees, a null pointer allocates.)
HeapReAlloc(t, wanted) ==
  \E e \in Mine(t) :
    LET a == e.addr - BLOCK
        b == hdr[a].next
        into == b # 0 /\ hdr[b].free /\ hdr[a].size + BLOCK + hdr[b].size >= wanted
    IN /\ call[t] = Idle
       /\ \/ /\ wanted <= hdr[a].size
             /\ Resized(t, e, Split(hdr, a, wanted), wanted)
          \/ /\ wanted > hdr[a].size /\ into
             /\ Resized(t, e, Absorb(hdr, a), wanted)
          \/ /\ wanted > hdr[a].size /\ ~ into
             /\ Search(t, wanted, e.addr)
             /\ UNCHANGED <<hdr, pages, segs, live>>

\* VirtualAlloc, HeapCreate for another heap and the other callers of nt_alloc.
VirtualAlloc(t, size) ==
  /\ call[t] = Idle
  /\ pages + Ceil(size) <= MaxPages
  /\ pages' = pages + Ceil(size)
  /\ live' = live \cup {[addr |-> pages * PAGE, len |-> size, by |-> "area"]}
  /\ UNCHANGED <<hdr, segs, call>>

Next ==
  \E t \in Threads :
    \/ \E size \in Sizes : HeapAlloc(t, size)
    \/ Take(t)
    \/ Grow(t)
    \/ OutOfMemory(t)
    \/ HeapFree(t)
    \/ FreeOld(t)
    \/ \E size \in ReAllocSizes : HeapReAlloc(t, size)
    \/ \E size \in AreaSizes : VirtualAlloc(t, size)

Spec == Init /\ [][Next]_vars
-----------------------------------------------------------------------------
TypeOK ==
  /\ \A a \in DOMAIN hdr :
       hdr[a].size \in Nat \ {0} /\ hdr[a].next \in {0} \cup DOMAIN hdr /\ hdr[a].free \in BOOLEAN
  /\ pages \in 0 .. MaxPages
  /\ \A e \in live : e.by \in Threads \cup {"area"}

Committed == {Extent(PAGE, (pages - 1) * PAGE)}

(* The blocks of the list tile the segments: each ends where the next begins or
   where its segment does, and no word of a segment is lost. *)
SegmentsTiled ==
  /\ \A a \in ToSet(List) :
       End(hdr, a) = hdr[a].next \/ End(hdr, a) \in {s.addr + s.len : s \in segs}
  /\ HEAP + MapThenSumSet(LAMBDA a : BLOCK + hdr[a].size, ToSet(List))
       = MapThenSumSet(LAMBDA s : s.len, segs)

(* HeapFree leaves no two free blocks that touch, also where HeapReAlloc had left
   some: "address-ordered list ..., which makes coalescing easy". *)
FreeCoalesces ==
  [][Cardinality(live') < Cardinality(live) => \A a \in ToSet(List') : ~ Joins(hdr', a)]_vars

(* A block in use belongs to one caller and is as long as it asked for. *)
InUseOwned ==
  \A e \in live : e.by \in Threads =>
    LET a == e.addr - BLOCK IN a \in ToSet(List) /\ ~ hdr[a].free /\ hdr[a].size >= e.len

Abstract == INSTANCE Allocator WITH segments <- Committed

(* HeapAlloc and HeapReAlloc return memory that nobody else has. *)
ImplementsAllocator == Abstract!Spec
=============================================================================
