------------------------------ MODULE RtlHeap ------------------------------
(***************************************************************************)
(* The heap of ntdll (user/ntdllrtl.c): a free list and a bump cursor      *)
(* behind one spin lock, shared by the threads of the process.  Memory is  *)
(* counted in units of sizeof(RTL_BLOCK) = 16 bytes, the rounding of every *)
(* request, so a header takes one unit.  NtAllocateVirtualMemory hands out *)
(* consecutive addresses (syscall.c 295-320); other users of that area are *)
(* left out.  Contents of blocks are left out.                             *)
(***************************************************************************)
EXTENDS Integers, Sequences, SequencesExt, FiniteSets, FiniteSetsExt

CONSTANTS Threads,
          Sizes,        \* sizes asked for, in units; 0 is served as 1
          SEGMENT,      \* 0x10000 bytes in units
          MaxSegments   \* segments the process can still commit

RtlHeapAssumption ==
  /\ Sizes \subseteq Nat /\ SEGMENT \in Nat \ {0} /\ MaxSegments \in Nat

VARIABLES freelist,   \* FreeHead and its links: [addr, len] of payloads
          cursor,     \* Cursor
          segend,     \* SegmentEnd
          committed,  \* g_user_alloc_next: units committed so far
          lock,       \* g_heap_lock
          call,       \* call[t]: what thread t is doing
          live        \* payloads that callers have

vars == <<freelist, cursor, segend, committed, lock, call, live>>

None == [addr |-> 0, len |-> 0]
Idle == [pc |-> "idle", op |-> "none", size |-> 0, old |-> None, seen |-> None]

\* RtlCreateHeap; address 0 is the null pointer.
Init ==
  /\ freelist = << >>
  /\ cursor = 1 /\ segend = 1 /\ committed = 1
  /\ lock = FALSE
  /\ call = [t \in Threads |-> Idle]
  /\ live = {}

Round(size) == IF size = 0 THEN 1 ELSE size

\* Blocks another call is about to give back.
Busy == {call[t].old : t \in Threads}

\* Callers free or reallocate what they have, once.
Call(t) ==
  /\ call[t] = Idle
  /\ \/ \E size \in Sizes :
          call' = [call EXCEPT ![t] = [Idle EXCEPT !.pc = "spin", !.op = "alloc", !.size = Round(size)]]
     \/ \E b \in live \ Busy :
          call' = [call EXCEPT ![t] = [Idle EXCEPT !.pc = "spin", !.op = "free", !.old = b]]
     \/ \E b \in live \ Busy, size \in Sizes :
          call' = [call EXCEPT ![t] =
                     [Idle EXCEPT !.pc = "spin", !.op = "alloc", !.size = Round(size), !.old = b]]
  /\ UNCHANGED <<freelist, cursor, segend, committed, lock, live>>

\* Faulty heap_lock: the old value is not looked at.
LockUntested(t) ==
  /\ call[t].pc = "spin"
  /\ lock' = TRUE
  /\ call' = [call EXCEPT ![t].pc = "in"]
  /\ UNCHANGED <<freelist, cursor, segend, committed, live>>

heap_lock(t) ==
  /\ call[t].pc = "spin"
  /\ ~ lock /\ lock' = TRUE
  /\ call' = [call EXCEPT ![t].pc = "in"]
  /\ UNCHANGED <<freelist, cursor, segend, committed, live>>

\* What a call does once it has its lock back: a reallocation that got its
\* block frees the old one.
After(t, ok) ==
  IF ok /\ call[t].old # None
  THEN [Idle EXCEPT !.pc = "spin", !.op = "free", !.old = call[t].old]
  ELSE Idle

\* The search of the free list: the first block that is large enough.
Search(t) ==
  LET fits == {i \in DOMAIN freelist : freelist[i].len >= call[t].size}
  IN /\ call[t].pc = "in" /\ call[t].op = "alloc"
     /\ call' = [call EXCEPT ![t].pc = "found",
                            ![t].seen = IF fits = {} THEN None ELSE freelist[Min(fits)]]
     /\ UNCHANGED <<freelist, cursor, segend, committed, lock, live>>

\* A payload in the hands of thread t.
Given(b, t) == [addr |-> b.addr, len |-> b.len, by |-> t]
Plain(b) == [addr |-> b.addr, len |-> b.len]

\* The block is unlinked where the search found it.
TakeFree(t) ==
  LET at == {i \in DOMAIN freelist : freelist[i] = call[t].seen}
  IN /\ call[t].pc = "found" /\ call[t].seen # None
     /\ freelist' = IF at = {} THEN freelist ELSE RemoveAt(freelist, Min(at))
     /\ live' = live \cup {Given(call[t].seen, t)}
     /\ lock' = FALSE
     /\ call' = [call EXCEPT ![t] = After(t, TRUE)]
     /\ UNCHANGED <<cursor, segend, committed>>

\* heap_grow: whole segments.
Grown(size) == ((size + SEGMENT - 1) \div SEGMENT) * SEGMENT

\* A block of so many units cut off at c.
Cut(c, size) == [addr |-> c + 1, len |-> size]

\* The current segment has room.
Bump(t) ==
  /\ call[t].pc = "found" /\ call[t].seen = None
  /\ segend - cursor >= call[t].size + 1
  /\ live' = live \cup {Given(Cut(cursor, call[t].size), t)}
  /\ cursor' = cursor + 1 + call[t].size
  /\ lock' = FALSE
  /\ call' = [call EXCEPT ![t] = After(t, TRUE)]
  /\ UNCHANGED <<freelist, segend, committed>>

\* A new segment; what was left of the old one is never used again.
heap_grow(t) ==
  LET size == Grown(call[t].size + 1)
  IN /\ call[t].pc = "found" /\ call[t].seen = None
     /\ segend - cursor < call[t].size + 1
     /\ committed + size <= 1 + MaxSegments * SEGMENT
     /\ committed' = committed + size
     /\ segend' = committed + size
     /\ live' = live \cup {Given(Cut(committed, call[t].size), t)}
     /\ cursor' = committed + 1 + call[t].size
     /\ lock' = FALSE
     /\ call' = [call EXCEPT ![t] = After(t, TRUE)]
     /\ UNCHANGED freelist

OutOfMemory(t) ==
  /\ call[t].pc = "found" /\ call[t].seen = None
  /\ segend - cursor < call[t].size + 1
  /\ committed + Grown(call[t].size + 1) > 1 + MaxSegments * SEGMENT
  /\ lock' = FALSE
  /\ call' = [call EXCEPT ![t] = After(t, FALSE)]
  /\ UNCHANGED <<freelist, cursor, segend, committed, live>>

\* The block becomes the head of the list.
RtlFreeHeap(t) ==
  /\ call[t].pc = "in" /\ call[t].op = "free"
  /\ freelist' = <<Plain(call[t].old)>> \o freelist
  /\ live' = live \ {call[t].old}
  /\ lock' = FALSE
  /\ call' = [call EXCEPT ![t] = Idle]
  /\ UNCHANGED <<cursor, segend, committed>>

Step(t) ==
  \/ heap_lock(t)
  \/ Search(t)
  \/ TakeFree(t)
  \/ Bump(t)
  \/ heap_grow(t)
  \/ OutOfMemory(t)
  \/ RtlFreeHeap(t)

Next == \E t \in Threads : Call(t) \/ Step(t)

\* The clock preempts a thread and the ready queue is a queue.
Spec == Init /\ [][Next]_vars /\ \A t \in Threads : WF_vars(Step(t))
-----------------------------------------------------------------------------
Block == [addr : Nat, len : Nat]
Owned == [addr : Nat, len : Nat, by : Threads]

TypeOK ==
  /\ freelist \in Seq(Block) /\ live \subseteq Owned
  /\ cursor \in Nat /\ segend \in Nat /\ committed \in Nat
  /\ cursor <= segend
  /\ lock \in BOOLEAN
  /\ \A t \in Threads : call[t].pc \in {"idle", "spin", "in", "found"}

(* "allocations never hold the lock long": on every path, failure to get memory
   included, the lock is given back. *)
LockReleased == []<>(~ lock)

Blocks == {Plain(b) : b \in live} \cup ToSet(freelist)

\* A block with its header.
Extent(b) == b.addr - 1 .. b.addr + b.len - 1

(* While the heap is in its first segment nothing is lost: every unit that was
   cut off belongs to one block, which is with a caller or on the list. *)
NothingLost ==
  committed <= 1 + SEGMENT =>
    \A u \in 1 .. cursor - 1 : \E b \in Blocks :
      u \in Extent(b) /\ \A c \in Blocks : u \in Extent(c) => c = b

Abstract == INSTANCE Allocator WITH segments <- {[addr |-> 1, len |-> committed - 1]}

(* RtlAllocateHeap hands out memory that no other thread has. *)
HeapImplementsAllocator == Abstract!Spec

(* The head comment: "The Rtl heap: a coalescing free-list allocator". *)
FreeBlocksCoalesced ==
  \A b, c \in ToSet(freelist) : b.addr + b.len + 1 # c.addr
=============================================================================
