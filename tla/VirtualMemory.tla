--------------------------- MODULE VirtualMemory ---------------------------
(***************************************************************************)
(* Page tables (mm/vmm.c) and the services that fill them page by page:    *)
(* pool_grow, NtAllocateVirtualMemory and map_user_pages each grow an area *)
(* of virtual pages from a bump pointer.  Virtual pages are numbered; the  *)
(* table of level l (1: PT, 2: PD, 3: PDPT) that translates page p has     *)
(* index p \div FANOUT^l.  MmAllocatePage gives the lowest free frame: no   *)
(* frame below its hint is free unless it was given back, and none is.     *)
(* The kernel window and the direct map, the only places with 2 MiB pages, *)
(* have no area in them.                                                   *)
(***************************************************************************)
EXTENDS Integers, FiniteSets

CONSTANTS Frames,      \* frames free at the start
          Areas,       \* "pool", "user", "thread"
          Base,        \* Base[a]: first page of an area
          FANOUT,      \* entries per table
          MaxPages     \* largest request, in pages

VirtualMemoryAssumption ==
  /\ Frames \subseteq Nat /\ IsFiniteSet(Frames)
  /\ Base \in [Areas -> Nat]
  /\ FANOUT \in Nat \ {0}
  /\ MaxPages \in Nat

VARIABLES free,     \* clear bits of the frame bitmap
          table,    \* intermediate tables: <<level, index>> to frame
          pt,       \* leaf entries: page to frame and writable bit
          bump,     \* g_heap_end, g_user_alloc_next, g_thread_va
          call,     \* the loop a service is in
          halted    \* KeBugCheck

vars == <<free, table, pt, bump, call, halted>>

Idle == [area |-> "none", done |-> 0, pages |-> 0]

Init ==
  /\ free = Frames
  /\ table = << >>
  /\ pt = << >>
  /\ bump = Base
  /\ call = Idle
  /\ halted = FALSE

\* The tables on the way to page p.
Walk(p) == {<<l, p \div FANOUT ^ l>> : l \in 1 .. 3}

Extend(f, g) == [x \in DOMAIN f \cup DOMAIN g |-> IF x \in DOMAIN g THEN g[x] ELSE f[x]]

Entry(pa, w) == [frame |-> pa, write |-> w]

\* MmAllocatePage marks what it returns.
TakenFrom(fs) == free \ fs

\* What k calls of MmAllocatePage in a row return last.
Nth(k) == CHOOSE f \in free : Cardinality({g \in free : g <= f}) = k

\* MmAllocatePage and MmMapPage for page p, with the tables next_table has to
\* allocate, from the top; alloc_zeroed_table stops the machine when there is
\* no frame for one.
MmMapPage(p) ==
  LET missing == Walk(p) \ DOMAIN table
      above(t) == {m \in missing : m[1] >= t[1]}
      fresh == [t \in missing |-> Nth(1 + Cardinality(above(t)))]
  IN \/ /\ Cardinality(free) > Cardinality(missing)
        /\ table' = Extend(table, fresh)
        /\ pt' = Extend(pt, [q \in {p} |-> Entry(Nth(1), TRUE)])
        /\ free' = TakenFrom({Nth(1)} \cup {fresh[t] : t \in missing})
        /\ UNCHANGED halted
     \/ /\ Cardinality(free) <= Cardinality(missing)
        /\ halted' = TRUE
        /\ UNCHANGED <<free, table, pt>>

\* A service is asked for so many pages (a size of 0 is refused).
Enter(a, n) ==
  /\ ~ halted /\ call = Idle
  /\ call' = [area |-> a, done |-> 0, pages |-> n]
  /\ UNCHANGED <<free, table, pt, bump, halted>>

PageAtHand == bump[call.area] + call.done

MapOne ==
  /\ ~ halted /\ call.done < call.pages
  /\ free # {}
  /\ MmMapPage(PageAtHand)
  /\ call' = [call EXCEPT !.done = @ + 1]
  /\ UNCHANGED bump

\* Faulty OutOfFrames: the pointer is moved before the loop, and not moved back.
OutOfFramesMoved ==
  /\ ~ halted /\ call.done < call.pages
  /\ free = {}
  /\ bump' = [bump EXCEPT ![call.area] = @ + call.pages]
  /\ call' = Idle
  /\ UNCHANGED <<free, table, pt, halted>>

\* MM_INVALID_PHYS: the service returns with the pages mapped so far in place.
OutOfFrames ==
  /\ ~ halted /\ call.done < call.pages
  /\ free = {}
  /\ call' = Idle
  /\ UNCHANGED <<free, table, pt, bump, halted>>

Commit ==
  /\ ~ halted /\ call # Idle /\ call.done = call.pages
  /\ bump' = [bump EXCEPT ![call.area] = @ + call.pages]
  /\ call' = Idle
  /\ UNCHANGED <<free, table, pt, halted>>

\* MmProtectRange on n pages from p: the frames stay, pages not mapped are
\* passed over, and the tables are all there.
MmProtectRange(p, n, w) ==
  /\ ~ halted /\ call = Idle
  /\ pt' = [q \in DOMAIN pt |-> IF q \in p .. p + n - 1 THEN Entry(pt[q].frame, w) ELSE pt[q]]
  /\ UNCHANGED <<free, table, bump, call, halted>>

Next ==
  \/ \E a \in Areas, n \in 1 .. MaxPages : Enter(a, n)
  \/ MapOne
  \/ OutOfFrames
  \/ Commit
  \/ \E p \in DOMAIN pt, n \in 1 .. MaxPages, w \in BOOLEAN : MmProtectRange(p, n, w)

Spec == Init /\ [][Next]_vars
-----------------------------------------------------------------------------
Mapped == {pt[p].frame : p \in DOMAIN pt}
Tables == {table[t] : t \in DOMAIN table}

TypeOK ==
  /\ free \subseteq Frames
  /\ Mapped \cup Tables \subseteq Frames
  /\ bump \in [Areas -> Nat]
  /\ \A p \in DOMAIN pt : pt[p].write \in BOOLEAN
  /\ call = Idle \/ call \in [area : Areas, done : 0 .. MaxPages, pages : 1 .. MaxPages]
  /\ halted \in BOOLEAN

(* A frame is one thing only: free, a page table, or the contents of exactly
   one virtual page, also after services that gave up half way. *)
FramesPrivate ==
  /\ free \cap (Mapped \cup Tables) = {}
  /\ Mapped \cap Tables = {}
  /\ \A p, q \in DOMAIN pt : p # q => pt[p].frame # pt[q].frame
  /\ \A s, t \in DOMAIN table : s # t => table[s] # table[t]

(* No frame is lost: the pages that a failed NtAllocateVirtualMemory, pool_grow
   or map_user_pages left behind are never mapped over, because the request
   that failed had used up the last frame and none is ever given back. *)
NoFrameLost == ~ halted => Frames = free \cup Mapped \cup Tables

Committed(a) == Base[a] .. bump[a] - 1

(* Every page below a bump pointer is mapped, through tables that are all
   present: what a service reported as allocated can be used. *)
CommittedMapped ==
  \A a \in Areas : \A p \in Committed(a) : p \in DOMAIN pt /\ Walk(p) \subseteq DOMAIN table

(* Memory handed out stays what it is: no later service replaces the frame
   under a page that an area has committed. *)
CommittedStays ==
  [][\A a \in Areas : \A p \in Committed(a) : p \in DOMAIN pt /\ pt'[p].frame = pt[p].frame]_vars
=============================================================================
