------------------------------ MODULE MCMemory ------------------------------
(***************************************************************************)
(* The five parts that hand out memory: frames, pages, the kernel pool,    *)
(* the process heap of kernel32 and the layout of the address space, small *)
(* instances of them but for pages and pool, whose constants are those of  *)
(* this module.  The parts do not interact here; `part` says which one     *)
(* runs, and what TLC explores is the union of their state graphs.         *)
(*                                                                         *)
(* Frames: a page is two bytes, so that regions begin and end inside one.  *)
(* The heap is run twice: in one segment with HeapReAlloc, and with        *)
(* segments that other callers of VirtualAlloc keep apart.                 *)
(***************************************************************************)
EXTENDS Integers, Sequences, FiniteSets

CONSTANTS POOL_HDR, POOL_ALIGN, POOL_GUARD, POOL_MIN_PAYLOAD, POOL_GROW_CHUNK, PAGE_SIZE,
          Sizes, Memory,                             \* Pool
          RamFrames, Areas, Base, FANOUT, MaxPages   \* VirtualMemory

VARIABLES part,
          map, pmm, held, result,                  \* PhysMem
          free, table, pt, bump, call, halted,     \* VirtualMemory
          nodes, heap_end, in_use, frames,         \* Pool
          hdr, pages, segs, heapcall, live,        \* ProcessHeap
          areas, step, next, loaded                \* AddressSpace

Region(b, l, a) == [base |-> b, length |-> l, available |-> a]
Maps ==
  {<<Region(0, n, TRUE), Region(b, l, a)>> :
     n \in {11, 14}, b \in {5, 9, 14}, l \in {3, 5}, a \in BOOLEAN}
  \cup {<<Region(b, l, FALSE), Region(3, 15, TRUE), Region(0, 4, TRUE)>> :
          b \in {1, 8}, l \in {2, 6}}
  \cup {<<Region(1, 7, TRUE), Region(8, 1, FALSE), Region(9, 5, TRUE), Region(15, 4, TRUE)>>}

Phys == INSTANCE PhysMem WITH
  PAGE_SIZE <- 2, MM_MAX_REGIONS <- 3, LowEnd <- 2, KERNEL_PHYS_BASE <- 2, KernelEnd <- 5,
  MemoryMaps <- Maps, MaxCount <- 2

Vm == INSTANCE VirtualMemory WITH Frames <- RamFrames
Ex == INSTANCE Pool

Heap == INSTANCE ProcessHeap WITH
  Threads <- {"t"}, BLOCK <- 3, HEAP <- 1, MIN_SPLIT <- 2, REGION <- 24, PAGE <- 16,
  Sizes <- {0, 7}, ReAllocSizes <- {2, 12}, AreaSizes <- {}, MaxPages <- 3, call <- heapcall

Segments == INSTANCE ProcessHeap WITH
  Threads <- {"t"}, BLOCK <- 3, HEAP <- 1, MIN_SPLIT <- 2, REGION <- 11, PAGE <- 16,
  Sizes <- {3, 4, 14}, ReAllocSizes <- {}, AreaSizes <- {16}, MaxPages <- 4, call <- heapcall

Image(n, b, p, r) == [name |-> n, base |-> b, pages |-> p, reloc |-> r]
Space == INSTANCE AddressSpace WITH
  ARENA_PAGES <- 64, CALLBACK_STACK_SLOTS <- 2, MaxThreads <- 2, MaxAllocations <- 2,
  AllocationPages <- 40000, bump <- next,
  Images <- {Image("kernel32", 1572864, 40, TRUE), Image("fixed", 1572880, 8, FALSE),
             Image("table", 4470, 20, TRUE), Image("low", 131080, 5, TRUE)}

ASSUME PoolAndPagesAssumption == Vm!VirtualMemoryAssumption /\ Ex!PoolAssumption

ASSUME /\ Phys!PhysMemAssumption
       /\ Heap!ProcessHeapAssumption /\ Segments!ProcessHeapAssumption
       /\ Space!SpaceAssumption

FirstMap == <<Region(0, 11, TRUE), Region(14, 5, TRUE)>>

\* A part that does not run stays in one of its initial states.
Init ==
  /\ part \in {"frames", "pages", "pool", "heap", "segments", "space"}
  /\ Phys!Init /\ (part # "frames" => map = Phys!MmParseMultibootMemoryMap(FirstMap))
  /\ Vm!Init /\ Ex!Init /\ Space!Init
  /\ IF part = "segments" THEN Segments!Init ELSE Heap!Init

phys == <<map, pmm, held, result>>
virt == <<free, table, pt, bump, call, halted>>
pool == <<nodes, heap_end, in_use, frames>>
heap == <<hdr, pages, segs, heapcall, live>>
space == <<areas, step, next, loaded>>
vars == <<part, phys, virt, pool, heap, space>>

Next ==
  /\ UNCHANGED part
  /\ \/ part = "frames" /\ Phys!Next /\ UNCHANGED <<virt, pool, heap, space>>
     \/ part = "pages" /\ Vm!Next /\ UNCHANGED <<phys, pool, heap, space>>
     \/ part = "pool" /\ Ex!Next /\ UNCHANGED <<phys, virt, heap, space>>
     \/ part = "heap" /\ Heap!Next /\ UNCHANGED <<phys, virt, pool, space>>
     \/ part = "segments" /\ Segments!Next /\ UNCHANGED <<phys, virt, pool, space>>
     \/ part = "space" /\ Space!Next /\ UNCHANGED <<phys, virt, pool, heap>>

Spec == Init /\ [][Next]_vars
\* Where the areas of a run begin.
FarApart == [a \in Areas |-> CASE a = "user" -> 0 [] a = "thread" -> 12 [] OTHER -> 24]
-----------------------------------------------------------------------------
\* A frame is free, a page table or the contents of one page, and what a service
\* (NtAllocateVirtualMemory, map_user_pages, pool_grow) reported as allocated is mapped, also
\* after services that gave up half way.
FramesOwned == Vm!TypeOK /\ Vm!FramesPrivate /\ Vm!CommittedMapped

\* The blocks of the pool tile its arena without two free neighbours, and a pool that was
\* grown satisfies the request it was grown for (ExAllocatePoolWithTag, ExFreePool,
\* pool_grow).
PoolSound == Ex!Tiled /\ Ex!Coalesced /\ Ex!GrowSuffices

\* What is given out has one owner, and the books are exact.  MmAllocatePage and
\* MmAllocatePages give out RAM that nobody else holds, fail only when there is no room,
\* and count exactly; no frame is lost by a service that gives up half way
\* (NtAllocateVirtualMemory); the bytes of the pool in use are counted
\* (ExPoolBytesInUse); a block of the process heap in use belongs to one caller and is
\* long enough, and the blocks tile the segments, which are apart (HeapAlloc,
\* HeapReAlloc, HeapFree).
BlocksOwned ==
  /\ part = "frames" =>
       Phys!TypeOK /\ Phys!FramesPrivate /\ Phys!CountersExact /\ Phys!FailsOnlyWhenExhausted
  /\ part = "pages" => Vm!NoFrameLost
  /\ part = "pool" => Ex!TypeOK /\ Ex!InUseExact
  /\ part = "heap" => Heap!TypeOK /\ Heap!InUseOwned
  /\ part = "segments" => Segments!TypeOK /\ Segments!SegmentsTiled

\* An image is never placed over anything, and without relocations it is where it was
\* linked; of what is mapped without looking only the areas of MayCover meet
\* (choose_image_base, PsCreateUserProcess, NtCreateThreadEx, NtAllocateVirtualMemory).
AreasApart ==
  part = "space" => Space!TypeOK /\ Space!AreasApart /\ Space!FixedWhereLinked

\* What a caller was given stays its own: the frame under a committed page stays
\* (MmMapPage, MmProtectRange), the process heap is an Allocator, and a free joins
\* what it can (HeapAlloc, HeapFree).
GivenStays == Vm!CommittedStays /\ Heap!ImplementsAllocator /\ Heap!FreeCoalesces
=============================================================================
