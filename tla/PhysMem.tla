------------------------------ MODULE PhysMem ------------------------------
(***************************************************************************)
(* The physical memory manager: the firmware's memory map (mm/multiboot.c) *)
(* and the bitmap allocator of page frames (mm/pmm.c).  Addresses are in   *)
(* bytes, frames are numbered; PAGE_SIZE and the fixed addresses are       *)
(* constants.  MmAllocatePages and MmFreePages are exported by mm.h and    *)
(* have no caller yet; they are modelled for a caller that frees what it   *)
(* holds.                                                                  *)
(***************************************************************************)
EXTENDS Integers, Sequences, FiniteSets, FiniteSetsExt, SequencesExt

CONSTANTS PAGE_SIZE,
          MM_MAX_REGIONS,
          LowEnd,            \* the first megabyte is kept back
          KERNEL_PHYS_BASE,
          KernelEnd,         \* __kernel_phys_end
          MemoryMaps,        \* maps the firmware may report
          MaxCount           \* largest run of frames asked for

PhysMemAssumption ==
  /\ PAGE_SIZE \in Nat \ {0}
  /\ MM_MAX_REGIONS \in Nat
  /\ KERNEL_PHYS_BASE \in Nat /\ KernelEnd \in Nat /\ LowEnd \in Nat
  /\ KERNEL_PHYS_BASE <= KernelEnd
  /\ MaxCount \in Nat

VARIABLES map,     \* MM_MEMORY_MAP
          pmm,     \* PMM_STATE: the bitmap as the set of used frames
          held,    \* history: the extents callers hold
          result   \* history: how the last allocation ended

vars == <<map, pmm, held, result>>

Down(x) == x \div PAGE_SIZE
Up(x) == (x + PAGE_SIZE - 1) \div PAGE_SIZE

\* The firmware's entries as regions, at most MM_MAX_REGIONS of them.
MmParseMultibootMemoryMap(entries) ==
  LET regions == SubSeq(entries, 1, Min({Len(entries), MM_MAX_REGIONS}))
      ends == {regions[i].base + regions[i].length :
                 i \in {j \in DOMAIN regions : regions[j].available}}
  IN [regions |-> regions, highest_address |-> Max(ends \cup {0})]

Frames == 0 .. pmm.total_pages - 1

reserve_range(p, base, length) ==
  LET fs == {f \in (0 .. p.total_pages - 1) \ p.used :
               Down(base) <= f /\ f < Up(base + length)}
  IN [p EXCEPT !.used = @ \cup fs,
               !.free_pages = Max({0, @ - Cardinality(fs)}),
               !.used_pages = @ + Cardinality(fs)]

free_range(p, base, length) ==
  LET fs == {f \in p.used : Up(base) <= f /\ f < Down(base + length)}
  IN [p EXCEPT !.used = @ \ fs,
               !.free_pages = @ + Cardinality(fs),
               !.used_pages = Max({0, @ - Cardinality(fs)})]

\* The bitmap lies on the first page boundary after the kernel image.
BitmapBase == Up(KernelEnd) * PAGE_SIZE
BitmapBytes(total) == (total + 7) \div 8

MmInitializePhysicalMemory(m) ==
  LET total == Down(m.highest_address)
      empty == [used |-> 0 .. total - 1, total_pages |-> total, free_pages |-> 0,
                used_pages |-> total, next_hint |-> Down(LowEnd)]
      Free(p, r) == IF r.available THEN free_range(p, r.base, r.length) ELSE p
      freed == FoldLeft(Free, empty, m.regions)
  IN reserve_range(
       reserve_range(
         reserve_range(freed, 0, LowEnd),
         KERNEL_PHYS_BASE, KernelEnd - KERNEL_PHYS_BASE),
       BitmapBase, Up(BitmapBytes(total)) * PAGE_SIZE)

Init ==
  \E entries \in MemoryMaps :
    LET m == MmParseMultibootMemoryMap(entries) IN
    /\ \E i \in DOMAIN entries : entries[i].available
    /\ map = m
    /\ pmm = MmInitializePhysicalMemory(m)
    /\ held = {}
    /\ result = "none"
-----------------------------------------------------------------------------
Extent(first, count) == first .. first + count - 1

\* Frames in the order in which MmAllocatePage looks at them.
Scanned(scan) == LET f == pmm.next_hint + scan
                 IN IF f >= pmm.total_pages THEN f - pmm.total_pages ELSE f

Hits == {s \in 0 .. pmm.total_pages - 1 : Scanned(s) \notin pmm.used}

\* The frames of an extent become used.
Take(first, count, hint) ==
  /\ pmm' = [pmm EXCEPT !.used = @ \cup Extent(first, count),
                        !.free_pages = @ - count,
                        !.used_pages = @ + count,
                        !.next_hint = hint]
  /\ held' = held \cup {[first |-> first, count |-> count]}
  /\ result' = "frames"

MmAllocatePage ==
  \/ /\ Hits # {}
     /\ LET f == Scanned(Min(Hits)) IN Take(f, 1, f + 1)
  \/ /\ Hits = {}
     /\ result' = "no page"
     /\ UNCHANGED <<pmm, held>>

\* Where a run of count free frames begins.
Runs(count) == {f \in Frames : /\ f + count <= pmm.total_pages
                               /\ Extent(f, count) \cap pmm.used = {}}

MmAllocatePages(count) ==
  IF count = 1 THEN MmAllocatePage
  ELSE \/ /\ Runs(count) # {}
          /\ Take(Min(Runs(count)), count, pmm.next_hint)
       \/ /\ Runs(count) = {}
          /\ result' = "no run"
          /\ UNCHANGED <<pmm, held>>

HintAt(e) == IF e.first < pmm.next_hint THEN e.first ELSE pmm.next_hint

MmFreePages(e) ==
  LET fs == Extent(e.first, e.count) \cap Frames \cap pmm.used IN
  /\ pmm' = [pmm EXCEPT !.used = @ \ fs,
                        !.free_pages = @ + Cardinality(fs),
                        !.used_pages = @ - Cardinality(fs),
                        !.next_hint = HintAt(e)]
  /\ held' = held \ {e}
  /\ result' = "none"

Next ==
  /\ UNCHANGED map
  /\ \/ \E count \in 1 .. MaxCount : MmAllocatePages(count)
     \/ \E e \in held : MmFreePages(e)

Spec == Init /\ [][Next]_vars
-----------------------------------------------------------------------------
TypeOK ==
  /\ pmm.used \subseteq Frames
  /\ pmm.next_hint \in 0 .. pmm.total_pages
  /\ pmm.free_pages \in Nat /\ pmm.used_pages \in Nat
  /\ \A e \in held : Extent(e.first, e.count) \subseteq Frames

\* Bytes that the firmware reported as RAM, and that nobody keeps back.
Usable(b) ==
  /\ \E i \in DOMAIN map.regions :
       LET r == map.regions[i] IN r.available /\ r.base <= b /\ b < r.base + r.length
  /\ b >= LowEnd
  /\ ~ (KERNEL_PHYS_BASE <= b /\ b < KernelEnd)
  /\ ~ (BitmapBase <= b /\ b < BitmapBase + BitmapBytes(pmm.total_pages))

(* A caller of MmAllocatePage or MmAllocatePages gets frames that no other
   caller holds, that are RAM in every byte and that hold neither the kernel
   nor the bitmap, whatever the firmware's regions look like. *)
FramesPrivate ==
  \A e \in held :
    /\ \A d \in held : d = e \/ Extent(d.first, d.count) \cap Extent(e.first, e.count) = {}
    /\ \A f \in Extent(e.first, e.count) :
         \A b \in f * PAGE_SIZE .. (f + 1) * PAGE_SIZE - 1 : Usable(b)

(* free_pages, which NtQuerySystemInformation reports, is the number of clear
   bits, and used_pages that of the others. *)
CountersExact ==
  /\ pmm.free_pages = Cardinality(Frames \ pmm.used)
  /\ pmm.used_pages = Cardinality(pmm.used)

(* MmAllocatePage and MmAllocatePages fail only when there is nothing to give:
   the search hint hides no free frame and the search no run. *)
FailsOnlyWhenExhausted ==
  /\ result = "no page" => Frames \subseteq pmm.used
  /\ result = "no run" =>
       \A f \in Frames : ~ Extent(f, MaxCount) \subseteq Frames \ pmm.used
=============================================================================
