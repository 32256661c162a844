---------------------------- MODULE AddressSpace ----------------------------
(***************************************************************************)
(* Who maps what into the one user address space: the fixed areas of ps.h  *)
(* that KiSystemStartup and PsCreateUserProcess map in the order of the    *)
(* boot, the images the loader finds a place for, and the areas that grow  *)
(* by a bump pointer while the process runs (threads, allocations,         *)
(* callback stacks).  Addresses are page numbers.                          *)
(***************************************************************************)
EXTENDS Integers, Sequences, FiniteSets

CONSTANTS ARENA_PAGES,   \* PROCESS_USER_OBJECT_ARENA_SIZE in pages
          Images,        \* [name, base, pages, reloc]: the images that may be loaded
          CALLBACK_STACK_SLOTS,
          MaxThreads, MaxAllocations, AllocationPages

SpaceAssumption ==
  /\ ARENA_PAGES \in Nat \ {0} /\ CALLBACK_STACK_SLOTS \in Nat
  /\ MaxThreads \in Nat /\ MaxAllocations \in Nat /\ AllocationPages \in Nat \ {0}
  /\ \A i \in Images : i.base \in Nat /\ i.pages \in Nat \ {0} /\ i.reloc \in BOOLEAN

VARIABLES areas,     \* what has been mapped: {[name, first, pages, over]}
          step,      \* the next step of the boot
          bump,      \* g_dynamic_image_next, g_user_alloc_next, g_thread_va, callback stacks
          loaded     \* images that have been placed: name -> first page

vars == <<areas, step, bump, loaded>>

\* `over` is a ghost: the names of the areas whose pages were replaced.
Area(name, first, pages) == [name |-> name, first |-> first, pages |-> pages, over |-> {}]

Overlap(a, b) == a.first < b.first + b.pages /\ b.first < a.first + a.pages

\* MmMapPage for every page of an area: what was mapped there is replaced.
Map(a) ==
  areas' = areas \cup {[a EXCEPT !.over = {b.name : b \in {x \in areas : Overlap(a, x)}}]}

\* Fixed areas, in the order in which they are mapped.  The executable and what it
\* imports are loaded between the server information and the stack.
ServerInfo == Area("server info", 4896, 4)      \* 0x1320000
RangePage == Area("range", 4864 + ARENA_PAGES, 1)
ObjectArena == Area("arena", 4864, ARENA_PAGES) \* 0x1300000
GdiAttr == Area("gdi attr", 4928, 16)           \* 0x1340000

Boot == <<
  Area("shared data", 524256, 1),               \* 0x7FFE0000
  ServerInfo,
  Area("images", 0, 0),
  Area("init block", 144, 1),                   \* 0x90000
  Area("stack", 65536, 16),                     \* below 0x10010000
  Area("peb", 97, 1),                           \* 0x61000
  Area("gdi table", 4096, 384),                 \* 0x1000000
  GdiAttr,
  Area("user table", 4480, 384),                \* 0x1180000
  ObjectArena,
  RangePage,
  Area("ldr", 98, 6),                           \* 0x62000
  Area("params", 104, 1),                       \* 0x68000
  Area("teb", 80, 2) >>                         \* 0x50000

StubArena == Area("stubs", 105, 32)             \* 0x69000
CallbackBase == 5120                            \* 0x1400000
ThreadBase == 196608                            \* 0x30000000

Running == step > Len(Boot)
Loading == IF Running THEN TRUE ELSE Boot[step].name = "images"

Init ==
  /\ areas = {} /\ step = 1 /\ loaded = {}
  /\ bump = [image |-> 4194304,                 \* 0x400000000
             alloc |-> 131072,                  \* 0x20000000
             thread |-> ThreadBase,
             callback |-> 0]

\* One step of KiSystemStartup, W32kInitializeServerInfo, SetupUserStack and
\* PsCreateUserProcess: the area is mapped whatever is there.
BootStep ==
  /\ ~Running
  /\ IF Boot[step].pages = 0 THEN UNCHANGED areas ELSE Map(Boot[step])
  /\ step' = step + 1
  /\ UNCHANGED <<bump, loaded>>

\* LdrpEnsureStubArena, for the first import that is missing.
LdrpEnsureStubArena ==
  /\ Loading /\ \A a \in areas : a.name # StubArena.name
  /\ Map(StubArena)
  /\ UNCHANGED <<step, bump, loaded>>

(***************************************************************************)
(* Images.                                                                 *)
(***************************************************************************)
image_range_free(first, pages) == \A a \in areas : ~Overlap(a, Area("", first, pages))

Rounded(pages) == ((pages + 15) \div 16) * 16

\* The first place from the bump pointer on, in strides of the image's size.
DynamicBase(pages) ==
  LET at(k) == Rounded(bump.image) + k * Rounded(pages)
      free == {k \in 0..Cardinality(areas) : image_range_free(at(k), pages)}
  IN at(CHOOSE k \in free : \A j \in free : k <= j)

\* Faulty choose_image_base: the preferred place is taken if no image is there.
ChooseAmongImages(i) ==
  IF \A a \in areas : a.name \in {j.name : j \in Images} => ~Overlap(a, Area("", i.base, i.pages))
  THEN i.base ELSE IF ~i.reloc THEN 0 ELSE DynamicBase(i.pages)

\* 0 when a fixed image finds its place taken.
choose_image_base(i) ==
  IF image_range_free(i.base, i.pages) THEN i.base
  ELSE IF ~i.reloc THEN 0 ELSE DynamicBase(i.pages)

Placed(i, first) ==
  bump' = IF first = i.base THEN bump ELSE [bump EXCEPT !.image = first + Rounded(i.pages)]

\* LdrpMapImage of an image that is not yet loaded.
LdrpMapImage(i) ==
  LET first == choose_image_base(i)
  IN /\ Loading /\ \A l \in loaded : l.name # i.name
     /\ first # 0
     /\ Map(Area(i.name, first, i.pages))
     /\ loaded' = loaded \cup {[name |-> i.name, first |-> first]}
     /\ Placed(i, first) /\ UNCHANGED step

\* There is no frame for a page after the first k: they stay mapped, and no one knows
\* of them.
LdrpMapImageFails(i, k) ==
  LET first == choose_image_base(i)
  IN /\ Loading /\ \A l \in loaded : l.name # i.name
     /\ first # 0 /\ k \in 1..(i.pages - 1)
     /\ \A a \in areas : a.name # "lost"   \* at most one failure
     /\ Map(Area("lost", first, k))
     /\ Placed(i, first) /\ UNCHANGED <<step, loaded>>

(***************************************************************************)
(* While the process runs.                                                 *)
(***************************************************************************)
\* A stack of 16 pages and a TEB of two (map_user_pages).
NtCreateThreadEx ==
  /\ Running /\ bump.thread < ThreadBase + 18 * MaxThreads
  /\ Map(Area("thread", bump.thread, 18))
  /\ bump' = [bump EXCEPT !.thread = @ + 18]
  /\ UNCHANGED <<step, loaded>>

NtAllocateVirtualMemory ==
  /\ Running /\ bump.alloc < 131072 + AllocationPages * MaxAllocations
  /\ Map(Area("allocation", bump.alloc, AllocationPages))
  /\ bump' = [bump EXCEPT !.alloc = @ + AllocationPages]
  /\ UNCHANGED <<step, loaded>>

KiClaimCallbackStack ==
  /\ Running /\ bump.callback < CALLBACK_STACK_SLOTS
  /\ Map(Area("callback", CallbackBase + 32 * bump.callback, 32))
  /\ bump' = [bump EXCEPT !.callback = @ + 1]
  /\ UNCHANGED <<step, loaded>>

Next ==
  \/ BootStep \/ LdrpEnsureStubArena
  \/ \E i \in Images : LdrpMapImage(i) \/ \E k \in {1, i.pages - 1} : LdrpMapImageFails(i, k)
  \/ NtCreateThreadEx \/ NtAllocateVirtualMemory \/ KiClaimCallbackStack

Spec == Init /\ [][Next]_vars

(***************************************************************************)
(* Properties.                                                             *)
(***************************************************************************)
TypeOK ==
  /\ step \in 1..(Len(Boot) + 1)
  /\ \A a \in areas : a.first \in Nat \ {0} /\ a.pages \in Nat \ {0}
  /\ bump.image % 16 = 0 /\ bump.callback \in 0..CALLBACK_STACK_SLOTS
  /\ \A l \in loaded : \E i \in Images : i.name = l.name

FromLoader == {i.name : i \in Images} \cup {"lost"}

\* Who may be covered by an area that is mapped without looking (PsCreateUserProcess,
\* LdrpEnsureStubArena, NtCreateThreadEx, NtAllocateVirtualMemory): images at a place of
\* their own choice, and the few areas the layout itself puts on each other.
MayCover(a) ==
  FromLoader \cup
  CASE a.name = "arena" -> {"server info"}
    [] a.name = "range" -> {"gdi attr"}
    [] a.name = "allocation" /\ a.first + a.pages > ThreadBase -> {"thread"}
    [] a.name = "thread" /\ a.first < bump.alloc -> {"allocation"}
    [] OTHER -> {}

\* An image, or what is left of one, is never placed over anything, in whatever order
\* images are loaded and threads started and whatever a failure left behind
\* (choose_image_base); and of what is mapped without looking, nothing but the areas of
\* MayCover is covered: stacks, tables, callback stacks and allocations that stay below
\* ThreadBase keep clear of each other.
AreasApart ==
  \A a \in areas : a.over \subseteq IF a.name \in FromLoader THEN {} ELSE MayCover(a)

\* An image without relocations is where it was linked; one that was moved begins at a
\* multiple of 64 KiB (choose_image_base).
FixedWhereLinked ==
  \A l \in loaded : \A i \in Images :
    l.name = i.name => l.first = i.base \/ (i.reloc /\ l.first % 16 = 0)

\* Nothing is mapped over an image once it is loaded.
ImagesStay == \A a \in areas : a.over \cap {i.name : i \in Images} = {}

\* "filled while writable, then made read-only for ring 3 and the kernel alike": what
\* W32kInitializeServerInfo filled is what USER32 reads.
ServerInfoStays == \A a \in areas : ServerInfo.name \notin a.over

\* "the page above the window arena carries that range pair": no other area is there.
RangePageKept == \A a \in areas : a.name = RangePage.name => a.over = {}
=============================================================================
