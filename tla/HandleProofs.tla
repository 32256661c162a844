---------------------------- MODULE HandleProofs ----------------------------
(***************************************************************************)
(* Proofs about what handles stand for and who has to give it back, for    *)
(* any number of objects, threads and places: the objects of GDI, the      *)
(* handle table of the registry, and the file handles, copies and          *)
(* mappings of kernel32.                                                   *)
(***************************************************************************)
EXTENDS GdiObjects, WellFoundedInduction, SequenceTheorems, TLAPS

CONSTANTS Threads, MaxHandles,
          Names, ValueNames, Fold(_), Datas, Roots, Seeds, MaxKeys, MaxDepth, BUFFER,  \* Registry
          SizeOf, Console, MAPPINGS, CHUNK, Lengths, MaxViews                          \* FileServices
VARIABLES tree, values, table, regcall, result, held,              \* Registry
          file, filecall, maps, views, std, opened, freed          \* FileServices

Reg == INSTANCE Registry WITH call <- regcall
Io == INSTANCE FileServices WITH call <- filecall

-----------------------------------------------------------------------------
(* The objects of GDI *)

Object == [type : Types \cup {"free"}, surface : Indices \cup {0}, screen : BOOLEAN, hwnd : Nat,
           brush : Handles \cup {NoHandle}, bitmap : Handles \cup {NoHandle},
           color : Colors \cup {""}, block : Blocks \cup {0}]
Cell == [type : Types \cup {"free"}, user : Nat]

GdiTypes ==
    /\ objects \in [Indices -> Object] /\ cells \in [Indices -> Cell]
    /\ next \in Indices /\ attr \in 0..Attrs
    /\ storage \subseteq Blocks /\ alive \subseteq Windows
    /\ cache \in [0..(W32K_DC_CACHE - 1) -> Handles \cup {NoHandle}]
    /\ \A i \in Indices : objects[i].type = cells[i].type

\* Attribute blocks are given out in order.
AttrsCounted ==
    /\ \A i \in Indices : objects[i].type # "dc" => cells[i].user = 0
    /\ \A i \in Indices : objects[i].type = "dc" => cells[i].user \in 1..attr

\* A window inside the cache finds its context there.
CacheKnows ==
    \A i \in Indices : objects[i].type = "dc" /\ objects[i].hwnd \in 1..(W32K_DC_CACHE - 1)
        => cache[objects[i].hwnd] = <<"dc", i>>

GdiInv ==
    GdiTypes /\ StorageOwned /\ AttrsCounted /\ AttrPrivate /\ FailsOnlyWhenFull /\ CacheKnows

LEMMA KindsApart ==
    ASSUME GdiAssumption
    PROVE  /\ "free" \notin Types /\ {"dc", "bitmap", "brush"} \subseteq Types /\ Kinds \subseteq Types
           /\ "dc" \notin Kinds /\ "bitmap" \notin Kinds /\ "free" \notin Kinds
           /\ 1 \in Indices /\ Indices \subseteq Nat /\ 0 \notin Indices
  BY DEF GdiAssumption, Types, Indices

LEMMA FreshIs ==
    ASSUME NEW type \in Types \cup {"free"}
    PROVE  /\ Fresh(type) \in Object /\ Fresh(type).type = type /\ Fresh(type).hwnd = 0
           /\ Fresh(type).block = 0
<1>1. NoHandle \in Handles \cup {NoHandle}
  OBVIOUS
<1>2. FALSE \in BOOLEAN
  OBVIOUS
<1>3. QED
  BY <1>1, <1>2 DEF Fresh, Object

LEMMA GdiInit == ASSUME GdiAssumption PROVE Init => GdiInv
<1> SUFFICES ASSUME Init PROVE GdiInv
  OBVIOUS
<1>1. objects = [i \in Indices |-> Fresh("free")] /\ cells = [i \in Indices |-> NoCell]
  BY DEF Init
<1>2. NoCell \in Cell /\ NoCell.type = "free" /\ NoCell.user = 0
  BY DEF NoCell, Cell
<1>3. objects \in [Indices -> Object] /\ cells \in [Indices -> Cell]
  BY <1>1, <1>2, FreshIs
<1>4. \A i \in Indices : objects[i].type = "free" /\ cells[i].type = "free" /\ cells[i].user = 0
  BY <1>1, <1>2, FreshIs
<1>5. GdiTypes
  BY <1>3, <1>4, KindsApart DEF GdiTypes, Init, GdiAssumption
<1>6. StorageOwned
  BY <1>4 DEF StorageOwned, Live, Init
<1>7. QED
  BY <1>4, <1>5, <1>6 DEF GdiInv, AttrsCounted, AttrPrivate, Live, FailsOnlyWhenFull, CacheKnows, Init

LEMMA FirstFreeIs ==
    ASSUME GdiAssumption, GdiTypes
    PROVE  /\ (FirstFree = 0) <=> (FreeIndices = {})
           /\ FirstFree # 0 => FirstFree \in Indices /\ objects[FirstFree].type = "free"
<1>1. FreeIndices \subseteq Indices /\ 0 \notin FreeIndices
  BY KindsApart DEF FreeIndices
<1>2. CASE FreeIndices = {}
  BY <1>2 DEF FirstFree
<1>3. CASE FreeIndices # {}
  <2>1. \A i \in Indices : Distance(i) \in Nat
    <3>1. next \in Nat /\ next >= 1 /\ next <= GDI_MAX_OBJECTS - 1 /\ GDI_MAX_OBJECTS \in Nat
      BY DEF GdiTypes, Indices, GdiAssumption
    <3>2. QED
      BY <3>1 DEF Distance, Indices
  <2>2. PICK D : D = {Distance(i) : i \in FreeIndices}
    OBVIOUS
  <2>3. D \in SUBSET Nat /\ D # {}
    BY <1>1, <1>3, <2>1, <2>2
  <2>4. PICK x \in D : \A y \in D : <<y, x>> \notin OpToRel(<, Nat)
    BY <2>3, NatLessThanWellFounded, WFMin
  <2>5. \A y \in D : ~(y < x)
    BY <2>3, <2>4 DEF OpToRel
  <2>6. \A y \in D : x <= y
    BY <2>3, <2>5
  <2>7. \E i \in FreeIndices : \A j \in FreeIndices : Distance(i) <= Distance(j)
    BY <2>2, <2>4, <2>6
  <2>8. FirstFree \in FreeIndices
    BY <1>3, <2>7 DEF FirstFree
  <2>9. QED
    BY <1>1, <1>3, <2>8 DEF FreeIndices
<1>4. QED
  BY <1>2, <1>3

LEMMA AfterInside == ASSUME GdiAssumption, NEW i \in Indices PROVE After(i) \in Indices
  BY DEF GdiAssumption, Indices, After

\* Slot i, free until now, gets the object o and its cell the attribute block u.
Fills(i, o, u) ==
    /\ i \in Indices /\ objects[i].type = "free"
    /\ objects' \in [Indices -> Object] /\ cells' \in [Indices -> Cell]
    /\ next' \in Indices /\ failed' = "none"
    /\ objects'[i] = o /\ cells'[i].type = o.type /\ cells'[i].user = u
    /\ \A j \in Indices : j # i => objects'[j] = objects[j] /\ cells'[j] = cells[j]

LEMMA Allocated ==
    ASSUME GdiAssumption, GdiTypes, NEW o \in Object, NEW u \in Nat, gdi_allocate(o, u)
    PROVE  \/ /\ FirstFree = 0 /\ FreeIndices = {} /\ next' \in Indices
              /\ UNCHANGED <<objects, cells>> /\ failed' = Asked(o)
           \/ FirstFree # 0 /\ Fills(FirstFree, o, u)
<1>1. CASE FirstFree = 0
  <2>1. next' = After(next) /\ failed' = Asked(o) /\ UNCHANGED <<objects, cells>>
    BY <1>1 DEF gdi_allocate
  <2>2. next' \in Indices
    BY <2>1, AfterInside DEF GdiTypes
  <2>3. QED
    BY <1>1, <2>1, <2>2, FirstFreeIs
<1>2. CASE FirstFree # 0
  <2>1. PICK i : i = FirstFree
    OBVIOUS
  <2>2. i \in Indices /\ objects[i].type = "free"
    BY <1>2, <2>1, FirstFreeIs
  <2>3. PICK c : c = [type |-> o.type, user |-> u]
    OBVIOUS
  <2>4. c \in Cell /\ c.type = o.type /\ c.user = u
    BY <2>3 DEF Cell, Object
  <2>5. /\ objects' = [objects EXCEPT ![i] = o] /\ cells' = [cells EXCEPT ![i] = c]
        /\ next' = After(i) /\ failed' = "none"
    BY <1>2, <2>1, <2>3 DEF gdi_allocate
  <2>6. objects \in [Indices -> Object] /\ cells \in [Indices -> Cell]
    BY DEF GdiTypes
  <2>7. Fills(i, o, u)
    BY <2>2, <2>4, <2>5, <2>6, AfterInside DEF Fills
  <2>8. QED
    BY <1>2, <2>1, <2>7
<1>3. QED
  BY <1>1, <1>2

\* The service has a reason for finding no handle, if it finds none.
Excused ==
    failed' # "none" => \/ FreeIndices = {}
                        \/ failed' = "dc" /\ attr' = Attrs
                        \/ failed' = "screen" /\ ~gfx'

\* A service that leaves the objects alone.
LEMMA NothingFilled ==
    ASSUME GdiAssumption, GdiInv, UNCHANGED <<objects, cells, cache, storage>>, next' \in Indices,
           attr' \in 0..Attrs, attr <= attr', alive' \subseteq Windows, Excused
    PROVE  GdiInv'
<1>1. GdiTypes'
  BY DEF GdiInv, GdiTypes
<1>2. StorageOwned'
  BY DEF GdiInv, StorageOwned, Live
<1>3. AttrsCounted'
  <2>1. attr \in Nat /\ attr' \in Nat
    BY DEF GdiInv, GdiTypes, GdiAssumption
  <2>2. \A n \in 1..attr : n \in 1..attr'
    BY <2>1
  <2>3. QED
    BY <2>2 DEF GdiInv, AttrsCounted
<1>4. AttrPrivate'
  BY DEF GdiInv, AttrPrivate, Live
<1>5. FailsOnlyWhenFull'
  BY DEF Excused, FailsOnlyWhenFull, FreeIndices
<1>6. CacheKnows'
  BY DEF GdiInv, CacheKnows
<1>7. QED
  BY <1>1, <1>2, <1>3, <1>4, <1>5, <1>6 DEF GdiInv

\* A service that fills a slot.
LEMMA SlotFilled ==
    ASSUME GdiAssumption, GdiInv, NEW i, NEW o \in Object, NEW u \in Nat, Fills(i, o, u),
           o.type # "free", UNCHANGED alive, attr' \in 0..Attrs,
           o.type = "dc" => u = attr + 1 /\ attr' = attr + 1,
           o.type # "dc" => u = 0 /\ attr' = attr,
           o.type = "bitmap" => o.block \in Blocks \ storage /\ storage' = storage \cup {o.block},
           o.type # "bitmap" => storage' = storage,
           cache' \in [0..(W32K_DC_CACHE - 1) -> Handles \cup {NoHandle}],
           \A w \in 1..(W32K_DC_CACHE - 1) :
              cache'[w] = IF o.type = "dc" /\ w = o.hwnd THEN <<"dc", i>> ELSE cache[w],
           o.type = "dc" /\ o.hwnd \in 1..(W32K_DC_CACHE - 1) =>
              \A j \in Indices : objects[j].type = "dc" => objects[j].hwnd # o.hwnd
    PROVE  GdiInv'
<1>1. GdiTypes'
  <2>1. objects' \in [Indices -> Object] /\ cells' \in [Indices -> Cell] /\ next' \in Indices
    BY DEF Fills
  <2>2. \A j \in Indices : objects'[j].type = cells'[j].type
    BY DEF Fills, GdiInv, GdiTypes
  <2>3. storage' \subseteq Blocks /\ alive' \subseteq Windows
    BY DEF GdiInv, GdiTypes
  <2>4. QED
    BY <2>1, <2>2, <2>3 DEF GdiTypes
<1>2. \A j \in Indices : j # i => objects'[j] = objects[j] /\ cells'[j] = cells[j]
  BY DEF Fills
<1>3. objects'[i] = o /\ cells'[i].user = u /\ objects[i].type = "free" /\ i \in Indices /\ failed' = "none"
  BY DEF Fills
<1>4. StorageOwned'
  <2>1. CASE o.type = "bitmap"
    <3>1. Live("bitmap")' = Live("bitmap") \cup {i} /\ i \notin Live("bitmap")
      BY <1>2, <1>3, <2>1 DEF Live
    <3>2. \A j \in Live("bitmap") : objects'[j].block = objects[j].block /\ objects[j].block \in storage
      BY <1>2, <1>3, <3>1 DEF Live, GdiInv, StorageOwned
    <3>3. storage' = {objects'[j].block : j \in Live("bitmap")'}
      BY <1>3, <2>1, <3>1, <3>2 DEF GdiInv, StorageOwned
    <3>4. \A j, k \in Live("bitmap")' : objects'[j].block = objects'[k].block => j = k
      BY <1>3, <2>1, <3>1, <3>2 DEF GdiInv, StorageOwned
    <3>5. QED
      BY <3>3, <3>4 DEF StorageOwned
  <2>2. CASE o.type # "bitmap"
    <3>1. Live("bitmap")' = Live("bitmap") /\ i \notin Live("bitmap")
      BY <1>2, <1>3, <2>2 DEF Live
    <3>2. \A j \in Live("bitmap") : objects'[j].block = objects[j].block
      BY <1>2, <1>3, <3>1 DEF Live
    <3>3. QED
      BY <2>2, <3>1, <3>2 DEF GdiInv, StorageOwned
  <2>3. QED
    BY <2>1, <2>2
<1>5. attr \in Nat /\ attr' \in Nat /\ \A n \in 1..attr : n \in 1..attr' /\ n # attr + 1
  <2>1. attr \in Nat
    BY DEF GdiInv, GdiTypes, GdiAssumption
  <2>2. QED
    BY <2>1
<1>6. AttrsCounted'
  <2>1. \A j \in Indices : objects'[j].type # "dc" => cells'[j].user = 0
    BY <1>2, <1>3 DEF GdiInv, AttrsCounted
  <2>2. \A j \in Indices : objects'[j].type = "dc" => cells'[j].user \in 1..attr'
    <3>1. o.type = "dc" => u \in 1..attr'
      BY <1>5
    <3>2. QED
      BY <1>2, <1>3, <1>5, <3>1 DEF GdiInv, AttrsCounted
  <2>3. QED
    BY <2>1, <2>2 DEF AttrsCounted
<1>7. AttrPrivate'
  <2>1. \A j \in Indices : (objects'[j].type = "dc") = (cells'[j].user # 0)
    <3>1. \A j \in Indices : j # i => ((objects'[j].type = "dc") = (cells'[j].user # 0))
      BY <1>2 DEF GdiInv, AttrPrivate
    <3>2. (objects'[i].type = "dc") = (cells'[i].user # 0)
      BY <1>3, <1>5
    <3>3. QED
      BY <3>1, <3>2
  <2>2. \A j, k \in Live("dc")' : cells'[j].user = cells'[k].user => j = k
    <3>1. \A j \in Live("dc")' : j \in Indices /\ objects'[j].type = "dc"
      BY DEF Live
    <3>2. \A j \in Live("dc")' : j # i => j \in Live("dc") /\ cells'[j].user \in 1..attr
      BY <1>2, <3>1 DEF Live, GdiInv, AttrsCounted
    <3>3. i \in Live("dc")' => cells'[i].user = attr + 1
      BY <1>3, <3>1
    <3>4. QED
      BY <1>2, <1>5, <3>1, <3>2, <3>3 DEF GdiInv, AttrPrivate
  <2>3. QED
    BY <2>1, <2>2 DEF AttrPrivate
<1>8. FailsOnlyWhenFull'
  BY <1>3 DEF FailsOnlyWhenFull
<1>9. CacheKnows'
  <2>1. ASSUME NEW j \in Indices, objects'[j].type = "dc",
               objects'[j].hwnd \in 1..(W32K_DC_CACHE - 1)
        PROVE  cache'[objects'[j].hwnd] = <<"dc", j>>
    <3>1. CASE j = i
      BY <1>3, <2>1, <3>1
    <3>2. CASE j # i
      <4>1. objects'[j] = objects[j]
        BY <1>2, <3>2
      <4>2. cache[objects[j].hwnd] = <<"dc", j>>
        BY <2>1, <4>1 DEF GdiInv, CacheKnows
      <4>3. ~(o.type = "dc" /\ objects[j].hwnd = o.hwnd)
        BY <2>1, <4>1
      <4>4. QED
        BY <2>1, <4>1, <4>2, <4>3
    <3>3. QED
      BY <3>1, <3>2
  <2>2. QED
    BY <2>1 DEF CacheKnows
<1>10. QED
  BY <1>1, <1>4, <1>6, <1>7, <1>8, <1>9 DEF GdiInv

\* A context takes an attribute block whether or not there is a handle for it.
LEMMA DcCreated ==
    ASSUME GdiAssumption, GdiInv, NEW o \in Object, o.type = "dc", CreateDc(o), UNCHANGED <<storage, alive>>,
           cache' \in [0..(W32K_DC_CACHE - 1) -> Handles \cup {NoHandle}],
           FirstFree = 0 \/ gdi_allocate_attr = 0 => cache' = cache,
           ~(FirstFree = 0 \/ gdi_allocate_attr = 0) => \A w \in 1..(W32K_DC_CACHE - 1) :
              cache'[w] = IF w = o.hwnd THEN <<"dc", FirstFree>> ELSE cache[w],
           o.hwnd \in 1..(W32K_DC_CACHE - 1) =>
              \A j \in Indices : objects[j].type = "dc" => objects[j].hwnd # o.hwnd
    PROVE  GdiInv'
<1>1. GdiTypes /\ attr \in Nat /\ attr <= Attrs /\ Attrs \in Nat
  BY DEF GdiInv, GdiTypes, GdiAssumption
<1>2. CASE gdi_allocate_attr = 0
  <2>1. UNCHANGED <<objects, cells, next, attr, cache, storage, alive>> /\ failed' = "dc"
    BY <1>2 DEF CreateDc
  <2>2. attr' = Attrs /\ attr' \in 0..Attrs /\ attr <= attr'
    BY <1>1, <1>2, <2>1 DEF gdi_allocate_attr
  <2>3. Excused
    BY <2>1, <2>2 DEF Excused
  <2>4. next' \in Indices /\ alive' \subseteq Windows
    BY <1>1, <2>1 DEF GdiTypes
  <2>5. QED
    BY <2>1, <2>2, <2>3, <2>4, NothingFilled
<1>3. CASE gdi_allocate_attr # 0
  <2>1. gdi_allocate_attr = attr + 1 /\ attr < Attrs
    BY <1>1, <1>3 DEF gdi_allocate_attr
  <2>2. attr' = attr + 1 /\ gdi_allocate(o, attr + 1)
    BY <1>3, <2>1 DEF CreateDc
  <2>3. attr + 1 \in Nat /\ attr' \in 0..Attrs /\ attr <= attr'
    BY <1>1, <2>1, <2>2
  <2>4. CASE FirstFree = 0
    <3>1. FreeIndices = {} /\ next' \in Indices /\ UNCHANGED <<objects, cells>>
      BY <1>1, <2>2, <2>3, <2>4, Allocated
    <3>2. Excused
      BY <3>1 DEF Excused
    <3>3. alive' \subseteq Windows /\ UNCHANGED <<objects, cells, cache, storage>>
      BY <1>1, <2>4, <3>1 DEF GdiTypes
    <3>4. QED
      BY <2>3, <3>1, <3>2, <3>3, NothingFilled
  <2>5. CASE FirstFree # 0
    <3>1. Fills(FirstFree, o, attr + 1)
      BY <1>1, <2>2, <2>3, <2>5, Allocated
    <3>2. \A w \in 1..(W32K_DC_CACHE - 1) :
             cache'[w] = IF o.type = "dc" /\ w = o.hwnd THEN <<"dc", FirstFree>> ELSE cache[w]
      BY <1>3, <2>5
    <3>3. QED
      BY <2>2, <2>3, <3>1, <3>2, SlotFilled
  <2>6. QED
    BY <2>4, <2>5
<1>4. QED
  BY <1>2, <1>3

LEMMA KeepsCompatibleDC == ASSUME GdiAssumption, GdiInv, NtGdiCreateCompatibleDC PROVE GdiInv'
<1>1. CreateDc(Fresh("dc")) /\ UNCHANGED <<storage, cache, alive>>
  BY DEF NtGdiCreateCompatibleDC
<1>2. Fresh("dc") \in Object /\ Fresh("dc").type = "dc" /\ Fresh("dc").hwnd = 0
  BY FreshIs, KindsApart
<1>3. cache \in [0..(W32K_DC_CACHE - 1) -> Handles \cup {NoHandle}]
  BY DEF GdiInv, GdiTypes
<1>4. 0 \notin 1..(W32K_DC_CACHE - 1) /\ \A w \in 1..(W32K_DC_CACHE - 1) : w # 0
  BY DEF GdiAssumption
<1>5. QED
  BY <1>1, <1>2, <1>3, <1>4, DcCreated

LEMMA KeepsGetDC ==
    ASSUME GdiAssumption, GdiInv, NEW hwnd \in Windows \cup {0}, NtUserGetDC(hwnd),
           UNCHANGED gfx
    PROVE  GdiInv'
<1>1. CASE Cached(hwnd)
  <2>1. failed' = "none" /\ UNCHANGED <<objects, cells, next, attr, storage, cache, alive>>
    BY <1>1 DEF NtUserGetDC, W32kAcquireWindowDc
  <2>2. attr' \in 0..Attrs /\ attr <= attr' /\ next' \in Indices /\ alive' \subseteq Windows
    BY <2>1 DEF GdiInv, GdiTypes, GdiAssumption
  <2>3. Excused
    BY <2>1 DEF Excused
  <2>4. QED
    BY <2>1, <2>2, <2>3, NothingFilled
<1>2. CASE ~Cached(hwnd) /\ ~gfx
  <2>1. /\ failed' = "screen" /\ ~gfx'
        /\ UNCHANGED <<objects, cells, next, attr, storage, cache, alive>>
    BY <1>2 DEF NtUserGetDC, W32kAcquireWindowDc, W32kCreateWindowDc
  <2>2. attr' \in 0..Attrs /\ attr <= attr' /\ next' \in Indices /\ alive' \subseteq Windows
    BY <2>1 DEF GdiInv, GdiTypes, GdiAssumption
  <2>3. Excused
    BY <2>1 DEF Excused
  <2>4. QED
    BY <2>1, <2>2, <2>3, NothingFilled
<1>3. CASE ~Cached(hwnd) /\ gfx
  <2>1. /\ CreateDc(WindowDc(hwnd)) /\ UNCHANGED <<storage, alive>>
        /\ cache' = IF FirstFree = 0 \/ gdi_allocate_attr = 0 THEN cache
                    ELSE [cache EXCEPT ![SlotOf(hwnd)] = <<"dc", FirstFree>>]
    BY <1>3 DEF NtUserGetDC, W32kAcquireWindowDc, W32kCreateWindowDc
  <2>2. hwnd \in Nat /\ W32K_DC_CACHE \in Nat \ {0}
    BY DEF GdiAssumption
  <2>3. PICK o : o = WindowDc(hwnd)
    OBVIOUS
  <2>4. o \in Object /\ o.type = "dc" /\ o.hwnd = hwnd
    <3>1. PICK f : f = Fresh("dc")
      OBVIOUS
    <3>2. f \in Object /\ f.type = "dc"
      BY <3>1, FreshIs, KindsApart
    <3>3. o = [f EXCEPT !.screen = TRUE, !.hwnd = hwnd]
      BY <2>3, <3>1 DEF WindowDc
    <3>4. QED
      BY <2>2, <3>2, <3>3 DEF Object
  <2>5. SlotOf(hwnd) \in 0..(W32K_DC_CACHE - 1) /\ (SlotOf(hwnd) # 0 => SlotOf(hwnd) = hwnd)
        /\ (hwnd \in 1..(W32K_DC_CACHE - 1) => SlotOf(hwnd) = hwnd)
    BY <2>2 DEF SlotOf
  <2>6. FirstFree # 0 => <<"dc", FirstFree>> \in Handles
    BY FirstFreeIs, KindsApart DEF GdiInv, Handles
  <2>7. cache' \in [0..(W32K_DC_CACHE - 1) -> Handles \cup {NoHandle}]
    BY <2>1, <2>5, <2>6 DEF GdiInv, GdiTypes
  <2>8. ~(FirstFree = 0 \/ gdi_allocate_attr = 0) => \A w \in 1..(W32K_DC_CACHE - 1) :
           cache'[w] = IF w = o.hwnd THEN <<"dc", FirstFree>> ELSE cache[w]
    <3>1. \A w \in 1..(W32K_DC_CACHE - 1) : w \in 0..(W32K_DC_CACHE - 1) /\ w # 0
      BY <2>2
    <3>2. cache \in [0..(W32K_DC_CACHE - 1) -> Handles \cup {NoHandle}]
      BY DEF GdiInv, GdiTypes
    <3>3. QED
      BY <2>1, <2>4, <2>5, <3>1, <3>2
  <2>9. o.hwnd \in 1..(W32K_DC_CACHE - 1) =>
           \A j \in Indices : objects[j].type = "dc" => objects[j].hwnd # o.hwnd
    <3>1. ASSUME hwnd \in 1..(W32K_DC_CACHE - 1), NEW j \in Indices, objects[j].type = "dc",
                 objects[j].hwnd = hwnd
          PROVE  FALSE
      <4>1. cache[hwnd] = <<"dc", j>>
        BY <3>1 DEF GdiInv, CacheKnows
      <4>2. cache[SlotOf(hwnd)] = <<"dc", j>>
        BY <2>5, <3>1, <4>1
      <4>3. Cached(hwnd)
        BY <3>1, <4>2 DEF Cached, Is
      <4>4. QED
        BY <1>3, <4>3
    <3>2. QED
      BY <2>4, <3>1
  <2>10. QED
    BY <2>1, <2>3, <2>4, <2>7, <2>8, <2>9, DcCreated
<1>4. QED
  BY <1>1, <1>2, <1>3

LEMMA KeepsDestroy ==
    ASSUME GdiAssumption, GdiInv, NEW hwnd, NtUserDestroyWindow(hwnd)
    PROVE  GdiInv'
<1>1. /\ failed' = "none" /\ UNCHANGED <<objects, cells, next, attr, storage, cache>>
      /\ alive' = alive \ {hwnd}
  BY DEF NtUserDestroyWindow
<1>2. attr' \in 0..Attrs /\ attr <= attr' /\ next' \in Indices
  BY <1>1 DEF GdiInv, GdiTypes, GdiAssumption
<1>3. alive' \subseteq Windows
  BY <1>1 DEF GdiInv, GdiTypes
<1>4. Excused
  BY <1>1 DEF Excused
<1>5. QED
  BY <1>1, <1>2, <1>3, <1>4, NothingFilled

\* A service that allocates an object that is no context.
LEMMA OtherCreated ==
    ASSUME GdiAssumption, GdiInv, NEW o \in Object, o.type \notin {"dc", "free"}, gdi_allocate(o, 0),
           UNCHANGED <<attr, cache, alive>>,
           o.type = "bitmap" => o.block \in Blocks \ storage,
           storage' = IF FirstFree # 0 /\ o.type = "bitmap" THEN storage \cup {o.block} ELSE storage
    PROVE  GdiInv'
<1>1. GdiTypes /\ attr' \in 0..Attrs /\ attr <= attr' /\ alive' \subseteq Windows
      /\ cache' \in [0..(W32K_DC_CACHE - 1) -> Handles \cup {NoHandle}]
  BY DEF GdiInv, GdiTypes, GdiAssumption
<1>2. CASE FirstFree = 0
  <2>1. FreeIndices = {} /\ next' \in Indices /\ UNCHANGED <<objects, cells>>
    BY <1>1, <1>2, Allocated
  <2>2. Excused
    BY <2>1 DEF Excused
  <2>3. UNCHANGED <<objects, cells, cache, storage>>
    BY <1>2, <2>1
  <2>4. QED
    BY <1>1, <2>1, <2>2, <2>3, NothingFilled
<1>3. CASE FirstFree # 0
  <2>1. Fills(FirstFree, o, 0)
    BY <1>1, <1>3, Allocated
  <2>2. QED
    BY <1>1, <1>3, <2>1, SlotFilled
<1>4. QED
  BY <1>2, <1>3

LEMMA KeepsBrush ==
    ASSUME GdiAssumption, GdiInv, NEW color \in Colors, NtGdiCreateSolidBrush(color)
    PROVE  GdiInv'
<1>1. PICK f, o : f = Fresh("brush") /\ o = [f EXCEPT !.color = color]
  OBVIOUS
<1>2. f \in Object /\ f.type = "brush"
  BY <1>1, FreshIs, KindsApart
<1>3. o \in Object /\ o.type = "brush"
  BY <1>1, <1>2 DEF Object
<1>4. gdi_allocate(o, 0) /\ UNCHANGED <<attr, storage, cache, alive>>
  BY <1>1 DEF NtGdiCreateSolidBrush
<1>5. QED
  BY <1>3, <1>4, OtherCreated

LEMMA KeepsKind ==
    ASSUME GdiAssumption, GdiInv, NEW kind \in Kinds, CreateKind(kind)
    PROVE  GdiInv'
<1>1. Fresh(kind) \in Object /\ Fresh(kind).type = kind /\ kind \notin {"dc", "bitmap", "free"}
  BY FreshIs, KindsApart
<1>2. gdi_allocate(Fresh(kind), 0) /\ UNCHANGED <<attr, storage, cache, alive>>
  BY DEF CreateKind
<1>3. QED
  BY <1>1, <1>2, OtherCreated

LEMMA KeepsBitmap ==
    ASSUME GdiAssumption, GdiInv, NEW b \in Blocks, gdi_create_bitmap(b)
    PROVE  GdiInv'
<1>1. PICK f, o : f = Fresh("bitmap") /\ o = [f EXCEPT !.block = b]
  OBVIOUS
<1>2. f \in Object /\ f.type = "bitmap"
  BY <1>1, FreshIs, KindsApart
<1>3. o \in Object /\ o.type = "bitmap" /\ o.block = b
  BY <1>1, <1>2 DEF Object
<1>4. /\ gdi_allocate(o, 0) /\ UNCHANGED <<attr, cache, alive>> /\ b \in Blocks \ storage
      /\ storage' = IF FirstFree = 0 THEN storage ELSE storage \cup {b}
  BY <1>1 DEF gdi_create_bitmap
<1>5. QED
  BY <1>3, <1>4, OtherCreated

LEMMA KeepsDelete ==
    ASSUME GdiAssumption, GdiInv, NEW handle \in Handles, NtGdiDeleteObjectApp(handle)
    PROVE  GdiInv'
<1>1. PICK i : i = handle[2]
  OBVIOUS
<1>2. i \in Indices /\ objects[i].type # "free"
  BY <1>1 DEF NtGdiDeleteObjectApp, Handles
<1>3. /\ objects' = [objects EXCEPT ![i] = Fresh("free")] /\ cells' = [cells EXCEPT ![i] = NoCell]
      /\ storage' = IF objects[i].type = "bitmap" THEN storage \ {objects[i].block} ELSE storage
      /\ failed' = "none" /\ UNCHANGED <<next, attr, cache, alive>>
  BY <1>1 DEF NtGdiDeleteObjectApp, gdi_free
<1>4. objects \in [Indices -> Object] /\ cells \in [Indices -> Cell]
  BY DEF GdiInv, GdiTypes
<1>5. NoCell \in Cell /\ NoCell.type = "free" /\ NoCell.user = 0
  BY DEF NoCell, Cell
<1>6. Fresh("free") \in Object /\ Fresh("free").type = "free"
  BY FreshIs
<1>7. /\ objects' \in [Indices -> Object] /\ cells' \in [Indices -> Cell]
      /\ objects'[i].type = "free" /\ cells'[i].type = "free" /\ cells'[i].user = 0
      /\ \A j \in Indices : j # i => objects'[j] = objects[j] /\ cells'[j] = cells[j]
  BY <1>2, <1>3, <1>4, <1>5, <1>6
<1>8. GdiTypes'
  <2>1. \A j \in Indices : objects'[j].type = cells'[j].type
    BY <1>7 DEF GdiInv, GdiTypes
  <2>2. storage' \subseteq Blocks
    BY <1>3 DEF GdiInv, GdiTypes
  <2>3. QED
    BY <1>3, <1>7, <2>1, <2>2 DEF GdiInv, GdiTypes
<1>9. StorageOwned'
  <2>1. Live("bitmap")' = Live("bitmap") \ {i}
    BY <1>7 DEF Live
  <2>2. \A j \in Live("bitmap")' : objects'[j].block = objects[j].block
    BY <1>7, <2>1 DEF Live
  <2>3. storage' = {objects[j].block : j \in Live("bitmap") \ {i}}
    <3>1. (objects[i].type = "bitmap") <=> (i \in Live("bitmap"))
      BY <1>2 DEF Live
    <3>2. QED
      BY <1>3, <3>1 DEF GdiInv, StorageOwned
  <2>4. QED
    BY <2>1, <2>2, <2>3 DEF GdiInv, StorageOwned
<1>10. AttrsCounted' /\ CacheKnows' /\ FailsOnlyWhenFull'
  BY <1>3, <1>7 DEF GdiInv, AttrsCounted, CacheKnows, FailsOnlyWhenFull
<1>11. AttrPrivate'
  <2>1. Live("dc")' = Live("dc") \ {i}
    BY <1>7 DEF Live
  <2>2. QED
    BY <1>7, <2>1 DEF GdiInv, AttrPrivate, Live
<1>12. QED
  BY <1>8, <1>9, <1>10, <1>11 DEF GdiInv

\* Selection leaves the type of a context, its window and its block alone.
LEMMA Selected ==
    ASSUME GdiAssumption, GdiInv, NEW i \in Indices, NEW o \in Object,
           objects' = [objects EXCEPT ![i] = o], o.type = objects[i].type, o.hwnd = objects[i].hwnd,
           o.block = objects[i].block, failed' = "none",
           UNCHANGED <<cells, next, attr, storage, cache, alive>>
    PROVE  GdiInv'
<1>1. objects \in [Indices -> Object]
  BY DEF GdiInv, GdiTypes
<1>2. /\ objects' \in [Indices -> Object]
      /\ \A j \in Indices : /\ objects'[j].type = objects[j].type /\ objects'[j].hwnd = objects[j].hwnd
                             /\ objects'[j].block = objects[j].block
  BY <1>1
<1>3. GdiTypes'
  BY <1>2 DEF GdiInv, GdiTypes
<1>4. \A type : Live(type)' = Live(type)
  BY <1>2 DEF Live
<1>5. StorageOwned'
  <2>1. \A j \in Live("bitmap") : objects'[j].block = objects[j].block
    BY <1>2 DEF Live
  <2>2. QED
    BY <1>4, <2>1 DEF GdiInv, StorageOwned
<1>6. AttrsCounted' /\ AttrPrivate' /\ CacheKnows' /\ FailsOnlyWhenFull'
  BY <1>2, <1>4 DEF GdiInv, AttrsCounted, AttrPrivate, CacheKnows, FailsOnlyWhenFull
<1>7. QED
  BY <1>3, <1>5, <1>6 DEF GdiInv

LEMMA KeepsSelect ==
    ASSUME GdiAssumption, GdiInv, NEW i \in Indices, NEW j \in Indices,
           NtGdiSelectBitmap(<<"dc", i>>, <<"bitmap", j>>) \/ NtGdiSelectBrush(<<"dc", i>>, <<"brush", j>>)
    PROVE  GdiInv'
<1>0. objects \in [Indices -> Object] /\ objects[i] \in Object
  BY DEF GdiInv, GdiTypes
<1>1. <<"bitmap", j>> \in Handles /\ <<"brush", j>> \in Handles
  BY KindsApart DEF Handles
<1>2. CASE NtGdiSelectBitmap(<<"dc", i>>, <<"bitmap", j>>)
  <2>1. PICK o : o = [objects[i] EXCEPT !.bitmap = <<"bitmap", j>>, !.surface = j, !.screen = FALSE]
    OBVIOUS
  <2>2. o \in Object /\ o.type = objects[i].type /\ o.hwnd = objects[i].hwnd /\ o.block = objects[i].block
    BY <1>0, <1>1, <2>1 DEF Object
  <2>3. objects' = [objects EXCEPT ![i] = o] /\ failed' = "none" /\ UNCHANGED <<cells, next, attr, storage, cache, alive>>
    BY <1>0, <1>2, <2>1 DEF NtGdiSelectBitmap
  <2>4. QED
    BY <2>2, <2>3, Selected
<1>3. CASE NtGdiSelectBrush(<<"dc", i>>, <<"brush", j>>)
  <2>1. PICK o : o = [objects[i] EXCEPT !.brush = <<"brush", j>>]
    OBVIOUS
  <2>2. o \in Object /\ o.type = objects[i].type /\ o.hwnd = objects[i].hwnd /\ o.block = objects[i].block
    BY <1>0, <1>1, <2>1 DEF Object
  <2>3. objects' = [objects EXCEPT ![i] = o] /\ failed' = "none" /\ UNCHANGED <<cells, next, attr, storage, cache, alive>>
    BY <1>0, <1>3, <2>1 DEF NtGdiSelectBrush
  <2>4. QED
    BY <2>2, <2>3, Selected
<1>4. QED
  BY <1>2, <1>3

LEMMA GdiNext == ASSUME GdiAssumption, GdiInv, [Next]_vars PROVE GdiInv'
<1>1. CASE Next
  BY <1>1, KeepsCompatibleDC, KeepsGetDC, KeepsDestroy, KeepsBrush, KeepsKind, KeepsBitmap,
     KeepsDelete, KeepsSelect DEF Next
<1>2. CASE UNCHANGED vars
  <2>1. UNCHANGED <<objects, cells, next, attr, storage, cache, gfx, alive, failed>>
    BY <1>2 DEF vars
  <2>2. attr' \in 0..Attrs /\ attr <= attr' /\ next' \in Indices /\ alive' \subseteq Windows
    BY <2>1 DEF GdiInv, GdiTypes, GdiAssumption
  <2>3. Excused
    BY <2>1 DEF Excused, GdiInv, FailsOnlyWhenFull
  <2>4. QED
    BY <2>1, <2>2, <2>3, NothingFilled
<1>3. QED
  BY <1>1, <1>2

\* The storage of a bitmap belongs to one live object and is freed with it, every device
\* context has attributes of its own, a window in the cache has one context however
\* often it asks for it, and an allocation fails only when the table is full, for a context
\* also when its attribute blocks are used up or there is no framebuffer
\* (gdi_create_bitmap, gdi_free, W32kAcquireWindowDc).
THEOREM GdiObjectsAreOwned == ASSUME GdiAssumption PROVE Spec => []GdiOwned
<1>1. Init => GdiInv
  BY GdiInit
<1>2. GdiInv /\ [Next]_vars => GdiInv'
  BY GdiNext
<1>3. GdiInv => GdiOwned
  <2> SUFFICES ASSUME GdiInv PROVE GdiOwned
    OBVIOUS
  <2>1. TypeOK
    <3>1. \A i \in Indices : objects[i].type \in Types \cup {"free"}
      BY DEF GdiInv, GdiTypes, Object
    <3>2. QED
      BY <3>1 DEF GdiInv, GdiTypes, TypeOK
  <2>2. OneDcPerWindow
    <3>1. \A i, j \in Live("dc") : objects[i].hwnd = objects[j].hwnd
             /\ objects[i].hwnd \in 1..(W32K_DC_CACHE - 1) => <<"dc", i>> = <<"dc", j>>
      BY DEF GdiInv, CacheKnows, Live
    <3>2. QED
      BY <3>1 DEF OneDcPerWindow
  <2>3. QED
    BY <2>1, <2>2 DEF GdiInv, GdiOwned
<1>4. QED
  BY <1>1, <1>2, <1>3, PTL DEF Spec

-----------------------------------------------------------------------------
(* The handle table of the registry *)

Calling == [step : {"none", "query", "close"}, h : 0..MaxHandles, name : ValueNames \cup {""}]

\* The handle a RegGetValueW under way has opened.
Own(t) == regcall[t].h

\* Each place in use has one user: a caller that was given the handle, or one call.
RegInv ==
    /\ MaxHandles \in Nat
    /\ table = [h \in 1..MaxHandles |-> table[h]]
    /\ regcall \in [Threads -> Calling] /\ held \subseteq 1..MaxHandles
    /\ \A t \in Threads : regcall[t].step = "none" => Own(t) = 0
    /\ \A t \in Threads : Own(t) \notin held
    /\ \A t, u \in Threads : Own(t) = Own(u) /\ Own(t) # 0 => t = u
    /\ \A h \in 1..MaxHandles :
          table[h] # 0 <=> h \in held \/ \E t \in Threads : Own(t) = h

LEMMA FirstIn ==
    ASSUME NEW S \in SUBSET Nat, S # {}
    PROVE  Reg!First(S) \in S
<1>1. PICK x \in S : \A y \in S : <<y, x>> \notin OpToRel(<, Nat)
  BY NatLessThanWellFounded, WFMin
<1>2. ASSUME NEW y \in S PROVE ~(y < x)
  BY <1>1 DEF OpToRel
<1>3. \A y \in S : x <= y
  BY <1>2
<1>4. QED
  BY <1>3 DEF Reg!First

\* The place h is taken, or none when h is 0.
Takes(h) ==
    \/ h = 0 /\ table' = table
    \/ /\ h \in 1..MaxHandles /\ table[h] = 0
       /\ \E k : k # 0 /\ table' = [table EXCEPT ![h] = k]

LEMMA MakesHandle ==
    ASSUME RegInv, NEW k, k # 0, Reg!cm_make_handle(k)
    PROVE  Takes(result'.handle)
<1>1. CASE Reg!Free # {} /\ table' = [table EXCEPT ![Reg!First(Reg!Free)] = k]
           /\ result' = [Reg!NoResult EXCEPT !.status = "ok", !.handle = Reg!First(Reg!Free), !.key = k]
  <2>1. Reg!Free \in SUBSET Nat /\ Reg!Free \subseteq {h \in 1..MaxHandles : table[h] = 0}
    BY DEF Reg!Free, RegInv
  <2>2. Reg!First(Reg!Free) \in Reg!Free
    BY <1>1, <2>1, FirstIn
  <2>3. result'.handle = Reg!First(Reg!Free)
    BY <1>1 DEF Reg!NoResult
  <2>4. QED
    BY <1>1, <2>1, <2>2, <2>3 DEF Takes
<1>2. CASE table' = table /\ result' = [Reg!NoResult EXCEPT !.status = "ok", !.key = k]
  <2>1. result'.handle = 0
    BY <1>2 DEF Reg!NoResult
  <2>2. QED
    BY <1>2, <2>1 DEF Takes
<1>3. QED
  BY <1>1, <1>2 DEF Reg!cm_make_handle

LEMMA NoHandleMade ==
    ASSUME NEW status, Reg!Returns(status)
    PROVE  result'.handle = 0 /\ result'.status = status
  BY DEF Reg!Returns, Reg!NoResult

\* What table holds after a step that takes h.
LEMMA AfterTakes ==
    ASSUME RegInv, NEW h, Takes(h)
    PROVE  /\ table' = [g \in 1..MaxHandles |-> table'[g]]
           /\ \A g \in 1..MaxHandles : table'[g] # 0 <=> table[g] # 0 \/ g = h
           /\ h \in 0..MaxHandles /\ h \notin held
           /\ h # 0 => \A t \in Threads : Own(t) # h
<1>1. CASE h = 0 /\ table' = table
  <2>1. 0 \notin 1..MaxHandles /\ held \subseteq 1..MaxHandles
    BY DEF RegInv
  <2>2. 0 \in 0..MaxHandles
    BY DEF RegInv
  <2>3. QED
    BY <1>1, <2>1, <2>2 DEF RegInv
<1>2. CASE h \in 1..MaxHandles /\ table[h] = 0 /\ \E k : k # 0 /\ table' = [table EXCEPT ![h] = k]
  <2>1. PICK k : k # 0 /\ table' = [table EXCEPT ![h] = k]
    BY <1>2
  <2>2. \A g \in 1..MaxHandles : table'[g] = IF g = h THEN k ELSE table[g]
    BY <1>2, <2>1 DEF RegInv
  <2>3. table' = [g \in 1..MaxHandles |-> table'[g]]
    BY <1>2, <2>1 DEF RegInv
  <2>4. h \notin held /\ \A t \in Threads : Own(t) # h
    BY <1>2 DEF RegInv
  <2>5. h \in 0..MaxHandles
    BY <1>2
  <2>6. QED
    BY <2>1, <2>2, <2>3, <2>4, <2>5
<1>3. QED
  BY <1>1, <1>2 DEF Takes

\* A caller is given what the step has taken.
LEMMA GivenOut ==
    ASSUME RegInv, Takes(result'.handle), held' = held \cup ({result'.handle} \ {0}),
           UNCHANGED regcall
    PROVE  RegInv'
<1>1. PICK h : h = result'.handle
  OBVIOUS
<1>2. /\ table' = [g \in 1..MaxHandles |-> table'[g]]
      /\ \A g \in 1..MaxHandles : table'[g] # 0 <=> table[g] # 0 \/ g = h
      /\ h \in 0..MaxHandles /\ h \notin held
      /\ h # 0 => \A t \in Threads : Own(t) # h
  BY <1>1, AfterTakes
<1>3. held' = IF h = 0 THEN held ELSE held \cup {h}
  BY <1>1
<1>4. held' \subseteq 1..MaxHandles
  <2>1. h # 0 => h \in 1..MaxHandles
    BY <1>2
  <2>2. QED
    BY <1>3, <2>1 DEF RegInv
<1>5. \A t \in Threads : Own(t)' = Own(t) /\ regcall'[t] = regcall[t]
  BY DEF Own
<1>6. \A t \in Threads : Own(t) \notin held'
  BY <1>2, <1>3 DEF RegInv
<1>7. \A g \in 1..MaxHandles : g \in held' <=> g \in held \/ g = h
  BY <1>3
<1>8. \A g \in 1..MaxHandles : table'[g] # 0 <=> g \in held' \/ \E t \in Threads : Own(t) = g
  BY <1>2, <1>7 DEF RegInv
<1>9. regcall' \in [Threads -> Calling]
  BY DEF RegInv
<1>10. \A t \in Threads : regcall'[t].step = "none" => Own(t) = 0
  BY <1>5 DEF RegInv
<1>11. \A t, u \in Threads : Own(t) = Own(u) /\ Own(t) # 0 => t = u
  BY DEF RegInv
<1>12. QED
  BY <1>2, <1>4, <1>5, <1>6, <1>8, <1>9, <1>10, <1>11 DEF RegInv

\* Handles, table and calls stay as they are.
LEMMA RegStays ==
    ASSUME RegInv, UNCHANGED <<table, regcall, held>>
    PROVE  RegInv'
  BY DEF RegInv, Own

LEMMA OpensKey ==
    ASSUME RegInv, NEW t, NEW hkey, NEW path, Reg!NtOpenKey(t, hkey, path)
    PROVE  Takes(result'.handle) /\ (result'.status # "ok" => result'.handle = 0)
<1>1. CASE Reg!Returns("name not found") /\ UNCHANGED table
  BY <1>1, NoHandleMade DEF Takes
<1>2. ASSUME NEW k, k # 0, Reg!cm_make_handle(k)
      PROVE  Takes(result'.handle) /\ (result'.status # "ok" => result'.handle = 0)
  <2>1. result'.status = "ok"
    BY <1>2 DEF Reg!cm_make_handle, Reg!NoResult
  <2>2. QED
    BY <1>2, <2>1, MakesHandle
<1>3. QED
  BY <1>1, <1>2 DEF Reg!NtOpenKey

LEMMA RegGetOpen ==
    ASSUME RegInv, NEW t \in Threads, NEW hkey, NEW path, NEW name \in ValueNames,
           Reg!GetOpen(t, hkey, path, name)
    PROVE  RegInv'
<1>1. Takes(result'.handle) /\ (result'.status # "ok" => result'.handle = 0)
  BY OpensKey DEF Reg!GetOpen
<1>2. PICK h : h = result'.handle
  OBVIOUS
<1>3. /\ table' = [g \in 1..MaxHandles |-> table'[g]]
      /\ \A g \in 1..MaxHandles : table'[g] # 0 <=> table[g] # 0 \/ g = h
      /\ h \in 0..MaxHandles /\ h \notin held
      /\ h # 0 => \A u \in Threads : Own(u) # h
  BY <1>1, <1>2, AfterTakes
<1>4. PICK r : r = IF result'.status = "ok" THEN [step |-> "query", h |-> h, name |-> name]
                   ELSE Reg!NoCall
  OBVIOUS
<1>5. regcall[t] = Reg!NoCall /\ regcall' = [regcall EXCEPT ![t] = r] /\ held' = held
  BY <1>2, <1>4 DEF Reg!GetOpen
<1>6. Own(t) = 0
  <2>1. Reg!NoCall.h = 0
    BY DEF Reg!NoCall
  <2>2. QED
    BY <1>5, <2>1 DEF Own
<1>7. r \in Calling /\ r.h = h /\ (r.step = "none" => h = 0)
  <2>1. CASE result'.status = "ok"
    BY <1>3, <1>4, <2>1 DEF Calling
  <2>2. CASE result'.status # "ok"
    <3>1. h = 0 /\ r = Reg!NoCall
      BY <1>1, <1>2, <1>4, <2>2
    <3>2. QED
      BY <1>3, <3>1 DEF Calling, Reg!NoCall
  <2>3. QED
    BY <2>1, <2>2
<1>8. regcall' \in [Threads -> Calling] /\ \A u \in Threads : regcall'[u] = IF u = t THEN r ELSE regcall[u]
  BY <1>5, <1>7 DEF RegInv
<1>9. \A u \in Threads : Own(u)' = IF u = t THEN h ELSE Own(u)
  BY <1>7, <1>8 DEF Own
<1>10. \A u \in Threads : regcall'[u].step = "none" => Own(u)' = 0
  BY <1>7, <1>8, <1>9 DEF RegInv
<1>11. \A u \in Threads : Own(u)' \notin held
  BY <1>3, <1>9 DEF RegInv
<1>12. \A u, v \in Threads : Own(u)' = Own(v)' /\ Own(u)' # 0 => u = v
  BY <1>3, <1>9 DEF RegInv
<1>13. \A g \in 1..MaxHandles : table'[g] # 0 <=> g \in held \/ \E u \in Threads : Own(u)' = g
  <2> SUFFICES ASSUME NEW g \in 1..MaxHandles
               PROVE  table'[g] # 0 <=> g \in held \/ \E u \in Threads : Own(u)' = g
    OBVIOUS
  <2>1. table[g] # 0 <=> g \in held \/ \E u \in Threads : Own(u) = g
    BY DEF RegInv
  <2>2. g # 0
    OBVIOUS
  <2>3. (\E u \in Threads : Own(u)' = g) <=> g = h \/ \E u \in Threads : Own(u) = g
    BY <1>6, <1>9, <2>2
  <2>4. QED
    BY <1>3, <2>1, <2>3
<1>14. QED
  BY <1>3, <1>5, <1>8, <1>10, <1>11, <1>12, <1>13 DEF RegInv

LEMMA RegGetQuery ==
    ASSUME RegInv, NEW t \in Threads, Reg!GetQuery(t)
    PROVE  RegInv'
<1>1. PICK r : r = [regcall[t] EXCEPT !.step = "close", !.name = ""]
  OBVIOUS
<1>2. regcall[t] \in Calling
  BY DEF RegInv
<1>3. r \in Calling /\ r.h = Own(t) /\ r.step = "close"
  BY <1>1, <1>2 DEF Calling, Own
<1>4. regcall' = [regcall EXCEPT ![t] = r] /\ UNCHANGED <<table, held>>
  BY <1>1 DEF Reg!GetQuery
<1>5. regcall' \in [Threads -> Calling] /\ \A u \in Threads : regcall'[u] = IF u = t THEN r ELSE regcall[u]
  BY <1>3, <1>4 DEF RegInv
<1>6. \A u \in Threads : Own(u)' = Own(u) /\ (regcall'[u].step = "none" => regcall[u].step = "none")
  BY <1>3, <1>5 DEF Own
<1>7. QED
  BY <1>4, <1>5, <1>6 DEF RegInv

\* The place h is given up, if it is one.
LEMMA AfterClosed ==
    ASSUME RegInv, NEW h \in 0..MaxHandles, table' = Reg!Closed(h)
    PROVE  /\ table' = [g \in 1..MaxHandles |-> table'[g]]
           /\ \A g \in 1..MaxHandles : table'[g] # 0 <=> table[g] # 0 /\ g # h
<1>1. DOMAIN table = 1..MaxHandles /\ 0 \notin 1..MaxHandles
  BY DEF RegInv
<1>2. CASE h \in 1..MaxHandles
  <2>1. table' = [table EXCEPT ![h] = 0]
    BY <1>1, <1>2 DEF Reg!Closed
  <2>2. QED
    BY <1>1, <1>2, <2>1 DEF RegInv
<1>3. CASE h \notin 1..MaxHandles
  <2>1. table' = table
    BY <1>1, <1>3 DEF Reg!Closed
  <2>2. QED
    BY <1>3, <2>1 DEF RegInv
<1>4. QED
  BY <1>2, <1>3

LEMMA RegGetClose ==
    ASSUME RegInv, NEW t \in Threads, Reg!GetClose(t)
    PROVE  RegInv'
<1>1. PICK h : h = Own(t)
  OBVIOUS
<1>2. h \in 0..MaxHandles /\ table' = Reg!Closed(h) /\ regcall' = [regcall EXCEPT ![t] = Reg!NoCall]
      /\ held' = held
  BY <1>1 DEF Reg!GetClose, RegInv, Own, Calling
<1>3. /\ table' = [g \in 1..MaxHandles |-> table'[g]]
      /\ \A g \in 1..MaxHandles : table'[g] # 0 <=> table[g] # 0 /\ g # h
  BY <1>2, AfterClosed
<1>4. 0 \in 0..MaxHandles
  BY DEF RegInv
<1>5. Reg!NoCall \in Calling /\ Reg!NoCall.h = 0
  BY <1>4 DEF Reg!NoCall, Calling
<1>6. regcall' \in [Threads -> Calling]
      /\ \A u \in Threads : regcall'[u] = IF u = t THEN Reg!NoCall ELSE regcall[u]
  BY <1>2, <1>5 DEF RegInv
<1>7. \A u \in Threads : Own(u)' = IF u = t THEN 0 ELSE Own(u)
  BY <1>5, <1>6 DEF Own
<1>8. 0 \notin held
  BY DEF RegInv
<1>9. \A u \in Threads : regcall'[u].step = "none" => Own(u)' = 0
  BY <1>6, <1>7 DEF RegInv
<1>10. \A u \in Threads : Own(u)' \notin held
  BY <1>7, <1>8 DEF RegInv
<1>11. \A u, v \in Threads : Own(u)' = Own(v)' /\ Own(u)' # 0 => u = v
  BY <1>7 DEF RegInv
<1>12. \A g \in 1..MaxHandles : table'[g] # 0 <=> g \in held \/ \E u \in Threads : Own(u)' = g
  <2> SUFFICES ASSUME NEW g \in 1..MaxHandles
               PROVE  table'[g] # 0 <=> g \in held \/ \E u \in Threads : Own(u)' = g
    OBVIOUS
  <2>1. table[g] # 0 <=> g \in held \/ \E u \in Threads : Own(u) = g
    BY DEF RegInv
  <2>2. g # 0 /\ (g = h => g \notin held)
    BY <1>1 DEF RegInv
  <2>3. (\E u \in Threads : Own(u)' = g) <=> g # h /\ \E u \in Threads : Own(u) = g
    BY <1>1, <1>7, <2>2 DEF RegInv
  <2>4. QED
    BY <1>3, <2>1, <2>2, <2>3
<1>13. QED
  BY <1>2, <1>3, <1>6, <1>9, <1>10, <1>11, <1>12 DEF RegInv

LEMMA RegClose ==
    ASSUME RegInv, NEW t \in Threads, NEW h, Reg!RegCloseKey(t, h)
    PROVE  RegInv'
<1>1. h \in held /\ table' = Reg!Closed(h) /\ held' = held \ {h} /\ UNCHANGED regcall
  BY DEF Reg!RegCloseKey
<1>2. h \in 0..MaxHandles
  BY <1>1 DEF RegInv
<1>3. /\ table' = [g \in 1..MaxHandles |-> table'[g]]
      /\ \A g \in 1..MaxHandles : table'[g] # 0 <=> table[g] # 0 /\ g # h
  BY <1>1, <1>2, AfterClosed
<1>4. \A u \in Threads : Own(u)' = Own(u) /\ regcall'[u] = regcall[u] /\ Own(u) # h
  BY <1>1 DEF Own, RegInv
<1>5. \A g \in 1..MaxHandles : table'[g] # 0 <=> g \in held' \/ \E u \in Threads : Own(u) = g
  BY <1>1, <1>3, <1>4 DEF RegInv
<1>6. QED
  BY <1>1, <1>3, <1>4, <1>5 DEF RegInv

LEMMA RegNext == ASSUME RegInv, [Reg!Next]_(Reg!vars) PROVE RegInv'
<1>1. CASE UNCHANGED Reg!vars
  BY <1>1, RegStays DEF Reg!vars
<1>2. ASSUME NEW t \in Threads, NEW hkey, NEW path, Reg!NtCreateKey(t, hkey, path) PROVE RegInv'
  <2>1. held' = held \cup ({result'.handle} \ {0}) /\ UNCHANGED regcall
    BY <1>2 DEF Reg!NtCreateKey
  <2>2. \/ Reg!Returns("no memory") /\ UNCHANGED table
        \/ \E k : k # 0 /\ Reg!cm_make_handle(k)
    BY <1>2 DEF Reg!NtCreateKey
  <2>3. Takes(result'.handle)
    BY <2>2, MakesHandle, NoHandleMade DEF Takes
  <2>4. QED
    BY <2>1, <2>3, GivenOut
<1>3. ASSUME NEW t \in Threads, NEW hkey, NEW path, Reg!RegOpenKeyEx(t, hkey, path) PROVE RegInv'
  BY <1>3, OpensKey, GivenOut DEF Reg!RegOpenKeyEx
<1>4. ASSUME NEW t \in Threads,
             Reg!Refused(t) \/ \E h, name : \/ Reg!RegQueryValueEx(t, h, name)
                                            \/ \E data : Reg!NtSetValueKey(t, h, name, data)
      PROVE  RegInv'
  BY <1>4, RegStays DEF Reg!Refused, Reg!RegQueryValueEx, Reg!NtSetValueKey
<1>5. CASE Reg!Next
  BY <1>2, <1>3, <1>4, <1>5, RegGetOpen, RegGetQuery, RegGetClose, RegClose DEF Reg!Next
<1>6. QED
  BY <1>1, <1>5

\* The places of the registry's handle table are those of the handles that callers hold and
\* of the RegGetValueW calls under way, each its own: no call leaves a handle behind, however
\* the calls interleave and whichever allocation fails (cm_make_handle, RegGetValueW, NtClose).
THEOREM RegistryHandlesKept ==
    ASSUME Reg!RegistryAssumption
    PROVE  Reg!Spec => []Reg!HandlesAccounted
<1>1. Reg!Init => RegInv
  <2> SUFFICES ASSUME Reg!Init PROVE RegInv
    OBVIOUS
  <2>1. MaxHandles \in Nat
    BY DEF Reg!RegistryAssumption
  <2>2. /\ table = [h \in 1..MaxHandles |-> 0] /\ regcall = [t \in Threads |-> Reg!NoCall]
        /\ held = {}
    BY DEF Reg!Init
  <2>3. Reg!NoCall \in Calling /\ Reg!NoCall.h = 0 /\ 0 \notin 1..MaxHandles
    BY <2>1 DEF Reg!NoCall, Calling
  <2>4. \A t \in Threads : Own(t) = 0
    BY <2>2, <2>3 DEF Own
  <2>5. QED
    BY <2>1, <2>2, <2>3, <2>4 DEF RegInv
<1>2. RegInv /\ [Reg!Next]_(Reg!vars) => RegInv'
  BY RegNext
<1>3. RegInv => Reg!HandlesAccounted
  <2> SUFFICES ASSUME RegInv PROVE Reg!HandlesAccounted
    OBVIOUS
  <2>1. DOMAIN table = 1..MaxHandles /\ 0 \notin 1..MaxHandles
    BY DEF RegInv
  <2>2. \A t \in Threads : Own(t) \in 0..MaxHandles
    BY DEF RegInv, Own, Calling
  <2>3. \A t \in Threads : Own(t) # 0 => Own(t) \in 1..MaxHandles
    BY <2>2
  <2>4. {h \in DOMAIN table : table[h] # 0} = held \cup ({Own(t) : t \in Threads} \ {0})
    BY <2>1, <2>3 DEF RegInv
  <2>5. QED
    BY <2>4 DEF Reg!HandlesAccounted, Own
<1>4. QED
  BY <1>1, <1>2, <1>3, PTL DEF Reg!Spec

-----------------------------------------------------------------------------
(* Files, copies and mappings *)

OpenFile == [name : Io!Files, pos : Nat, owner : Threads \cup {"call", "std"}]
Seeking == [step : {"seek"}, h : Io!Handles, target : Int]
Mapping == [step : {"rewind", "fill", "claim"}, h : Io!Handles, slot : 1..MAPPINGS, size : Nat,
            left : Nat, data : Seq(Io!Files \X Nat)]
Copying == [step : {"target", "buffer", "read", "write", "free", "close"}, src : Io!Handles,
            left : Nat, dst : 0..MaxHandles, done : Nat, buffer : BOOLEAN, ok : BOOLEAN, put : Nat]
Storing == [step : {"stdstore"}, h : Io!Handles]
MappingMemory == [step : {"memory"}, slot : 1..MAPPINGS, size : Nat]
StdOpening == [step |-> "stdopen"]
Others == {Io!NoCall, StdOpening} \cup Seeking \cup Mapping \cup Storing \cup MappingMemory
StdValues == 0..MaxHandles \cup {Io!Invalid}

\* The handles a copy has opened.
Uses(r) == IF r \in Copying THEN {r.src, r.dst} \ {0} ELSE {}

FileTypes ==
    /\ file \in [Io!Handles -> OpenFile \cup {Io!Closed}]
    /\ filecall \in [Threads -> Others \cup Copying]
    /\ std \in StdValues

\* How far a copy is: it has the handles it needs, and while all went well what it has
\* written and what is left make up the file.
CopyOK(r) ==
    /\ file[r.src].owner = "call" /\ file[r.src].name \in Io!Disk
    /\ IF r.step = "target" THEN r.dst = 0
       ELSE r.dst \in Io!Handles /\ r.dst # r.src /\ file[r.dst].owner = "call"
    /\ r.step \in {"target", "buffer"} => r.ok
    /\ r.ok => r.put + r.left = SizeOf[file[r.src].name]
    /\ r.step = "write" => r.ok /\ r.done \in 1..r.left
    /\ r.step \in {"free", "close"} /\ r.ok => r.left = 0

\* A call on a handle of the caller's own finds it open.
OwnOK(t, r) == r \in Seeking \cup Mapping => file[r.h].owner = t

FileInv ==
    /\ FileTypes
    /\ \A t \in Threads : OwnOK(t, filecall[t])
    /\ \A t \in Threads : filecall[t] \in Copying => CopyOK(filecall[t])
    /\ \A t, u \in Threads : \A h \in Uses(filecall[t]) : h \in Uses(filecall[u]) => t = u
    /\ \A h \in Io!Handles : file[h].owner = "call" => \E t \in Threads : h \in Uses(filecall[t])

\* A call is of one kind, which its step tells.
LEMMA CallKinds ==
    ASSUME NEW r \in Others \cup Copying
    PROVE  /\ "src" \in DOMAIN r <=> r \in Copying
           /\ r.step \in {"target", "buffer", "read", "write", "free", "close"} <=> r \in Copying
           /\ r.step = "seek" <=> r \in Seeking
           /\ r.step \in {"rewind", "fill", "claim"} <=> r \in Mapping
           /\ r.step = "stdstore" <=> r \in Storing
           /\ r.step = "memory" <=> r \in MappingMemory
           /\ Io!NoCall \notin Copying \cup Seeking \cup Mapping \cup Storing
           /\ StdOpening \notin Copying \cup Seeking \cup Mapping \cup Storing
<1>1. CASE r \in Copying
  BY <1>1 DEF Copying, Seeking, Mapping, MappingMemory, Storing, Io!NoCall, StdOpening
<1>2. CASE r \in Seeking
  BY <1>2 DEF Copying, Seeking, Mapping, MappingMemory, Storing, Io!NoCall, StdOpening
<1>3. CASE r \in Mapping
  BY <1>3 DEF Copying, Seeking, Mapping, MappingMemory, Storing, Io!NoCall, StdOpening
<1>4. CASE r \in Storing
  BY <1>4 DEF Copying, Seeking, Mapping, MappingMemory, Storing, Io!NoCall, StdOpening
<1>5. CASE r \in {Io!NoCall, StdOpening}
  BY <1>5 DEF Copying, Seeking, Mapping, MappingMemory, Storing, Io!NoCall, StdOpening
<1>6. CASE r \in MappingMemory
  BY <1>6 DEF Copying, Seeking, Mapping, MappingMemory, Storing, Io!NoCall, StdOpening
<1>7. QED
  BY <1>1, <1>2, <1>3, <1>4, <1>5, <1>6 DEF Others

LEMMA OwnersApart ==
    ASSUME Io!FileAssumption
    PROVE  /\ MaxHandles \in Nat /\ Io!Handles = 1..MaxHandles /\ Io!Handles \subseteq Nat /\ 0 \notin Io!Handles
           /\ Io!Closed.owner = "none" /\ Io!Closed \notin OpenFile
           /\ "call" \notin Threads /\ "none" \notin Threads /\ "std" \notin Threads
           /\ \A r \in OpenFile : r.owner # "none"
<1>1. MaxHandles \in Nat /\ "call" \notin Threads /\ "none" \notin Threads /\ "std" \notin Threads
  BY DEF Io!FileAssumption
<1>2. Io!Closed.owner = "none"
  BY DEF Io!Closed
<1>3. \A r \in OpenFile : r.owner # "none"
  BY <1>1 DEF OpenFile
<1>4. QED
  BY <1>1, <1>2, <1>3 DEF Io!Handles

\* Min picks a member.
LEMMA LeastIn ==
    ASSUME NEW S \in SUBSET Nat, S # {}
    PROVE  Io!Min(S) \in S
<1>1. PICK x \in S : \A y \in S : <<y, x>> \notin OpToRel(<, Nat)
  BY NatLessThanWellFounded, WFMin
<1>2. ASSUME NEW y \in S PROVE x <= y
  <2>1. ~(y < x)
    BY <1>1 DEF OpToRel
  <2>2. x \in Nat /\ y \in Nat
    OBVIOUS
  <2>3. QED
    BY <2>1, <2>2
<1>3. QED
  BY <1>2 DEF Io!Min

\* NtCreateFile gives out a place of the table that is free.
LEMMA LeastHandle ==
    ASSUME Io!FileAssumption, Io!FreeHandles # {}
    PROVE  Io!Min(Io!FreeHandles) \in Io!Handles /\ file[Io!Min(Io!FreeHandles)] = Io!Closed
<1>1. Io!FreeHandles \in SUBSET Nat
  BY OwnersApart DEF Io!FreeHandles
<1>2. Io!Min(Io!FreeHandles) \in Io!FreeHandles
  BY <1>1, LeastIn
<1>3. QED
  BY <1>2 DEF Io!FreeHandles

LEMMA LesserOf ==
    ASSUME NEW a \in Nat, NEW b \in Nat
    PROVE  /\ Io!Min({a, b}) \in Nat /\ Io!Min({a, b}) <= a /\ Io!Min({a, b}) <= b
           /\ Io!Min({a, b}) \in {a, b}
<1>1. \E x \in {a, b} : \A y \in {a, b} : x <= y
  <2>1. CASE a <= b
    BY <2>1
  <2>2. CASE ~(a <= b)
    BY <2>2
  <2>3. QED
    BY <2>1, <2>2
<1>2. PICK m : m = Io!Min({a, b})
  OBVIOUS
<1>3. m \in {a, b} /\ \A y \in {a, b} : m <= y
  BY <1>1, <1>2 DEF Io!Min
<1>4. QED
  BY <1>2, <1>3

\* A read returns no more than was asked for.
LEMMA ReadsAtMost ==
    ASSUME Io!FileAssumption, FileTypes, NEW h \in Io!Handles, file[h] \in OpenFile, NEW len \in Nat
    PROVE  Io!NtReadFile(h, len) \in Nat /\ Io!NtReadFile(h, len) <= len
<1>1. file[h].pos \in Nat
  BY DEF OpenFile
<1>2. CASE file[h].name \in Io!Disk /\ file[h].pos < Io!FileSize(h)
  <2>1. Io!FileSize(h) \in Nat
    BY <1>2 DEF Io!FileSize, Io!Disk, Io!FileAssumption
  <2>2. Io!FileSize(h) - file[h].pos \in Nat
    BY <1>1, <1>2, <2>1
  <2>3. QED
    BY <1>2, <2>2, LesserOf DEF Io!NtReadFile
<1>3. CASE ~(file[h].name \in Io!Disk /\ file[h].pos < Io!FileSize(h))
  <2>1. Io!NtReadFile(h, len) = 0
    BY <1>3 DEF Io!NtReadFile
  <2>2. QED
    BY <2>1
<1>4. QED
  BY <1>2, <1>3

-----------------------------------------------------------------------------
\* A step of t leaves who has which file.
SameOwners ==
    /\ file' \in [Io!Handles -> OpenFile \cup {Io!Closed}]
    /\ \A h \in Io!Handles : file'[h].owner = file[h].owner /\ file'[h].name = file[h].name

LEMMA OwnersStay == ASSUME FileTypes, file' = file PROVE SameOwners
  BY DEF FileTypes, SameOwners

\* The position of an open file moves.
LEMMA PositionMoves ==
    ASSUME FileTypes, NEW h \in Io!Handles, file[h] \in OpenFile, NEW p \in Nat,
           file' = [file EXCEPT ![h].pos = p]
    PROVE  SameOwners
<1>1. PICK r : r = [file[h] EXCEPT !.pos = p]
  OBVIOUS
<1>2. r \in OpenFile /\ r.owner = file[h].owner /\ r.name = file[h].name
  BY <1>1 DEF OpenFile
<1>3. file' = [file EXCEPT ![h] = r]
  BY <1>1
<1>4. \A g \in Io!Handles : file'[g] = IF g = h THEN r ELSE file[g]
  BY <1>3 DEF FileTypes
<1>5. file' \in [Io!Handles -> OpenFile \cup {Io!Closed}]
  BY <1>2, <1>3 DEF FileTypes
<1>6. QED
  BY <1>2, <1>4, <1>5 DEF SameOwners

LEMMA Advances ==
    ASSUME FileTypes, NEW h \in Io!Handles, file[h] \in OpenFile, NEW n \in Nat,
           file' = Io!Advance(h, n)
    PROVE  SameOwners
<1>1. file[h].pos + n \in Nat
  BY DEF OpenFile
<1>2. file' = [file EXCEPT ![h].pos = file[h].pos + n]
  BY DEF Io!Advance
<1>3. QED
  BY <1>1, <1>2, PositionMoves

\* What CopyOK and OwnOK say does not depend on positions.
LEMMA KeptByOwners ==
    ASSUME SameOwners, NEW r \in Others \cup Copying, NEW t \in Threads
    PROVE  /\ OwnOK(t, r) => OwnOK(t, r)'
           /\ r \in Copying /\ CopyOK(r) => CopyOK(r)'
<1>1. ASSUME OwnOK(t, r) PROVE OwnOK(t, r)'
  <2>1. r \in Seeking \cup Mapping => r.h \in Io!Handles
    BY DEF Seeking, Mapping
  <2>2. QED
    BY <1>1, <2>1 DEF OwnOK, SameOwners
<1>2. ASSUME r \in Copying, CopyOK(r) PROVE CopyOK(r)'
  <2>1. r.src \in Io!Handles
    BY <1>2 DEF Copying
  <2>2. file'[r.src].owner = file[r.src].owner /\ file'[r.src].name = file[r.src].name
    BY <2>1 DEF SameOwners
  <2>3. r.dst \in Io!Handles => file'[r.dst].owner = file[r.dst].owner
    BY DEF SameOwners
  <2>4. QED
    BY <1>2, <2>2, <2>3 DEF CopyOK
<1>3. QED
  BY <1>1, <1>2

\* The call of t becomes r, and the files change hands nowhere.
LEMMA CallGoesOn ==
    ASSUME FileInv, SameOwners, NEW t \in Threads, NEW r \in Others \cup Copying,
           filecall' = [filecall EXCEPT ![t] = r], std' \in StdValues,
           Uses(r) = Uses(filecall[t]), OwnOK(t, r)', r \in Copying => CopyOK(r)'
    PROVE  FileInv'
<1>1. \A u \in Threads : filecall'[u] = IF u = t THEN r ELSE filecall[u]
  BY DEF FileInv, FileTypes
<1>2. FileTypes'
  BY DEF FileInv, FileTypes, SameOwners
<1>3. ASSUME NEW u \in Threads
      PROVE  /\ OwnOK(u, filecall[u])' /\ (filecall[u] \in Copying => CopyOK(filecall[u]))'
             /\ Uses(filecall[u])' = Uses(filecall[u])
  <2>1. CASE u = t
    <3>1. filecall'[u] = r
      BY <1>1, <2>1
    <3>2. QED
      BY <2>1, <3>1 DEF OwnOK, CopyOK, Uses
  <2>2. CASE u # t
    <3>1. filecall'[u] = filecall[u] /\ filecall[u] \in Others \cup Copying
      BY <1>1, <2>2 DEF FileInv, FileTypes
    <3>2. PICK s : s = filecall[u]
      OBVIOUS
    <3>3. OwnOK(u, s) /\ (s \in Copying => CopyOK(s))
      BY <3>2 DEF FileInv
    <3>4. OwnOK(u, s)' /\ (s \in Copying => CopyOK(s)')
      BY <3>1, <3>2, <3>3, KeptByOwners
    <3>5. QED
      BY <3>1, <3>2, <3>4 DEF OwnOK, CopyOK, Uses
  <2>3. QED
    BY <2>1, <2>2
<1>4. \A u, v \in Threads : \A h \in Uses(filecall[u])' : h \in Uses(filecall[v])' => u = v
  BY <1>3 DEF FileInv
<1>5. \A h \in Io!Handles : file'[h].owner = "call" => \E u \in Threads : h \in Uses(filecall[u])'
  BY <1>3 DEF FileInv, SameOwners
<1>6. QED
  BY <1>2, <1>3, <1>4, <1>5 DEF FileInv

\* A call that is no copy uses none of the handles copies open.
LEMMA OthersUseNone ==
    ASSUME NEW r \in Others
    PROVE  r \notin Copying /\ Uses(r) = {}
<1>1. r.step \notin {"target", "buffer", "read", "write", "free", "close"}
  BY DEF Others, Io!NoCall, StdOpening, Seeking, Mapping, MappingMemory, Storing
<1>2. r \notin Copying
  BY <1>1, CallKinds
<1>3. QED
  BY <1>2 DEF Uses

LEMMA OtherGoesOn ==
    ASSUME FileInv, SameOwners, NEW t \in Threads, NEW r \in Others, filecall[t] \in Others,
           filecall' = [filecall EXCEPT ![t] = r], std' \in StdValues, OwnOK(t, r)'
    PROVE  FileInv'
<1>1. r \notin Copying /\ Uses(r) = Uses(filecall[t])
  BY OthersUseNone
<1>2. QED
  BY <1>1, CallGoesOn

\* Steps at the handles in H, which no other call uses.
NotOthers(t, H) ==
    \A u \in Threads \ {t} : /\ \A h \in H : h \notin Uses(filecall[u])
                             /\ filecall[u] \in Seeking \cup Mapping => filecall[u].h \notin H

LEMMA CallMoves ==
    ASSUME FileInv, NEW t \in Threads, NEW r \in Others \cup Copying, NEW H,
           file' \in [Io!Handles -> OpenFile \cup {Io!Closed}],
           filecall' = [filecall EXCEPT ![t] = r], std' \in StdValues,
           OwnOK(t, r)', r \in Copying => CopyOK(r)',
           \A g \in Io!Handles \ H : file'[g] = file[g], NotOthers(t, H),
           Uses(r) \subseteq Uses(filecall[t]) \cup H,
           \A h \in Io!Handles : file'[h].owner = "call" =>
               h \in Uses(r) \/ \E u \in Threads \ {t} : h \in Uses(filecall[u])
    PROVE  FileInv'
<1>1. \A u \in Threads : filecall'[u] = IF u = t THEN r ELSE filecall[u]
  BY DEF FileInv, FileTypes
<1>2. FileTypes'
  BY DEF FileInv, FileTypes
<1>3. ASSUME NEW u \in Threads \ {t}
      PROVE  /\ OwnOK(u, filecall[u])' /\ (filecall[u] \in Copying => CopyOK(filecall[u]))'
             /\ Uses(filecall[u])' = Uses(filecall[u])
  <2>1. filecall'[u] = filecall[u]
    BY <1>1
  <2>2. PICK s : s = filecall[u]
    OBVIOUS
  <2>3. OwnOK(u, s) /\ (s \in Copying => CopyOK(s))
    BY <2>2 DEF FileInv
  <2>4. OwnOK(u, s)'
    <3>1. s \in Seeking \cup Mapping => s.h \in Io!Handles
      BY DEF Seeking, Mapping
    <3>2. s \in Seeking \cup Mapping => s.h \in Io!Handles \ H
      BY <2>2, <3>1 DEF NotOthers
    <3>3. QED
      BY <2>3, <3>2 DEF OwnOK
  <2>5. ASSUME s \in Copying PROVE CopyOK(s)'
    <3>1. s.src \in Io!Handles /\ s.src # 0 /\ s.src \in Uses(s)
      BY <2>5 DEF Copying, Uses, Io!Handles
    <3>2. s.dst \in Io!Handles => s.dst \in Uses(s)
      BY <2>5 DEF Uses, Io!Handles
    <3>3. file'[s.src] = file[s.src] /\ (s.dst \in Io!Handles => file'[s.dst] = file[s.dst])
      BY <2>2, <3>1, <3>2 DEF NotOthers
    <3>4. QED
      BY <2>3, <2>5, <3>3 DEF CopyOK
  <2>6. QED
    BY <2>1, <2>2, <2>4, <2>5 DEF OwnOK, CopyOK, Uses
<1>4. OwnOK(t, filecall[t])' /\ (filecall[t] \in Copying => CopyOK(filecall[t]))' /\ Uses(filecall[t])' = Uses(r)
  <2>1. filecall'[t] = r
    BY <1>1
  <2>2. QED
    BY <2>1 DEF OwnOK, CopyOK, Uses
<1>5. \A u \in Threads \ {t} : \A h \in Uses(r) : h \notin Uses(filecall[u])
  BY DEF FileInv, NotOthers
<1>6. \A u, v \in Threads : \A h \in Uses(filecall[u])' : h \in Uses(filecall[v])' => u = v
  BY <1>3, <1>4, <1>5 DEF FileInv
<1>7. \A h \in Io!Handles : file'[h].owner = "call" => \E u \in Threads : h \in Uses(filecall[u])'
  BY <1>3, <1>4
<1>8. QED
  BY <1>2, <1>3, <1>4, <1>6, <1>7 DEF FileInv

-----------------------------------------------------------------------------
LEMMA OpenIsTyped ==
    ASSUME Io!FileAssumption, FileTypes, NEW h \in Io!Handles,
           file[h].owner \in Threads \cup {"call", "std"}
    PROVE  file[h] \in OpenFile
  BY OwnersApart DEF FileTypes

\* Whom the handles of calls belong to.
LEMMA UsesAreOpen ==
    ASSUME FileInv, NEW u \in Threads
    PROVE  /\ \A h \in Uses(filecall[u]) : h \in Io!Handles /\ file[h].owner = "call"
           /\ filecall[u] \in Seeking \cup Mapping => file[filecall[u].h].owner = u
<1>1. ASSUME filecall[u] \in Copying, NEW h \in Uses(filecall[u])
      PROVE  h \in Io!Handles /\ file[h].owner = "call"
  <2>1. PICK r : r = filecall[u]
    OBVIOUS
  <2>2. r.src \in Io!Handles /\ CopyOK(r) /\ h \in {r.src, r.dst} \ {0}
    BY <1>1, <2>1 DEF Copying, Uses, FileInv
  <2>3. QED
    BY <2>2 DEF CopyOK
<1>2. QED
  BY <1>1 DEF Uses, FileInv, OwnOK

LEMMA NobodysHandle ==
    ASSUME Io!FileAssumption, FileInv, NEW t \in Threads, NEW h, file[h].owner \in {"none", t}
    PROVE  NotOthers(t, {h}) /\ h \notin Uses(filecall[t])
<1>1. ASSUME NEW u \in Threads PROVE h \notin Uses(filecall[u])
  <2>1. file[h].owner # "call"
    BY OwnersApart
  <2>2. QED
    BY <2>1, UsesAreOpen
<1>2. ASSUME NEW u \in Threads \ {t}, filecall[u] \in Seeking \cup Mapping PROVE filecall[u].h # h
  BY <1>2, UsesAreOpen, OwnersApart
<1>3. QED
  BY <1>1, <1>2 DEF NotOthers

\* A file is opened: what the table holds then.
LEMMA OpensFile ==
    ASSUME Io!FileAssumption, FileTypes, NEW h \in Io!Handles, NEW f \in Io!Files,
           NEW owner \in Threads \cup {"call", "std"}, file' = Io!Opened(f, owner, h)
    PROVE  /\ file' \in [Io!Handles -> OpenFile \cup {Io!Closed}]
           /\ \A g \in Io!Handles \ {h} : file'[g] = file[g]
           /\ file'[h].owner = owner /\ file'[h].name = f
<1>1. PICK r : r = [name |-> f, pos |-> 0, owner |-> owner]
  OBVIOUS
<1>2. r \in OpenFile /\ r.owner = owner /\ r.name = f
  BY <1>1 DEF OpenFile
<1>3. file' = [file EXCEPT ![h] = r]
  BY <1>1 DEF Io!Opened
<1>4. QED
  BY <1>2, <1>3 DEF FileTypes

LEMMA IdleCall ==
    ASSUME FileInv, NEW t \in Threads, Io!Idle(t)
    PROVE  /\ filecall[t] = Io!NoCall /\ filecall[t] \in Others /\ Uses(filecall[t]) = {}
           /\ filecall[t] \notin Copying /\ OwnOK(t, Io!NoCall)'
           /\ filecall' = filecall => filecall' = [filecall EXCEPT ![t] = Io!NoCall]
<1>1. filecall[t] = Io!NoCall /\ Io!NoCall \in Others
  BY DEF Io!Idle, Others
<1>2. OwnOK(t, Io!NoCall)'
  BY <1>1, CallKinds DEF OwnOK
<1>3. QED
  BY <1>1, <1>2, OthersUseNone DEF FileInv, FileTypes

LEMMA NoCallIs == \A t \in Threads : Io!NoCall \in Others /\ Uses(Io!NoCall) = {} /\ OwnOK(t, Io!NoCall)'
                                     /\ Io!NoCall \notin Copying
<1>1. Io!NoCall \in Others
  BY DEF Others
<1>2. QED
  BY <1>1, OthersUseNone, CallKinds DEF OwnOK

LEMMA FileOpened ==
    ASSUME Io!FileAssumption, FileInv, NEW t \in Threads, NEW f \in Io!Files, Io!CreateFile(t, f)
    PROVE  FileInv'
<1> std' \in StdValues /\ filecall' = filecall /\ Io!Idle(t) /\ FileTypes
  BY DEF Io!CreateFile, FileInv, FileTypes
<1>1. CASE Io!FreeHandles = {}
  <2>1. file' = file
    BY <1>1 DEF Io!CreateFile
  <2>2. QED
    BY <2>1, OwnersStay, IdleCall, OtherGoesOn, NoCallIs
<1>2. CASE Io!FreeHandles # {}
  <2>1. PICK h : h = Io!Min(Io!FreeHandles)
    OBVIOUS
  <2>2. h \in Io!Handles /\ file[h] = Io!Closed /\ file[h].owner = "none"
    BY <1>2, <2>1, LeastHandle, OwnersApart
  <2>3. file' = Io!Opened(f, t, h)
    BY <1>2, <2>1 DEF Io!CreateFile
  <2>4. /\ file' \in [Io!Handles -> OpenFile \cup {Io!Closed}]
        /\ \A g \in Io!Handles \ {h} : file'[g] = file[g]
        /\ file'[h].owner = t
    BY <2>2, <2>3, OpensFile
  <2>5. NotOthers(t, {h})
    BY <2>2, NobodysHandle
  <2>6. Uses(filecall[t]) = {} /\ filecall' = [filecall EXCEPT ![t] = Io!NoCall]
    BY IdleCall
  <2>7. \A g \in Io!Handles : file'[g].owner = "call" => \E u \in Threads \ {t} : g \in Uses(filecall[u])
    BY <2>4, <2>6, OwnersApart DEF FileInv
  <2>8. QED
    BY <2>4, <2>5, <2>6, <2>7, NoCallIs, CallMoves
<1>3. QED
  BY <1>1, <1>2

LEMMA FileClosed ==
    ASSUME Io!FileAssumption, FileInv, NEW t \in Threads, NEW h \in Io!Handles, Io!CloseHandle(t, h)
    PROVE  FileInv'
<1> std' \in StdValues /\ filecall' = filecall /\ Io!Idle(t) /\ FileTypes
  BY DEF Io!CloseHandle, FileInv, FileTypes
<1>1. file' = [file EXCEPT ![h] = Io!Closed] /\ file[h].owner = t
  BY DEF Io!CloseHandle, Io!Mine
<1>2. /\ file' \in [Io!Handles -> OpenFile \cup {Io!Closed}]
      /\ \A g \in Io!Handles \ {h} : file'[g] = file[g]
      /\ file'[h].owner = "none"
  BY <1>1, OwnersApart DEF FileTypes
<1>3. NotOthers(t, {h})
  BY <1>1, NobodysHandle
<1>4. Uses(filecall[t]) = {} /\ filecall' = [filecall EXCEPT ![t] = Io!NoCall]
  BY IdleCall
<1>5. \A g \in Io!Handles : file'[g].owner = "call" => \E u \in Threads \ {t} : g \in Uses(filecall[u])
  BY <1>2, <1>4 DEF FileInv
<1>6. QED
  BY <1>2, <1>3, <1>4, <1>5, NoCallIs, CallMoves

LEMMA FileRead ==
    ASSUME Io!FileAssumption, FileInv, NEW t \in Threads, NEW h \in Io!Handles, NEW len \in Lengths,
           Io!ReadFile(t, h, len)
    PROVE  FileInv'
<1> std' \in StdValues /\ filecall' = filecall /\ Io!Idle(t) /\ FileTypes
  BY DEF Io!ReadFile, FileInv, FileTypes
<1>1. file' = Io!Advance(h, Io!NtReadFile(h, len)) /\ file[h].owner = t
  BY DEF Io!ReadFile, Io!Mine
<1>2. file[h] \in OpenFile /\ len \in Nat
  BY <1>1, OpenIsTyped DEF Io!FileAssumption
<1>3. SameOwners
  BY <1>1, <1>2, Advances, ReadsAtMost
<1>4. QED
  BY <1>3, IdleCall, OtherGoesOn, NoCallIs

LEMMA SizeIs ==
    ASSUME Io!FileAssumption, NEW h
    PROVE  Io!FileSize(h) \in Nat
  BY DEF Io!FileAssumption, Io!FileSize, Io!Disk

LEMMA SeekAsked ==
    ASSUME Io!FileAssumption, FileInv, NEW t \in Threads, NEW h \in Io!Handles, NEW s \in Io!Seeks,
           Io!SeekQuery(t, h, s[1], s[2])
    PROVE  FileInv'
<1> FileTypes /\ std' \in StdValues /\ file' = file /\ Io!Idle(t) /\ file[h].owner = t
  BY DEF Io!SeekQuery, FileInv, FileTypes, Io!Mine
<1>1. file[h].pos \in Nat /\ Io!FileSize(h) \in Nat /\ s[2] \in Int
  BY OpenIsTyped, SizeIs DEF OpenFile, Io!Seeks
<1>2. PICK b \in Int : filecall' = [filecall EXCEPT ![t] = [step |-> "seek", h |-> h, target |-> b + s[2]]]
  <2>1. PICK b : b = CASE s[1] = "begin" -> 0 [] s[1] = "current" -> file[h].pos [] OTHER -> Io!FileSize(h)
    OBVIOUS
  <2>2. b \in Int
    <3>1. CASE s[1] = "begin"
      BY <2>1, <3>1, s[1] # "current"
    <3>2. CASE s[1] = "current"
      BY <1>1, <2>1, <3>2, s[1] # "begin"
    <3>3. CASE s[1] # "begin" /\ s[1] # "current"
      BY <1>1, <2>1, <3>3
    <3>4. QED
      BY <3>1, <3>2, <3>3
  <2>3. filecall' = [filecall EXCEPT ![t] = [step |-> "seek", h |-> h, target |-> b + s[2]]]
    BY <2>1 DEF Io!SeekQuery, Io!Goto
  <2>4. QED
    BY <2>2, <2>3
<1>3. PICK r : r = [step |-> "seek", h |-> h, target |-> b + s[2]]
  OBVIOUS
<1>4. r \in Seeking /\ r.h = h
  BY <1>1, <1>2, <1>3 DEF Seeking
<1>5. r \in Others /\ OwnOK(t, r)'
  BY <1>4 DEF Others, OwnOK
<1>6. QED
  BY <1>2, <1>3, <1>5, OwnersStay, IdleCall, OtherGoesOn

LEMMA Sought ==
    ASSUME Io!FileAssumption, FileInv, NEW t \in Threads, Io!SetFilePointerEx(t)
    PROVE  FileInv'
<1> FileTypes /\ std' \in StdValues /\ filecall' = [filecall EXCEPT ![t] = Io!NoCall]
  BY DEF Io!SetFilePointerEx, FileInv, FileTypes, Io!Goto
<1>1. PICK r : r = filecall[t]
  OBVIOUS
<1>2. r \in Seeking
  BY <1>1, CallKinds DEF Io!SetFilePointerEx, FileTypes
<1>3. r \in Others /\ r.h \in Io!Handles /\ r.target \in Int /\ file[r.h].owner = t
  BY <1>1, <1>2 DEF Others, Seeking, FileInv, OwnOK
<1>4. SameOwners
  <2>1. CASE file' = file
    BY <2>1, OwnersStay
  <2>2. CASE file' = [file EXCEPT ![r.h].pos = r.target] /\ r.target >= 0
    <3>1. r.target \in Nat /\ file[r.h] \in OpenFile
      BY <1>3, <2>2, OpenIsTyped
    <3>2. QED
      BY <1>3, <2>2, <3>1, PositionMoves
  <2>3. QED
    BY <1>1, <2>1, <2>2 DEF Io!SetFilePointerEx
<1>5. QED
  BY <1>1, <1>3, <1>4, NoCallIs, OtherGoesOn

LEMMA MappingAsked ==
    ASSUME Io!FileAssumption, FileInv, NEW t \in Threads, NEW h \in Io!Handles, NEW asked \in {0, 1},
           Io!CreateFileMapping(t, h, asked)
    PROVE  FileInv'
<1> FileTypes /\ std' \in StdValues /\ file' = file /\ Io!Idle(t) /\ file[h].owner = t
  BY DEF Io!CreateFileMapping, FileInv, FileTypes, Io!Mine
<1>1. PICK size : size = IF asked # 0 THEN asked ELSE Io!FileSize(h)
  OBVIOUS
<1>2. PICK slot : slot = Io!Min(Io!Unused)
  OBVIOUS
<1>3. PICK left : left = Io!Min({size, Io!FileSize(h)})
  OBVIOUS
<1>4. Io!Unused # {} /\ Io!Unused \in SUBSET Nat /\ Io!Unused \subseteq 1..MAPPINGS
  BY DEF Io!CreateFileMapping, Io!Unused
<1>5. slot \in 1..MAPPINGS
  BY <1>2, <1>4, LeastIn
<1>6. size \in Nat /\ left \in Nat
  BY <1>1, <1>3, SizeIs, LesserOf
<1>7. PICK r : r = [step |-> "rewind", h |-> h, slot |-> slot, size |-> size, left |-> left, data |-> <<>>]
  OBVIOUS
<1>8. filecall' = [filecall EXCEPT ![t] = r]
  BY <1>1, <1>2, <1>3, <1>7 DEF Io!CreateFileMapping, Io!Goto
<1>9. r \in Mapping /\ r.h = h
  BY <1>5, <1>6, <1>7 DEF Mapping
<1>10. r \in Others /\ OwnOK(t, r)'
  BY <1>9 DEF Others, OwnOK
<1>11. QED
  BY <1>8, <1>10, OwnersStay, IdleCall, OtherGoesOn

\* A mapping goes on with the same handle.
LEMMA MappingGoesOn ==
    ASSUME FileInv, SameOwners, NEW t \in Threads, NEW r \in Mapping, filecall[t] \in Mapping,
           r.h = filecall[t].h, filecall' = [filecall EXCEPT ![t] = r], std' \in StdValues
    PROVE  FileInv'
<1>1. file[r.h].owner = t /\ r.h \in Io!Handles
  BY DEF FileInv, OwnOK, Mapping
<1>2. OwnOK(t, r)'
  BY <1>1 DEF OwnOK, SameOwners
<1>3. r \in Others /\ filecall[t] \in Others
  BY DEF Others
<1>4. QED
  BY <1>2, <1>3, OtherGoesOn

LEMMA MappingUnderWay ==
    ASSUME Io!FileAssumption, FileInv, NEW t \in Threads,
           filecall[t].step \in {"rewind", "fill", "claim"}
    PROVE  /\ filecall[t] \in Mapping /\ filecall[t].h \in Io!Handles
           /\ file[filecall[t].h].owner = t /\ file[filecall[t].h] \in OpenFile
<1>1. filecall[t] \in Mapping
  BY CallKinds DEF FileInv, FileTypes
<1>2. filecall[t].h \in Io!Handles
  BY <1>1 DEF Mapping
<1>3. file[filecall[t].h].owner = t
  BY <1>1 DEF FileInv, OwnOK
<1>4. QED
  BY <1>1, <1>2, <1>3, OpenIsTyped DEF FileInv

LEMMA MappingRewound ==
    ASSUME Io!FileAssumption, FileInv, NEW t \in Threads, Io!MapRewind(t)
    PROVE  FileInv'
<1> FileTypes /\ std' \in StdValues
  BY DEF Io!MapRewind, FileInv, FileTypes
<1>1. PICK c : c = filecall[t]
  OBVIOUS
<1>2. PICK r : r = [c EXCEPT !.step = "fill"]
  OBVIOUS
<1>3. c \in Mapping /\ c.h \in Io!Handles /\ file[c.h] \in OpenFile
  BY <1>1, MappingUnderWay DEF Io!MapRewind
<1>4. r \in Mapping /\ r.h = c.h
  BY <1>2, <1>3 DEF Mapping
<1>5. SameOwners
  <2>1. CASE file' = file
    BY <2>1, OwnersStay
  <2>2. CASE file' = [file EXCEPT ![c.h].pos = 0]
    BY <1>3, <2>2, PositionMoves
  <2>3. QED
    BY <1>1, <2>1, <2>2 DEF Io!MapRewind
<1>6. filecall' = [filecall EXCEPT ![t] = r]
  BY <1>1, <1>2 DEF Io!MapRewind, Io!Goto
<1>7. QED
  BY <1>1, <1>3, <1>4, <1>5, <1>6, MappingGoesOn

LEMMA MappingFilled ==
    ASSUME Io!FileAssumption, FileInv, NEW t \in Threads, Io!MapFill(t)
    PROVE  FileInv'
<1> FileTypes /\ std' \in StdValues
  BY DEF Io!MapFill, FileInv, FileTypes
<1>1. PICK c : c = filecall[t]
  OBVIOUS
<1>2. c \in Mapping /\ c.h \in Io!Handles /\ file[c.h] \in OpenFile
  BY <1>1, MappingUnderWay DEF Io!MapFill
<1>3. PICK n : n = Io!NtReadFile(c.h, Io!Min({CHUNK, c.left}))
  OBVIOUS
<1>4. c.left \in Nat /\ CHUNK \in Nat
  BY <1>2 DEF Mapping, Io!FileAssumption
<1>5. Io!Min({CHUNK, c.left}) \in Nat /\ Io!Min({CHUNK, c.left}) <= c.left
  BY <1>4, LesserOf
<1>6. n \in Nat /\ n <= Io!Min({CHUNK, c.left})
  BY <1>2, <1>3, <1>5, ReadsAtMost
<1>7. c.left - n \in Nat
  BY <1>4, <1>5, <1>6
<1>8. CASE n = 0
  <2>1. PICK r : r = [c EXCEPT !.step = "claim"]
    OBVIOUS
  <2>2. r \in Mapping /\ r.h = c.h
    BY <1>2, <2>1 DEF Mapping
  <2>3. filecall' = [filecall EXCEPT ![t] = r] /\ file' = file
    BY <1>1, <1>3, <1>8, <2>1 DEF Io!MapFill, Io!Goto
  <2>4. QED
    BY <1>1, <1>2, <2>2, <2>3, OwnersStay, MappingGoesOn
<1>9. CASE n # 0
  <2>1. PICK more : more = [i \in 1..n |-> <<file[c.h].name, file[c.h].pos + i>>]
    OBVIOUS
  <2>2. more \in Seq(Io!Files \X Nat)
    <3>1. file[c.h].name \in Io!Files /\ file[c.h].pos \in Nat
      BY <1>2 DEF OpenFile
    <3>2. QED
      BY <1>6, <2>1, <3>1
  <2>3. PICK r : r = [c EXCEPT !.left = c.left - n, !.data = c.data \o more]
    OBVIOUS
  <2>4. c.data \o more \in Seq(Io!Files \X Nat)
    BY <1>2, <2>2 DEF Mapping
  <2>5. r \in Mapping /\ r.h = c.h
    BY <1>2, <1>7, <2>3, <2>4 DEF Mapping
  <2>6. filecall' = [filecall EXCEPT ![t] = r] /\ file' = Io!Advance(c.h, n)
    BY <1>1, <1>3, <1>9, <2>1, <2>3 DEF Io!MapFill, Io!Goto
  <2>7. QED
    BY <1>1, <1>2, <1>6, <2>5, <2>6, Advances, MappingGoesOn
<1>10. QED
  BY <1>8, <1>9

LEMMA MappingClaimed ==
    ASSUME Io!FileAssumption, FileInv, NEW t \in Threads, Io!MapClaim(t)
    PROVE  FileInv'
<1> FileTypes /\ std' \in StdValues /\ file' = file /\ filecall' = [filecall EXCEPT ![t] = Io!NoCall]
  BY DEF Io!MapClaim, FileInv, FileTypes, Io!Goto
<1>1. filecall[t] \in Others
  BY MappingUnderWay DEF Io!MapClaim, Others
<1>2. QED
  BY <1>1, OwnersStay, NoCallIs, OtherGoesOn

LEMMA MemoryAsked ==
    ASSUME Io!FileAssumption, FileInv, NEW t \in Threads, Io!MapMemory(t, 1)
    PROVE  FileInv'
<1> FileTypes /\ std' \in StdValues /\ file' = file /\ Io!Idle(t)
  BY DEF Io!MapMemory, FileInv, FileTypes
<1>1. PICK slot : slot = Io!Min(Io!Unused)
  OBVIOUS
<1>2. Io!Unused # {} /\ Io!Unused \in SUBSET Nat /\ Io!Unused \subseteq 1..MAPPINGS
  BY DEF Io!MapMemory, Io!Unused
<1>3. slot \in 1..MAPPINGS
  BY <1>1, <1>2, LeastIn
<1>4. PICK r : r = [step |-> "memory", slot |-> slot, size |-> 1]
  OBVIOUS
<1>5. filecall' = [filecall EXCEPT ![t] = r]
  BY <1>1, <1>4 DEF Io!MapMemory, Io!Goto
<1>6. r \in MappingMemory /\ r.step = "memory"
  BY <1>3, <1>4 DEF MappingMemory
<1>7. r \in Others
  BY <1>6 DEF Others
<1>8. OwnOK(t, r)'
  BY <1>6, <1>7, CallKinds DEF OwnOK
<1>9. QED
  BY <1>5, <1>7, <1>8, OwnersStay, IdleCall, OtherGoesOn

LEMMA MemoryClaimed ==
    ASSUME Io!FileAssumption, FileInv, NEW t \in Threads, Io!MapClaimMemory(t)
    PROVE  FileInv'
<1> FileTypes /\ std' \in StdValues /\ file' = file /\ filecall' = [filecall EXCEPT ![t] = Io!NoCall]
  BY DEF Io!MapClaimMemory, FileInv, FileTypes, Io!Goto
<1>1. filecall[t] \in Others
  BY CallKinds DEF Io!MapClaimMemory, Others, FileTypes
<1>2. QED
  BY <1>1, OwnersStay, NoCallIs, OtherGoesOn

LEMMA FilesStay == ASSUME FileInv, UNCHANGED <<file, filecall, std>> PROVE FileInv'
  BY DEF FileInv, FileTypes, OwnOK, CopyOK, Uses

-----------------------------------------------------------------------------
LEMMA CopyOpened ==
    ASSUME Io!FileAssumption, FileInv, NEW t \in Threads, NEW from \in Io!Disk, Io!CopyOpen(t, from)
    PROVE  FileInv'
<1> FileTypes /\ std' \in StdValues /\ Io!Idle(t) /\ from \in Io!Files
  BY DEF Io!CopyOpen, FileInv, FileTypes, Io!Files
<1>1. PICK h : h = Io!Min(Io!FreeHandles)
  OBVIOUS
<1>2. h \in Io!Handles /\ file[h] = Io!Closed /\ file[h].owner = "none"
  BY <1>1, LeastHandle, OwnersApart DEF Io!CopyOpen
<1>3. /\ file' \in [Io!Handles -> OpenFile \cup {Io!Closed}]
      /\ \A g \in Io!Handles \ {h} : file'[g] = file[g]
      /\ file'[h].owner = "call" /\ file'[h].name = from
  BY <1>1, <1>2, OpensFile DEF Io!CopyOpen
<1>4. NotOthers(t, {h}) /\ Uses(filecall[t]) = {}
  BY <1>2, NobodysHandle, IdleCall
<1>5. PICK r : r = [step |-> "target", src |-> h, left |-> SizeOf[from], dst |-> 0, done |-> 0,
                    buffer |-> FALSE, ok |-> TRUE, put |-> 0]
  OBVIOUS
<1>6. SizeOf[from] \in Nat /\ 0 \in 0..MaxHandles
  <2>1. SizeOf[from] \in Nat
    BY DEF Io!FileAssumption, Io!Disk
  <2>2. 0 \in 0..MaxHandles
    BY OwnersApart
  <2>3. QED
    BY <2>1, <2>2
<1>7. r \in Copying
  BY <1>2, <1>5, <1>6 DEF Copying
<1>8. r.src = h /\ r.dst = 0 /\ r.step = "target" /\ r.put = 0 /\ r.left = SizeOf[from] /\ r.ok
  BY <1>5
<1>9. Uses(r) = {h}
  BY <1>2, <1>7, <1>8, OwnersApart DEF Uses
<1>10. CopyOK(r)'
  BY <1>3, <1>6, <1>8 DEF CopyOK
<1>11. OwnOK(t, r)'
  BY <1>7, CallKinds DEF OwnOK
<1>12. filecall' = [filecall EXCEPT ![t] = r]
  BY <1>1, <1>5 DEF Io!CopyOpen, Io!Goto
<1>13. \A g \in Io!Handles : file'[g].owner = "call" =>
           g \in Uses(r) \/ \E u \in Threads \ {t} : g \in Uses(filecall[u])
  BY <1>3, <1>4, <1>9 DEF FileInv
<1>14. QED
  BY <1>3, <1>4, <1>7, <1>9, <1>10, <1>11, <1>12, <1>13, CallMoves

\* What is known of a copy under way.
LEMMA CopyUnderWay ==
    ASSUME Io!FileAssumption, FileInv, NEW t \in Threads,
           filecall[t].step \in {"target", "buffer", "read", "write", "free", "close"}
    PROVE  /\ filecall[t] \in Copying /\ CopyOK(filecall[t])
           /\ filecall[t].src \in Io!Handles /\ filecall[t].src # 0
           /\ filecall[t].left \in Nat /\ filecall[t].done \in Nat /\ filecall[t].put \in Nat
           /\ file[filecall[t].src] \in OpenFile
           /\ SizeOf[file[filecall[t].src].name] \in Nat
<1>1. filecall[t] \in Copying
  BY CallKinds DEF FileInv, FileTypes
<1>2. CopyOK(filecall[t])
  BY <1>1 DEF FileInv
<1>3. PICK c : c = filecall[t]
  OBVIOUS
<1>4. c.src \in Io!Handles /\ c.left \in Nat /\ c.done \in Nat /\ c.put \in Nat
  BY <1>1, <1>3 DEF Copying
<1>5. file[c.src].owner = "call" /\ file[c.src].name \in Io!Disk
  BY <1>2, <1>3 DEF CopyOK
<1>6. file[c.src] \in OpenFile
  BY <1>4, <1>5, OpenIsTyped DEF FileInv
<1>7. SizeOf[file[c.src].name] \in Nat
  BY <1>5 DEF Io!FileAssumption, Io!Disk
<1>8. QED
  BY <1>1, <1>2, <1>3, <1>4, <1>6, <1>7, OwnersApart

\* The handles of t's copy are no other call's.
LEMMA CopysOwn ==
    ASSUME Io!FileAssumption, FileInv, NEW t \in Threads, NEW H \in SUBSET Uses(filecall[t])
    PROVE  NotOthers(t, H)
<1>1. ASSUME NEW u \in Threads \ {t}, NEW h \in H PROVE h \notin Uses(filecall[u])
  BY DEF FileInv
<1>2. ASSUME NEW u \in Threads \ {t}, filecall[u] \in Seeking \cup Mapping PROVE filecall[u].h \notin H
  BY <1>2, UsesAreOpen, OwnersApart
<1>3. QED
  BY <1>1, <1>2 DEF NotOthers

\* A copy ends and closes the handles it has.
LEMMA CopyEnds ==
    ASSUME Io!FileAssumption, FileInv, NEW t \in Threads, std' \in StdValues,
           filecall' = [filecall EXCEPT ![t] = Io!NoCall],
           file' \in [Io!Handles -> OpenFile \cup {Io!Closed}],
           \A g \in Uses(filecall[t]) : file'[g] = Io!Closed,
           \A g \in Io!Handles \ Uses(filecall[t]) : file'[g] = file[g]
    PROVE  FileInv'
<1>1. NotOthers(t, Uses(filecall[t]))
  BY CopysOwn
<1>2. \A g \in Io!Handles : file'[g].owner = "call" => \E u \in Threads \ {t} : g \in Uses(filecall[u])
  BY OwnersApart DEF FileInv
<1>3. QED
  BY <1>1, <1>2, NoCallIs, CallMoves

LEMMA CopyTargeted ==
    ASSUME Io!FileAssumption, FileInv, NEW t \in Threads, NEW to, Io!CopyTarget(t, to)
    PROVE  FileInv'
<1> FileTypes /\ std' \in StdValues
  BY DEF Io!CopyTarget, FileInv, FileTypes
<1>1. PICK c : c = filecall[t]
  OBVIOUS
<1>2. /\ c \in Copying /\ CopyOK(c) /\ c.src \in Io!Handles /\ c.src # 0 /\ c.step = "target"
      /\ SizeOf[file[c.src].name] \in Nat
  BY <1>1, CopyUnderWay DEF Io!CopyTarget
<1>3. c.dst = 0 /\ c.ok /\ file[c.src].owner = "call"
  BY <1>2 DEF CopyOK
<1>4. Uses(c) = {c.src}
  BY <1>2, <1>3 DEF Uses
<1>5. CASE to \in Io!Files /\ Io!FreeHandles # {}
  <2>1. PICK h : h = Io!Min(Io!FreeHandles)
    OBVIOUS
  <2>2. h \in Io!Handles /\ file[h] = Io!Closed /\ file[h].owner = "none" /\ h # c.src
    BY <1>3, <1>5, <2>1, LeastHandle, OwnersApart
  <2>3. /\ file' \in [Io!Handles -> OpenFile \cup {Io!Closed}]
        /\ \A g \in Io!Handles \ {h} : file'[g] = file[g]
        /\ file'[h].owner = "call"
    BY <1>5, <2>1, <2>2, OpensFile DEF Io!CopyTarget
  <2>4. NotOthers(t, {h})
    BY <2>2, NobodysHandle
  <2>5. PICK r : r = [c EXCEPT !.step = "buffer", !.dst = h]
    OBVIOUS
  <2>6. r \in Copying
    <3>1. h \in 0..MaxHandles
      BY <2>2, OwnersApart
    <3>2. QED
      BY <1>2, <2>5, <3>1 DEF Copying
  <2>7. /\ r.src = c.src /\ r.dst = h /\ r.step = "buffer" /\ r.put = c.put /\ r.left = c.left
        /\ r.ok = c.ok
    BY <1>2, <2>5 DEF Copying
  <2>8. Uses(r) = {c.src, h}
    BY <1>2, <2>2, <2>6, <2>7, OwnersApart DEF Uses
  <2>9. CopyOK(r)'
    <3>1. file'[c.src] = file[c.src]
      BY <1>2, <2>2, <2>3
    <3>2. QED
      BY <1>2, <1>3, <2>2, <2>3, <2>7, <3>1 DEF CopyOK
  <2>10. OwnOK(t, r)'
    BY <2>6, CallKinds DEF OwnOK
  <2>11. filecall' = [filecall EXCEPT ![t] = r]
    BY <1>1, <1>5, <2>1, <2>5 DEF Io!CopyTarget, Io!Goto
  <2>12. \A g \in Io!Handles : file'[g].owner = "call" =>
             g \in Uses(r) \/ \E u \in Threads \ {t} : g \in Uses(filecall[u])
    BY <1>1, <1>4, <2>3, <2>8 DEF FileInv
  <2>13. Uses(r) \subseteq Uses(filecall[t]) \cup {h}
    BY <1>1, <1>4, <2>8
  <2>14. QED
    BY <2>3, <2>4, <2>6, <2>9, <2>10, <2>11, <2>12, <2>13, CallMoves
<1>6. CASE ~(to \in Io!Files /\ Io!FreeHandles # {})
  <2>1. file' = [file EXCEPT ![c.src] = Io!Closed] /\ filecall' = [filecall EXCEPT ![t] = Io!NoCall]
    BY <1>1, <1>6 DEF Io!CopyTarget, Io!Goto
  <2>2. file' \in [Io!Handles -> OpenFile \cup {Io!Closed}]
    BY <2>1 DEF FileTypes
  <2>3. file'[c.src] = Io!Closed /\ \A g \in Io!Handles \ {c.src} : file'[g] = file[g]
    BY <1>2, <2>1 DEF FileTypes
  <2>4. QED
    BY <1>1, <1>4, <2>1, <2>2, <2>3, CopyEnds
<1>7. QED
  BY <1>5, <1>6

LEMMA CopyClosed ==
    ASSUME Io!FileAssumption, FileInv, NEW t \in Threads, Io!CopyClose(t)
    PROVE  FileInv'
<1> FileTypes /\ std' \in StdValues
  BY DEF Io!CopyClose, FileInv, FileTypes
<1>1. PICK c : c = filecall[t]
  OBVIOUS
<1>2. c \in Copying /\ CopyOK(c) /\ c.src \in Io!Handles /\ c.src # 0 /\ c.step = "close"
  BY <1>1, CopyUnderWay DEF Io!CopyClose
<1>3. c.dst \in Io!Handles /\ c.dst # 0
  BY <1>2, OwnersApart DEF CopyOK
<1>4. Uses(c) = {c.src, c.dst}
  BY <1>2, <1>3 DEF Uses
<1>5. /\ file' = [file EXCEPT ![c.src] = Io!Closed, ![c.dst] = Io!Closed]
      /\ filecall' = [filecall EXCEPT ![t] = Io!NoCall]
  BY <1>1 DEF Io!CopyClose, Io!Goto
<1>6. file' \in [Io!Handles -> OpenFile \cup {Io!Closed}]
  BY <1>5 DEF FileTypes
<1>7. /\ file'[c.src] = Io!Closed /\ file'[c.dst] = Io!Closed
      /\ \A g \in Io!Handles \ {c.src, c.dst} : file'[g] = file[g]
  BY <1>2, <1>3, <1>5 DEF FileTypes
<1>8. QED
  BY <1>1, <1>4, <1>5, <1>6, <1>7, CopyEnds

\* A copy goes on with the same handles.
LEMMA CopyGoesOn ==
    ASSUME Io!FileAssumption, FileInv, SameOwners, NEW t \in Threads, filecall[t] \in Copying,
           NEW r \in Copying, r.src = filecall[t].src, r.dst = filecall[t].dst,
           filecall[t].step # "target", r.step \notin {"target", "buffer"},
           filecall' = [filecall EXCEPT ![t] = r], std' \in StdValues,
           r.ok => r.put + r.left = SizeOf[file[r.src].name],
           r.step = "write" => r.ok /\ r.done \in 1..r.left,
           r.step \in {"free", "close"} /\ r.ok => r.left = 0
    PROVE  FileInv'
<1>1. Uses(r) = Uses(filecall[t])
  BY DEF Uses
<1>2. CopyOK(filecall[t])
  BY DEF FileInv
<1>3. CopyOK(r)
  BY <1>2 DEF CopyOK
<1>4. CopyOK(r)'
  BY <1>3, KeptByOwners
<1>5. OwnOK(t, r)'
  BY CallKinds DEF OwnOK
<1>6. QED
  BY <1>1, <1>4, <1>5, CallGoesOn

LEMMA CopyBuffered ==
    ASSUME Io!FileAssumption, FileInv, NEW t \in Threads, Io!CopyBuffer(t)
    PROVE  FileInv'
<1>1. PICK got \in BOOLEAN :
          filecall' = [filecall EXCEPT ![t] = [filecall[t] EXCEPT !.step = "read", !.buffer = got, !.ok = got]]
  BY DEF Io!CopyBuffer, Io!Goto
<1>2. PICK c : c = filecall[t]
  OBVIOUS
<1>3. c \in Copying /\ CopyOK(c) /\ c.step = "buffer"
  BY <1>2, CopyUnderWay DEF Io!CopyBuffer
<1>4. PICK r : r = [c EXCEPT !.step = "read", !.buffer = got, !.ok = got]
  OBVIOUS
<1>5. r \in Copying /\ r.step = "read"
  BY <1>3, <1>4 DEF Copying
<1>6. r.src = c.src /\ r.dst = c.dst /\ r.put = c.put /\ r.left = c.left
  BY <1>3, <1>4 DEF Copying
<1>7. r.put + r.left = SizeOf[file[r.src].name]
  BY <1>3, <1>6 DEF CopyOK
<1>8. SameOwners /\ std' \in StdValues
  BY OwnersStay DEF Io!CopyBuffer, FileInv, FileTypes
<1>9. filecall' = [filecall EXCEPT ![t] = r]
  BY <1>1, <1>2, <1>4
<1>10. QED
  BY <1>2, <1>3, <1>5, <1>6, <1>7, <1>8, <1>9, CopyGoesOn

LEMMA CopyHasRead ==
    ASSUME Io!FileAssumption, FileInv, NEW t \in Threads, Io!CopyRead(t)
    PROVE  FileInv'
<1> FileTypes /\ std' \in StdValues
  BY DEF Io!CopyRead, FileInv, FileTypes
<1>1. PICK c : c = filecall[t]
  OBVIOUS
<1>2. /\ c \in Copying /\ CopyOK(c) /\ c.step = "read" /\ c.src \in Io!Handles
      /\ file[c.src] \in OpenFile /\ c.left \in Nat
  BY <1>1, CopyUnderWay DEF Io!CopyRead
<1>3. c.ok => c.put + c.left = SizeOf[file[c.src].name]
  BY <1>2 DEF CopyOK
<1>4. CASE ~c.ok \/ c.left = 0
  <2>1. PICK r : r = [c EXCEPT !.step = "free"]
    OBVIOUS
  <2>2. r \in Copying /\ r.step = "free"
    BY <1>2, <2>1 DEF Copying
  <2>3. r.src = c.src /\ r.dst = c.dst /\ r.put = c.put /\ r.left = c.left /\ r.ok = c.ok
    BY <1>2, <2>1 DEF Copying
  <2>4. filecall' = [filecall EXCEPT ![t] = r] /\ file' = file
    BY <1>1, <1>4, <2>1 DEF Io!CopyRead, Io!Goto
  <2>5. r.ok => r.put + r.left = SizeOf[file[r.src].name]
    BY <1>3, <2>3
  <2>6. r.ok => r.left = 0
    BY <1>4, <2>3
  <2>7. QED
    BY <1>1, <1>2, <2>2, <2>3, <2>4, <2>5, <2>6, OwnersStay, CopyGoesOn
<1>5. CASE c.ok /\ c.left # 0
  <2>1. PICK n : n = Io!NtReadFile(c.src, Io!Min({CHUNK, c.left}))
    OBVIOUS
  <2>2. CHUNK \in Nat
    BY DEF Io!FileAssumption
  <2>3. Io!Min({CHUNK, c.left}) \in Nat /\ Io!Min({CHUNK, c.left}) <= c.left
    BY <1>2, <2>2, LesserOf
  <2>4. n \in Nat /\ n <= Io!Min({CHUNK, c.left})
    BY <1>2, <2>1, <2>3, ReadsAtMost
  <2>5. n <= c.left
    BY <1>2, <2>3, <2>4
  <2>6. PICK ok \in BOOLEAN : ok = (n # 0)
    OBVIOUS
  <2>7. PICK step \in {"free", "write"} : step = IF n = 0 THEN "free" ELSE "write"
    OBVIOUS
  <2>8. PICK r : r = [c EXCEPT !.step = step, !.done = n, !.ok = ok]
    OBVIOUS
  <2>9. r \in Copying /\ r.step = step
    BY <1>2, <2>4, <2>6, <2>7, <2>8 DEF Copying
  <2>10. r.src = c.src /\ r.dst = c.dst /\ r.put = c.put /\ r.left = c.left /\ r.done = n /\ r.ok = ok
    BY <1>2, <2>8 DEF Copying
  <2>11. filecall' = [filecall EXCEPT ![t] = r] /\ file' = Io!Advance(c.src, n)
    BY <1>1, <1>5, <2>1, <2>6, <2>7, <2>8 DEF Io!CopyRead, Io!Goto
  <2>12. r.ok => r.put + r.left = SizeOf[file[r.src].name]
    BY <1>3, <1>5, <2>10
  <2>13. r.step = "write" => r.ok /\ r.done \in 1..r.left
    <3>1. step = "write" => n # 0 /\ ok
      BY <2>6, <2>7
    <3>2. n # 0 => n \in 1..c.left
      BY <1>2, <2>4, <2>5
    <3>3. QED
      BY <2>9, <2>10, <3>1, <3>2
  <2>14. r.step # "close" /\ (r.step = "free" => ~r.ok)
    BY <2>6, <2>7, <2>9, <2>10
  <2>15. SameOwners
    BY <1>2, <2>4, <2>11, Advances
  <2>16. QED
    BY <1>1, <1>2, <2>7, <2>9, <2>10, <2>11, <2>12, <2>13, <2>14, <2>15, CopyGoesOn
<1>6. QED
  BY <1>4, <1>5

LEMMA CopyWritten ==
    ASSUME Io!FileAssumption, FileInv, NEW t \in Threads, Io!CopyWrite(t)
    PROVE  FileInv'
<1> FileTypes /\ std' \in StdValues /\ SameOwners
  BY OwnersStay DEF Io!CopyWrite, FileInv, FileTypes
<1>1. PICK c : c = filecall[t]
  OBVIOUS
<1>2. /\ c \in Copying /\ CopyOK(c) /\ c.step = "write" /\ c.src \in Io!Handles
      /\ c.left \in Nat /\ c.done \in Nat /\ c.put \in Nat
      /\ SizeOf[file[c.src].name] \in Nat
  BY <1>1, CopyUnderWay DEF Io!CopyWrite
<1>3. c.done \in 1..c.left
  BY <1>2 DEF CopyOK
<1>4. PICK n : n = IF file[c.dst].name = Console THEN c.done ELSE 0
  OBVIOUS
<1>5. n \in Nat
  BY <1>2, <1>4
<1>6. PICK ok \in BOOLEAN : ok = (n = c.done)
  OBVIOUS
<1>7. PICK left \in Nat : left = c.left - c.done
  BY <1>2, <1>3
<1>8. PICK put \in Nat : put = c.put + n
  BY <1>2, <1>5
<1>9. PICK r : r = [c EXCEPT !.step = "read", !.ok = ok, !.left = left, !.put = put]
  OBVIOUS
<1>10. r \in Copying /\ r.step = "read"
  BY <1>2, <1>6, <1>7, <1>8, <1>9 DEF Copying
<1>11. r.src = c.src /\ r.dst = c.dst /\ r.put = put /\ r.left = left /\ r.ok = ok
  BY <1>2, <1>9 DEF Copying
<1>12. filecall' = [filecall EXCEPT ![t] = r]
  BY <1>1, <1>4, <1>6, <1>7, <1>8, <1>9 DEF Io!CopyWrite, Io!Goto
<1>13. c.ok => c.put + c.left = SizeOf[file[c.src].name]
  BY <1>2 DEF CopyOK
<1>14. c.ok
  BY <1>2 DEF CopyOK
<1>15. ok => put + left = SizeOf[file[c.src].name]
  <2>1. put + left = c.put + n + (c.left - c.done)
    BY <1>7, <1>8
  <2>2. n = c.done => c.put + n + (c.left - c.done) = c.put + c.left
    BY <1>2, <1>5
  <2>3. ok => n = c.done
    BY <1>6
  <2>4. QED
    BY <1>13, <1>14, <2>1, <2>2, <2>3
<1>16. QED
  BY <1>1, <1>2, <1>10, <1>11, <1>12, <1>15, CopyGoesOn

LEMMA CopyFreed ==
    ASSUME Io!FileAssumption, FileInv, NEW t \in Threads, Io!CopyFree(t)
    PROVE  FileInv'
<1> FileTypes /\ std' \in StdValues /\ SameOwners
  BY OwnersStay DEF Io!CopyFree, FileInv, FileTypes
<1>1. PICK c : c = filecall[t]
  OBVIOUS
<1>2. c \in Copying /\ CopyOK(c) /\ c.step = "free"
  BY <1>1, CopyUnderWay DEF Io!CopyFree
<1>3. PICK r : r = [c EXCEPT !.step = "close"]
  OBVIOUS
<1>4. r \in Copying /\ r.step = "close"
  BY <1>2, <1>3 DEF Copying
<1>5. r.src = c.src /\ r.dst = c.dst /\ r.put = c.put /\ r.left = c.left /\ r.ok = c.ok
  BY <1>2, <1>3 DEF Copying
<1>6. filecall' = [filecall EXCEPT ![t] = r]
  BY <1>1, <1>3 DEF Io!CopyFree, Io!Goto
<1>7. (r.ok => r.put + r.left = SizeOf[file[r.src].name]) /\ (r.ok => r.left = 0)
  BY <1>2, <1>5 DEF CopyOK
<1>8. QED
  BY <1>1, <1>2, <1>4, <1>5, <1>6, <1>7, CopyGoesOn

-----------------------------------------------------------------------------
LEMMA StdOpeningIs == \A t \in Threads : StdOpening \in Others /\ OwnOK(t, StdOpening)'
<1>1. StdOpening \in Others
  BY DEF Others
<1>2. QED
  BY <1>1, CallKinds DEF OwnOK

LEMMA StdOpened ==
    ASSUME Io!FileAssumption, FileInv, NEW t \in Threads, Io!StdOpen(t), filecall[t] \in Others
    PROVE  FileInv'
<1> FileTypes /\ std' \in StdValues /\ Console \in Io!Files
  BY DEF Io!StdOpen, FileInv, FileTypes, Io!Files
<1>1. PICK h : h = Io!Min(Io!FreeHandles)
  OBVIOUS
<1>2. h \in Io!Handles /\ file[h] = Io!Closed /\ file[h].owner = "none"
  BY <1>1, LeastHandle, OwnersApart DEF Io!StdOpen
<1>3. /\ file' \in [Io!Handles -> OpenFile \cup {Io!Closed}]
      /\ \A g \in Io!Handles \ {h} : file'[g] = file[g]
      /\ file'[h].owner = "std"
  BY <1>1, <1>2, OpensFile DEF Io!StdOpen
<1>4. NotOthers(t, {h}) /\ Uses(filecall[t]) = {}
  BY <1>2, NobodysHandle, OthersUseNone
<1>5. PICK r : r = [step |-> "stdstore", h |-> h]
  OBVIOUS
<1>6. r \in Storing
  BY <1>2, <1>5 DEF Storing
<1>7. r \in Others
  BY <1>6 DEF Others
<1>8. r.step = "stdstore"
  BY <1>5
<1>9. r \notin Copying /\ Uses(r) = {} /\ OwnOK(t, r)'
  BY <1>7, <1>8, OthersUseNone, CallKinds DEF OwnOK
<1>10. filecall' = [filecall EXCEPT ![t] = r]
  BY <1>1, <1>5 DEF Io!StdOpen, Io!Goto
<1>11. \A g \in Io!Handles : file'[g].owner = "call" => \E u \in Threads \ {t} : g \in Uses(filecall[u])
  BY <1>3, <1>4 DEF FileInv
<1>12. QED
  BY <1>3, <1>4, <1>7, <1>9, <1>10, <1>11, CallMoves

LEMMA StdSteps ==
    ASSUME Io!FileAssumption, FileInv, NEW t \in Threads,
           Io!StdLook(t) \/ Io!StdOpen(t) \/ Io!StdFails(t) \/ Io!StdStore(t)
    PROVE  FileInv'
<1> FileTypes
  BY DEF FileInv
<1>1. ASSUME filecall[t].step \in {"stdopen", "stdstore"} PROVE filecall[t] \in Others
  BY <1>1, CallKinds DEF FileTypes
<1>2. CASE Io!StdLook(t)
  <2>1. filecall' = [filecall EXCEPT ![t] = StdOpening] /\ file' = file /\ std' \in StdValues
        /\ Io!Idle(t)
    BY <1>2 DEF Io!StdLook, Io!Goto, StdOpening, FileTypes
  <2>2. QED
    BY <2>1, OwnersStay, IdleCall, StdOpeningIs, OtherGoesOn
<1>3. CASE Io!StdOpen(t)
  BY <1>1, <1>3, StdOpened DEF Io!StdOpen
<1>4. CASE Io!StdFails(t)
  <2>1. filecall' = [filecall EXCEPT ![t] = Io!NoCall] /\ file' = file /\ std' \in StdValues
        /\ filecall[t] \in Others
    BY <1>1, <1>4 DEF Io!StdFails, Io!Goto, FileTypes, StdValues
  <2>2. QED
    BY <2>1, OwnersStay, NoCallIs, OtherGoesOn
<1>5. CASE Io!StdStore(t)
  <2>1. filecall' = [filecall EXCEPT ![t] = Io!NoCall] /\ file' = file
        /\ filecall[t] \in Others /\ std' = filecall[t].h
    BY <1>1, <1>5 DEF Io!StdStore, Io!Goto
  <2>2. filecall[t] \in Storing
    BY <1>5, CallKinds DEF Io!StdStore, FileTypes
  <2>3. filecall[t].h \in Io!Handles
    BY <2>2 DEF Storing
  <2>4. std' \in StdValues
    BY <2>1, <2>3, OwnersApart DEF StdValues
  <2>5. QED
    BY <2>1, <2>4, OwnersStay, NoCallIs, OtherGoesOn
<1>6. QED
  BY <1>2, <1>3, <1>4, <1>5

LEMMA FileNext ==
    ASSUME Io!FileAssumption, FileInv, [Io!Next]_(Io!vars)
    PROVE  FileInv'
<1>1. CASE UNCHANGED Io!vars
  BY <1>1, FilesStay DEF Io!vars
<1>2. ASSUME NEW t \in Threads, NEW i, NEW off, NEW bytes, Io!MapViewOfFile(t, i, off, bytes)
      PROVE  FileInv'
  BY <1>2, FilesStay DEF Io!MapViewOfFile
<1>3. CASE Io!Next
  BY <1>2, <1>3, FileOpened, FileClosed, FileRead, SeekAsked, Sought, MappingAsked, MappingRewound,
     MappingFilled, MappingClaimed, MemoryAsked, MemoryClaimed, CopyOpened, CopyTargeted, CopyBuffered, CopyHasRead, CopyWritten,
     CopyFreed, CopyClosed, StdSteps DEF Io!Next
<1>4. QED
  BY <1>1, <1>3

LEMMA FileInit == ASSUME Io!FileAssumption, Io!Init PROVE FileInv
<1>1. /\ file = [h \in Io!Handles |-> Io!Closed] /\ filecall = [t \in Threads |-> Io!NoCall] /\ std = 0
  BY DEF Io!Init
<1>2. \A t \in Threads : filecall[t] = Io!NoCall /\ filecall[t] \in Others
  BY <1>1 DEF Others
<1>3. \A t \in Threads : filecall[t] \notin Copying /\ Uses(filecall[t]) = {} /\ OwnOK(t, filecall[t])
  BY <1>2, OthersUseNone, CallKinds DEF OwnOK
<1>4. \A h \in Io!Handles : file[h].owner # "call"
  BY <1>1, OwnersApart
<1>5. FileTypes
  BY <1>1, <1>2, OwnersApart DEF FileTypes, StdValues
<1>6. QED
  BY <1>3, <1>4, <1>5 DEF FileInv

\* No path of CopyFileW leaves a handle open, whatever the other threads open and close
\* meanwhile and whichever step fails; and a copy that is about to report success has
\* written every byte of its source, however many chunks that took.
THEOREM CopiesAreClean ==
    ASSUME Io!FileAssumption
    PROVE  Io!Spec => [](Io!NoHandleLeft /\ Io!CopyComplete)
<1>1. Io!Init => FileInv
  BY FileInit
<1>2. FileInv /\ [Io!Next]_(Io!vars) => FileInv'
  BY FileNext
<1>3. FileInv => Io!NoHandleLeft /\ Io!CopyComplete
  <2> SUFFICES ASSUME FileInv PROVE Io!NoHandleLeft /\ Io!CopyComplete
    OBVIOUS
  <2>1. \A u \in Threads : "src" \in DOMAIN filecall[u] <=> filecall[u] \in Copying
    BY CallKinds DEF FileInv, FileTypes
  <2>2. Io!NoHandleLeft
    <3>1. \A h \in Io!Handles : file[h].owner = "call" <=> \E t \in Threads : h \in Uses(filecall[t])
      BY UsesAreOpen DEF FileInv
    <3>2. \A t \in Threads : Uses(filecall[t]) \subseteq Io!Handles
      BY UsesAreOpen
    <3>3. {h \in Io!Handles : file[h].owner = "call"} = UNION {Uses(filecall[t]) : t \in Threads}
      BY <3>1, <3>2
    <3>4. UNION {Uses(filecall[t]) : t \in Threads} =
            UNION {{filecall[t].src, filecall[t].dst} \ {0} : t \in {u \in Threads : "src" \in DOMAIN filecall[u]}}
      BY <2>1 DEF Uses
    <3>5. QED
      BY <3>3, <3>4 DEF Io!NoHandleLeft
  <2>3. ASSUME NEW t \in Threads, filecall[t].step \in {"free", "close"}, filecall[t].ok
        PROVE  filecall[t].put = SizeOf[file[filecall[t].src].name]
    <3>1. PICK c : c = filecall[t]
      OBVIOUS
    <3>2. CopyOK(c) /\ c.put \in Nat
      BY <2>3, <3>1, CopyUnderWay
    <3>3. c.left = 0 /\ c.put + c.left = SizeOf[file[c.src].name]
      BY <2>3, <3>1, <3>2 DEF CopyOK
    <3>4. QED
      BY <3>1, <3>2, <3>3
  <2>4. QED
    BY <2>2, <2>3 DEF Io!CopyComplete
<1>4. QED
  BY <1>1, <1>2, <1>3, PTL DEF Io!Spec

-----------------------------------------------------------------------------
\* A step of t leaves the calls of other threads alone, and the files they have opened.
Local(t) ==
    /\ \A u \in Threads \ {t} : filecall'[u] = filecall[u]
    /\ \A h \in Io!Handles : file[h].owner \in Threads \ {t} => file'[h] = file[h]

\* A step that has nothing to do with mappings.
Bystander(t) ==
    /\ Local(t) /\ maps' = maps /\ views' = views
    /\ filecall'[t].step \notin {"rewind", "fill", "claim"}

LEMMA StandsBy ==
    ASSUME FileTypes, NEW t \in Threads, NEW r, filecall' = [filecall EXCEPT ![t] = r],
           r.step \notin {"rewind", "fill", "claim"}, maps' = maps, views' = views,
           \A h \in Io!Handles : file[h].owner \in Threads \ {t} => file'[h] = file[h]
    PROVE  Bystander(t)
<1>1. filecall'[t] = r /\ \A u \in Threads \ {t} : filecall'[u] = filecall[u]
  BY DEF FileTypes
<1>2. QED
  BY <1>1 DEF Bystander, Local

\* The one place of the table that changes belongs to no other thread.
LEMMA StandsByAt ==
    ASSUME FileTypes, NEW t \in Threads, NEW r, filecall' = [filecall EXCEPT ![t] = r],
           r.step \notin {"rewind", "fill", "claim"}, maps' = maps, views' = views,
           NEW h \in Io!Handles, file[h].owner \notin Threads \ {t}, NEW x,
           \/ file' = [file EXCEPT ![h] = x] \/ file' = [file EXCEPT ![h].pos = x] \/ file' = file
    PROVE  Bystander(t)
<1>1. \A g \in Io!Handles \ {h} : file'[g] = file[g]
  BY DEF FileTypes
<1>2. \A g \in Io!Handles : file[g].owner \in Threads \ {t} => file'[g] = file[g]
  BY <1>1
<1>3. QED
  BY <1>2, StandsBy

LEMMA NoStep == Io!NoCall.step \notin {"rewind", "fill", "claim"}
  BY DEF Io!NoCall

LEMMA BystanderFiles ==
    ASSUME Io!FileAssumption, FileInv, NEW t \in Threads,
           \/ \E f \in Io!Files : Io!CreateFile(t, f)
           \/ \E h \in Io!Handles : Io!CloseHandle(t, h) \/ \E len \in Lengths : Io!ReadFile(t, h, len)
           \/ \E h \in Io!Handles, s \in Io!Seeks : Io!SeekQuery(t, h, s[1], s[2])
           \/ Io!SetFilePointerEx(t)
    PROVE  Bystander(t)
<1> FileTypes
  BY DEF FileInv
<1>1. ASSUME NEW f \in Io!Files, Io!CreateFile(t, f) PROVE Bystander(t)
  <2>1. Io!Idle(t) /\ filecall' = filecall /\ maps' = maps /\ views' = views
    BY <1>1 DEF Io!CreateFile
  <2>2. filecall' = [filecall EXCEPT ![t] = Io!NoCall]
    BY <2>1, IdleCall
  <2>3. CASE Io!FreeHandles = {}
    <3>1. file' = file
      BY <1>1, <2>3 DEF Io!CreateFile
    <3>2. QED
      BY <2>1, <2>2, <3>1, NoStep, StandsBy
  <2>4. CASE Io!FreeHandles # {}
    <3>1. PICK h : h = Io!Min(Io!FreeHandles)
      OBVIOUS
    <3>2. h \in Io!Handles /\ file[h].owner \notin Threads
      BY <2>4, <3>1, LeastHandle, OwnersApart
    <3>3. file' = [file EXCEPT ![h] = [name |-> f, pos |-> 0, owner |-> t]]
      BY <1>1, <2>4, <3>1 DEF Io!CreateFile, Io!Opened
    <3>4. QED
      BY <2>1, <2>2, <3>2, <3>3, NoStep, StandsByAt
  <2>5. QED
    BY <2>3, <2>4
<1>2. ASSUME NEW h \in Io!Handles, Io!CloseHandle(t, h) \/ \E len \in Lengths : Io!ReadFile(t, h, len)
      PROVE  Bystander(t)
  <2>1. Io!Idle(t) /\ filecall' = filecall /\ maps' = maps /\ views' = views /\ file[h].owner = t
    BY <1>2 DEF Io!CloseHandle, Io!ReadFile, Io!Mine
  <2>2. filecall' = [filecall EXCEPT ![t] = Io!NoCall]
    BY <2>1, IdleCall
  <2>3. PICK x : file' = [file EXCEPT ![h] = x] \/ file' = [file EXCEPT ![h].pos = x]
    <3>1. CASE Io!CloseHandle(t, h)
      BY <3>1 DEF Io!CloseHandle
    <3>2. ASSUME NEW len \in Lengths, Io!ReadFile(t, h, len)
          PROVE  file' = [file EXCEPT ![h].pos = file[h].pos + Io!NtReadFile(h, len)]
      BY <3>2 DEF Io!ReadFile, Io!Advance
    <3>3. QED
      BY <1>2, <3>1, <3>2
  <2>4. QED
    BY <2>1, <2>2, <2>3, NoStep, StandsByAt
<1>3. ASSUME NEW h \in Io!Handles, NEW s \in Io!Seeks, Io!SeekQuery(t, h, s[1], s[2]) PROVE Bystander(t)
  <2>1. file' = file /\ maps' = maps /\ views' = views
    BY <1>3 DEF Io!SeekQuery
  <2>2. PICK x : filecall' = [filecall EXCEPT ![t] = [step |-> "seek", h |-> h, target |-> x]]
    BY <1>3 DEF Io!SeekQuery, Io!Goto
  <2>3. PICK r : r = [step |-> "seek", h |-> h, target |-> x]
    OBVIOUS
  <2>4. r.step = "seek"
    BY <2>3
  <2>5. QED
    BY <2>1, <2>2, <2>3, <2>4, StandsBy
<1>4. CASE Io!SetFilePointerEx(t)
  <2>1. filecall' = [filecall EXCEPT ![t] = Io!NoCall] /\ maps' = maps /\ views' = views
    BY <1>4 DEF Io!SetFilePointerEx, Io!Goto
  <2>2. PICK c : c = filecall[t]
    OBVIOUS
  <2>3. c \in Seeking
    BY <1>4, <2>2, CallKinds DEF Io!SetFilePointerEx, FileTypes
  <2>4. c.h \in Io!Handles /\ file[c.h].owner = t
    BY <2>2, <2>3 DEF Seeking, FileInv, OwnOK
  <2>5. file' = [file EXCEPT ![c.h].pos = c.target] \/ file' = file
    BY <1>4, <2>2 DEF Io!SetFilePointerEx
  <2>6. QED
    BY <2>1, <2>4, <2>5, NoStep, StandsByAt
<1>5. QED
  BY <1>1, <1>2, <1>3, <1>4

LEMMA BystanderOpens ==
    ASSUME Io!FileAssumption, FileInv, NEW t \in Threads,
           \/ \E f \in Io!Disk : Io!CopyOpen(t, f)
           \/ Io!StdLook(t) \/ Io!StdOpen(t) \/ Io!StdFails(t) \/ Io!StdStore(t)
    PROVE  Bystander(t)
<1> FileTypes
  BY DEF FileInv
<1>1. maps' = maps /\ views' = views
  BY DEF Io!CopyOpen, Io!StdLook, Io!StdOpen, Io!StdFails, Io!StdStore
<1>2. PICK h : h = Io!Min(Io!FreeHandles)
  OBVIOUS
<1>3. Io!FreeHandles # {} => h \in Io!Handles /\ file[h].owner \notin Threads
  BY <1>2, LeastHandle, OwnersApart
<1>4. ASSUME NEW f \in Io!Disk, Io!CopyOpen(t, f) PROVE Bystander(t)
  <2>1. file' = [file EXCEPT ![h] = [name |-> f, pos |-> 0, owner |-> "call"]] /\ Io!FreeHandles # {}
    BY <1>2, <1>4 DEF Io!CopyOpen, Io!Opened
  <2>2. PICK r : r = [step |-> "target", src |-> Io!Min(Io!FreeHandles), left |-> SizeOf[f],
                      dst |-> 0, done |-> 0, buffer |-> FALSE, ok |-> TRUE, put |-> 0]
    OBVIOUS
  <2>3. filecall' = [filecall EXCEPT ![t] = r]
    BY <1>4, <2>2 DEF Io!CopyOpen, Io!Goto
  <2>4. r.step = "target"
    BY <2>2
  <2>5. QED
    BY <1>1, <1>3, <2>1, <2>3, <2>4, StandsByAt
<1>5. CASE Io!StdLook(t)
  <2>1. PICK r : r = StdOpening
    OBVIOUS
  <2>2. filecall' = [filecall EXCEPT ![t] = r] /\ file' = file
    BY <1>5, <2>1 DEF Io!StdLook, Io!Goto, StdOpening
  <2>3. r.step = "stdopen"
    BY <2>1 DEF StdOpening
  <2>4. QED
    BY <1>1, <2>2, <2>3, StandsBy
<1>6. CASE Io!StdOpen(t)
  <2>1. file' = [file EXCEPT ![h] = [name |-> Console, pos |-> 0, owner |-> "std"]] /\ Io!FreeHandles # {}
    BY <1>2, <1>6 DEF Io!StdOpen, Io!Opened
  <2>2. PICK r : r = [step |-> "stdstore", h |-> Io!Min(Io!FreeHandles)]
    OBVIOUS
  <2>3. filecall' = [filecall EXCEPT ![t] = r]
    BY <1>6, <2>2 DEF Io!StdOpen, Io!Goto
  <2>4. r.step = "stdstore"
    BY <2>2
  <2>5. QED
    BY <1>1, <1>3, <2>1, <2>3, <2>4, StandsByAt
<1>7. CASE Io!StdFails(t) \/ Io!StdStore(t)
  <2>1. filecall' = [filecall EXCEPT ![t] = Io!NoCall] /\ file' = file
    BY <1>7 DEF Io!StdFails, Io!StdStore, Io!Goto
  <2>2. QED
    BY <1>1, <2>1, NoStep, StandsBy
<1>8. QED
  BY <1>4, <1>5, <1>6, <1>7

LEMMA BystanderCopies ==
    ASSUME Io!FileAssumption, FileInv, NEW t \in Threads,
           \/ \E to : Io!CopyTarget(t, to)
           \/ Io!CopyBuffer(t) \/ Io!CopyRead(t) \/ Io!CopyWrite(t) \/ Io!CopyFree(t) \/ Io!CopyClose(t)
    PROVE  Bystander(t)
<1> FileTypes
  BY DEF FileInv
<1>1. PICK c : c = filecall[t]
  OBVIOUS
<1>2. /\ c \in Copying /\ CopyOK(c) /\ c.src \in Io!Handles /\ maps' = maps /\ views' = views
  <2>1. filecall[t].step \in {"target", "buffer", "read", "write", "free", "close"}
    BY DEF Io!CopyTarget, Io!CopyBuffer, Io!CopyRead, Io!CopyWrite, Io!CopyFree, Io!CopyClose
  <2>2. maps' = maps /\ views' = views
    BY DEF Io!CopyTarget, Io!CopyBuffer, Io!CopyRead, Io!CopyWrite, Io!CopyFree, Io!CopyClose
  <2>3. QED
    BY <1>1, <2>1, <2>2, CopyUnderWay
<1>3. file[c.src].owner \notin Threads \ {t}
  BY <1>2, OwnersApart DEF CopyOK
<1>4. ASSUME NEW step \in {"buffer", "read", "write", "free", "close"}, NEW r,
             r = [c EXCEPT !.step = step] \/ (\E h : r = [c EXCEPT !.step = step, !.dst = h])
             \/ (\E b, ok : r = [c EXCEPT !.step = step, !.buffer = b, !.ok = ok])
             \/ (\E n, ok : r = [c EXCEPT !.step = step, !.done = n, !.ok = ok])
             \/ (\E ok, left, put : r = [c EXCEPT !.step = step, !.ok = ok, !.left = left, !.put = put])
      PROVE  r.step \notin {"rewind", "fill", "claim"}
  BY <1>2, <1>4 DEF Copying
<1>5. ASSUME NEW to, Io!CopyTarget(t, to) PROVE Bystander(t)
  <2>1. CASE to \in Io!Files /\ Io!FreeHandles # {}
    <3>1. PICK h : h = Io!Min(Io!FreeHandles)
      OBVIOUS
    <3>2. h \in Io!Handles /\ file[h].owner \notin Threads
      BY <2>1, <3>1, LeastHandle, OwnersApart
    <3>3. file' = [file EXCEPT ![h] = [name |-> to, pos |-> 0, owner |-> "call"]]
      BY <1>5, <2>1, <3>1 DEF Io!CopyTarget, Io!Opened
    <3>4. PICK r : r = [c EXCEPT !.step = "buffer", !.dst = h]
      OBVIOUS
    <3>5. filecall' = [filecall EXCEPT ![t] = r]
      BY <1>1, <1>5, <2>1, <3>1, <3>4 DEF Io!CopyTarget, Io!Goto
    <3>6. r.step \notin {"rewind", "fill", "claim"}
      BY <1>4, <3>4
    <3>7. QED
      BY <1>2, <3>2, <3>3, <3>5, <3>6, StandsByAt
  <2>2. CASE ~(to \in Io!Files /\ Io!FreeHandles # {})
    <3>1. file' = [file EXCEPT ![c.src] = Io!Closed] /\ filecall' = [filecall EXCEPT ![t] = Io!NoCall]
      BY <1>1, <1>5, <2>2 DEF Io!CopyTarget, Io!Goto
    <3>2. QED
      BY <1>2, <1>3, <3>1, NoStep, StandsByAt
  <2>3. QED
    BY <2>1, <2>2
<1>6. CASE Io!CopyBuffer(t)
  <2>1. PICK got \in BOOLEAN :
          filecall' = [filecall EXCEPT ![t] = [c EXCEPT !.step = "read", !.buffer = got, !.ok = got]]
    BY <1>1, <1>6 DEF Io!CopyBuffer, Io!Goto
  <2>2. PICK r : r = [c EXCEPT !.step = "read", !.buffer = got, !.ok = got]
    OBVIOUS
  <2>3. r.step \notin {"rewind", "fill", "claim"} /\ file' = file
    BY <1>4, <1>6, <2>2 DEF Io!CopyBuffer
  <2>4. QED
    BY <1>2, <2>1, <2>2, <2>3, StandsBy
<1>7. CASE Io!CopyRead(t)
  <2>1. PICK n : n = Io!NtReadFile(c.src, Io!Min({CHUNK, c.left}))
    OBVIOUS
  <2>2. CASE ~c.ok \/ c.left = 0
    <3>1. PICK r : r = [c EXCEPT !.step = "free"]
      OBVIOUS
    <3>2. filecall' = [filecall EXCEPT ![t] = r] /\ file' = file
      BY <1>1, <1>7, <2>2, <3>1 DEF Io!CopyRead, Io!Goto
    <3>3. r.step \notin {"rewind", "fill", "claim"}
      BY <1>4, <3>1
    <3>4. QED
      BY <1>2, <3>2, <3>3, StandsBy
  <2>3. CASE ~(~c.ok \/ c.left = 0)
    <3>1. PICK step \in {"free", "write"} : step = IF n = 0 THEN "free" ELSE "write"
      OBVIOUS
    <3>2. PICK r : r = [c EXCEPT !.step = step, !.done = n, !.ok = n # 0]
      OBVIOUS
    <3>3. filecall' = [filecall EXCEPT ![t] = r] /\ file' = [file EXCEPT ![c.src].pos = file[c.src].pos + n]
      BY <1>1, <1>7, <2>1, <2>3, <3>1, <3>2 DEF Io!CopyRead, Io!Goto, Io!Advance
    <3>4. r.step \notin {"rewind", "fill", "claim"}
      BY <1>4, <3>2
    <3>5. QED
      BY <1>2, <1>3, <3>3, <3>4, StandsByAt
  <2>4. QED
    BY <2>2, <2>3
<1>8. CASE Io!CopyWrite(t)
  <2>1. PICK n : n = IF file[c.dst].name = Console THEN c.done ELSE 0
    OBVIOUS
  <2>2. PICK r : r = [c EXCEPT !.step = "read", !.ok = n = c.done, !.left = @ - c.done, !.put = @ + n]
    OBVIOUS
  <2>3. filecall' = [filecall EXCEPT ![t] = r] /\ file' = file
    BY <1>1, <1>8, <2>1, <2>2 DEF Io!CopyWrite, Io!Goto
  <2>4. r.step \notin {"rewind", "fill", "claim"}
    BY <1>2, <2>2 DEF Copying
  <2>5. QED
    BY <1>2, <2>3, <2>4, StandsBy
<1>9. CASE Io!CopyFree(t)
  <2>1. PICK r : r = [c EXCEPT !.step = "close"]
    OBVIOUS
  <2>2. filecall' = [filecall EXCEPT ![t] = r] /\ file' = file
    BY <1>1, <1>9, <2>1 DEF Io!CopyFree, Io!Goto
  <2>3. r.step \notin {"rewind", "fill", "claim"}
    BY <1>4, <2>1
  <2>4. QED
    BY <1>2, <2>2, <2>3, StandsBy
<1>10. CASE Io!CopyClose(t)
  <2>1. /\ file' = [file EXCEPT ![c.src] = Io!Closed, ![c.dst] = Io!Closed]
        /\ filecall' = [filecall EXCEPT ![t] = Io!NoCall]
    BY <1>1, <1>10 DEF Io!CopyClose, Io!Goto
  <2>2. c.dst \in Io!Handles /\ file[c.dst].owner \notin Threads \ {t}
    <3>1. c.step = "close"
      BY <1>1, <1>10 DEF Io!CopyClose
    <3>2. QED
      BY <1>2, <3>1, OwnersApart DEF CopyOK
  <2>3. \A g \in Io!Handles \ {c.src, c.dst} : file'[g] = file[g]
    BY <1>2, <2>1, <2>2 DEF FileTypes
  <2>4. \A g \in Io!Handles : file[g].owner \in Threads \ {t} => file'[g] = file[g]
    BY <1>3, <2>2, <2>3
  <2>5. QED
    BY <1>2, <2>1, <2>4, NoStep, StandsBy
<1>11. QED
  BY <1>5, <1>6, <1>7, <1>8, <1>9, <1>10

-----------------------------------------------------------------------------
MapEntry == [used : BOOLEAN, name : Io!Files \cup {""}, size : Nat, data : Seq(Io!Files \X Nat),
             claims : Nat]

\* The first n bytes of a file.
Shown(f, n) == [i \in 1..n |-> <<f, i>>]

\* How much of the file the mapping in r is going to show.
Whole(r) == Io!Min({r.size, SizeOf[file[r.h].name]})

\* How far the reading is: what has been read is the beginning of the file, and what is
\* left to read begins where the handle is.
FillOK(r) ==
    file[r.h].name \in Io!Disk =>
      /\ r.left \in 0..Whole(r)
      /\ IF r.step = "rewind" THEN r.left = Whole(r) /\ r.data = <<>>
         ELSE file[r.h].pos = Whole(r) - r.left /\ r.data = Shown(file[r.h].name, Whole(r) - r.left)
      /\ r.step = "claim" => r.left = 0

MapsHold ==
    \A i \in 1..MAPPINGS : maps[i].used /\ maps[i].name \in Io!Disk =>
        maps[i].data = Shown(maps[i].name, Io!Min({maps[i].size, SizeOf[maps[i].name]}))
ClaimsCounted == \A i \in 1..MAPPINGS : maps[i].used => maps[i].claims # 0
ViewsLead ==
    \A v \in views : /\ v.map \in 1..MAPPINGS /\ maps[v.map].claims # 0
                     /\ maps[v.map].claims = 1 => Io!UnmapFinds(v)
Filling(r) == r \in Mapping => FillOK(r)

MapInv ==
    /\ maps \in [1..MAPPINGS -> MapEntry] /\ MapsHold /\ ClaimsCounted /\ ViewsLead
    /\ \A t \in Threads : Filling(filecall[t])

LEMMA MapsStand ==
    ASSUME FileInv, MapInv, NEW t \in Threads, Bystander(t)
    PROVE  MapInv'
<1>1. maps' = maps /\ views' = views /\ Local(t)
  BY DEF Bystander
<1>2. (maps \in [1..MAPPINGS -> MapEntry])' /\ MapsHold' /\ ClaimsCounted' /\ ViewsLead'
  BY <1>1 DEF MapInv, MapsHold, ClaimsCounted, ViewsLead, Io!UnmapFinds
<1>3. ASSUME NEW u \in Threads PROVE Filling(filecall[u])'
  <2>1. CASE u = t
    <3>1. filecall'[u] \notin Mapping
      BY <2>1 DEF Bystander, Mapping
    <3>2. QED
      BY <3>1 DEF Filling
  <2>2. CASE u # t
    <3>1. PICK r : r = filecall[u] /\ r = filecall'[u]
      BY <1>1, <2>2 DEF Local
    <3>2. ASSUME r \in Mapping PROVE FillOK(r)'
      <4>1. r.h \in Io!Handles /\ file[r.h].owner = u
        BY <3>1, <3>2 DEF Mapping, FileInv, OwnOK
      <4>2. file'[r.h] = file[r.h]
        BY <1>1, <2>2, <4>1 DEF Local
      <4>3. FillOK(r)
        BY <3>1, <3>2 DEF MapInv, Filling
      <4>4. QED
        BY <4>2, <4>3 DEF FillOK, Whole
    <3>3. Filling(r)
      BY <3>1 DEF MapInv
    <3>4. Filling(r)'
      BY <1>1, <3>2, <3>3 DEF Filling
    <3>5. QED
      BY <3>1, <3>4 DEF Filling, FillOK, Whole
  <2>3. QED
    BY <2>1, <2>2
<1>4. QED
  BY <1>2, <1>3 DEF MapInv

\* A thread that makes a mapping goes on to r, and leaves the files of others alone.
LEMMA FillingGoesOn ==
    ASSUME FileInv, MapInv, NEW t \in Threads, NEW r,
           filecall' = [filecall EXCEPT ![t] = r], Filling(r)',
           \A h \in Io!Handles : file[h].owner # t => file'[h] = file[h]
    PROVE  \A u \in Threads : Filling(filecall[u])'
<1>1. ASSUME NEW u \in Threads PROVE Filling(filecall[u])'
  <2>1. CASE u = t
    <3>1. filecall'[u] = r
      BY <2>1 DEF FileInv, FileTypes
    <3>2. QED
      BY <2>1, <3>1 DEF Filling, FillOK, Whole
  <2>2. CASE u # t
    <3>1. filecall'[u] = filecall[u]
      BY <2>2 DEF FileInv, FileTypes
    <3>2. PICK c : c = filecall[u]
      OBVIOUS
    <3>3. ASSUME c \in Mapping PROVE FillOK(c)'
      <4>1. c.h \in Io!Handles /\ file[c.h].owner = u
        BY <3>2, <3>3 DEF Mapping, FileInv, OwnOK
      <4>2. file'[c.h] = file[c.h]
        BY <2>2, <4>1
      <4>3. FillOK(c)
        BY <3>2, <3>3 DEF MapInv, Filling
      <4>4. QED
        BY <4>2, <4>3 DEF FillOK, Whole
    <3>4. QED
      BY <3>1, <3>2, <3>3 DEF Filling, FillOK, Whole
  <2>3. QED
    BY <2>1, <2>2
<1>2. QED
  BY <1>1

LEMMA MapsSame == ASSUME MapInv, maps' = maps, views' = views
                  PROVE  (maps \in [1..MAPPINGS -> MapEntry])' /\ MapsHold' /\ ClaimsCounted' /\ ViewsLead'
  BY DEF MapInv, MapsHold, ClaimsCounted, ViewsLead, Io!UnmapFinds

LEMMA MappingStarts ==
    ASSUME Io!FileAssumption, FileInv, MapInv, NEW t \in Threads, NEW h \in Io!Handles,
           NEW asked \in {0, 1}, Io!CreateFileMapping(t, h, asked)
    PROVE  MapInv'
<1>0. file' = file /\ maps' = maps /\ views' = views
  BY DEF Io!CreateFileMapping
<1>1. PICK size : size = IF asked # 0 THEN asked ELSE Io!FileSize(h)
  OBVIOUS
<1>2. PICK slot : slot = Io!Min(Io!Unused)
  OBVIOUS
<1>3. PICK left : left = Io!Min({size, Io!FileSize(h)})
  OBVIOUS
<1>4. PICK r : r = [step |-> "rewind", h |-> h, slot |-> slot, size |-> size, left |-> left, data |-> <<>>]
  OBVIOUS
<1>5. filecall' = [filecall EXCEPT ![t] = r]
  BY <1>1, <1>2, <1>3, <1>4 DEF Io!CreateFileMapping, Io!Goto
<1>6. r.slot = slot /\ r.h = h /\ r.size = size /\ r.left = left /\ r.data = <<>> /\ r.step = "rewind"
  BY <1>4
<1>8. FillOK(r)'
  <2> SUFFICES ASSUME file[h].name \in Io!Disk PROVE FillOK(r)'
    BY <1>0, <1>6 DEF FillOK
  <2>1. Whole(r) = left /\ Whole(r)' = left
    BY <1>0, <1>3, <1>6 DEF Whole, Io!FileSize
  <2>2. left \in Nat
    BY <1>1, <1>3, SizeIs, LesserOf
  <2>3. left \in 0..left
    BY <2>2
  <2>4. QED
    BY <1>0, <1>6, <2>1, <2>3 DEF FillOK
<1>9. Filling(r)'
  BY <1>8 DEF Filling
<1>10. QED
  BY <1>0, <1>5, <1>9, FillingGoesOn, MapsSame DEF MapInv

LEMMA MappingRewinds ==
    ASSUME Io!FileAssumption, FileInv, MapInv, NEW t \in Threads, Io!MapRewind(t)
    PROVE  MapInv'
<1>0. maps' = maps /\ views' = views /\ FileTypes
  BY DEF Io!MapRewind, FileInv
<1>1. PICK c : c = filecall[t]
  OBVIOUS
<1>2. c \in Mapping /\ c.h \in Io!Handles /\ c.step = "rewind" /\ file[c.h] \in OpenFile
  BY <1>1, MappingUnderWay DEF Io!MapRewind
<1>3. FillOK(c)
  BY <1>1, <1>2 DEF MapInv, Filling
<1>4. PICK r : r = [c EXCEPT !.step = "fill"]
  OBVIOUS
<1>5. r.step = "fill" /\ r.h = c.h /\ r.slot = c.slot /\ r.size = c.size /\ r.left = c.left /\ r.data = c.data
  BY <1>2, <1>4 DEF Mapping
<1>6. filecall' = [filecall EXCEPT ![t] = r]
  BY <1>1, <1>4 DEF Io!MapRewind, Io!Goto
<1>7. file'[c.h].name = file[c.h].name /\ (file[c.h].name \in Io!Disk => file'[c.h].pos = 0)
  <2>1. CASE file[c.h].name \in Io!Disk
    <3>1. file' = [file EXCEPT ![c.h].pos = 0]
      BY <1>1, <2>1 DEF Io!MapRewind
    <3>2. file'[c.h] = [file[c.h] EXCEPT !.pos = 0]
      BY <1>0, <1>2, <3>1 DEF FileTypes
    <3>3. QED
      BY <1>2, <3>2 DEF OpenFile
  <2>2. CASE file[c.h].name \notin Io!Disk
    <3>1. file' = file
      BY <1>1, <2>2 DEF Io!MapRewind
    <3>2. QED
      BY <2>2, <3>1
  <2>3. QED
    BY <2>1, <2>2
<1>8. FillOK(r)'
  <2> SUFFICES ASSUME file[c.h].name \in Io!Disk PROVE FillOK(r)'
    BY <1>5, <1>7 DEF FillOK
  <2>1. PICK w : w = Whole(c)
    OBVIOUS
  <2>2. Whole(r)' = w
    BY <1>5, <1>7, <2>1 DEF Whole
  <2>3. w \in Nat
    BY <1>2, <2>1, LesserOf DEF Whole, Mapping, Io!FileAssumption, Io!Disk
  <2>4. c.left = w /\ c.left \in 0..w /\ c.data = <<>>
    BY <1>2, <1>3, <2>1 DEF FillOK
  <2>5. w - c.left = 0
    BY <2>3, <2>4
  <2>6. Shown(file[c.h].name, 0) = <<>>
    BY DEF Shown
  <2>7. QED
    BY <1>5, <1>7, <2>2, <2>4, <2>5, <2>6 DEF FillOK
<1>9. Filling(r)'
  BY <1>8 DEF Filling
<1>10. \A h \in Io!Handles : file[h].owner # t => file'[h] = file[h]
  BY <1>0, <1>1, <1>2, MappingUnderWay DEF Io!MapRewind, FileTypes
<1>11. QED
  BY <1>6, <1>0, <1>9, <1>10, FillingGoesOn, MapsSame DEF MapInv

\* Reading goes on where it had come to.
LEMMA ShownMore ==
    ASSUME NEW f, NEW p \in Nat, NEW n \in Nat
    PROVE  Shown(f, p) \o [i \in 1..n |-> <<f, p + i>>] = Shown(f, p + n)
<1>1. PICK a : a = Shown(f, p)
  OBVIOUS
<1>2. PICK b : b = [i \in 1..n |-> <<f, p + i>>]
  OBVIOUS
<1>3. a \in Seq({f} \X Nat) /\ Len(a) = p /\ \A i \in 1..p : a[i] = <<f, i>>
  BY <1>1 DEF Shown
<1>4. b \in Seq({f} \X Nat) /\ Len(b) = n /\ \A i \in 1..n : b[i] = <<f, p + i>>
  BY <1>2
<1>5. PICK s : s = a \o b
  OBVIOUS
<1>6. /\ s \in Seq({f} \X Nat) /\ Len(s) = p + n
      /\ \A i \in 1..(p + n) : s[i] = IF i <= p THEN a[i] ELSE b[i - p]
  BY <1>3, <1>4, <1>5, ConcatProperties
<1>7. ASSUME NEW i \in 1..(p + n) PROVE s[i] = <<f, i>>
  <2>1. CASE i <= p
    BY <1>3, <1>6, <2>1
  <2>2. CASE ~(i <= p)
    <3>1. i - p \in 1..n /\ p + (i - p) = i
      BY <2>2
    <3>2. s[i] = b[i - p]
      BY <1>6, <2>2
    <3>3. QED
      BY <1>4, <3>1, <3>2
  <2>3. QED
    BY <2>1, <2>2
<1>8. s = [i \in 1..(p + n) |-> s[i]]
  BY <1>6
<1>9. QED
  BY <1>1, <1>2, <1>5, <1>7, <1>8 DEF Shown

LEMMA MappingFills ==
    ASSUME Io!FileAssumption, FileInv, MapInv, NEW t \in Threads, Io!MapFill(t)
    PROVE  MapInv'
<1>0. maps' = maps /\ views' = views /\ FileTypes
  BY DEF Io!MapFill, FileInv
<1>1. PICK c : c = filecall[t]
  OBVIOUS
<1>2. /\ c \in Mapping /\ c.h \in Io!Handles /\ c.step = "fill" /\ file[c.h] \in OpenFile
      /\ c.left \in Nat /\ CHUNK \in Nat \ {0}
  BY <1>1, MappingUnderWay DEF Io!MapFill, Mapping, Io!FileAssumption
<1>3. FillOK(c)
  BY <1>1, <1>2 DEF MapInv, Filling
<1>4. PICK m : m = Io!Min({CHUNK, c.left})
  OBVIOUS
<1>5. PICK n : n = Io!NtReadFile(c.h, m)
  OBVIOUS
<1>6. m \in Nat /\ m <= c.left /\ m \in {CHUNK, c.left}
  BY <1>2, <1>4, LesserOf
<1>7. n \in Nat /\ n <= m
  BY <1>0, <1>2, <1>5, <1>6, ReadsAtMost
<1>8. PICK f : f = file[c.h].name
  OBVIOUS
<1>9. PICK w : w = Whole(c)
  OBVIOUS
<1>10. ASSUME f \in Io!Disk
       PROVE  /\ SizeOf[f] \in Nat /\ w \in Nat /\ w <= SizeOf[f] /\ c.left <= w
              /\ file[c.h].pos = w - c.left /\ c.data = Shown(f, w - c.left)
  <2>1. SizeOf[f] \in Nat /\ c.size \in Nat
    BY <1>2, <1>10 DEF Io!FileAssumption, Io!Disk, Mapping
  <2>2. w \in Nat /\ w <= SizeOf[f]
    BY <1>8, <1>9, <2>1, LesserOf DEF Whole
  <2>3. /\ c.left \in 0..w /\ file[c.h].pos = w - c.left
        /\ c.data = Shown(f, w - c.left)
    BY <1>2, <1>3, <1>8, <1>9, <1>10 DEF FillOK
  <2>4. c.left <= w
    BY <2>2, <2>3
  <2>5. QED
    BY <2>1, <2>2, <2>3, <2>4
<1>11. CASE n = 0
  <2>1. PICK r : r = [c EXCEPT !.step = "claim"]
    OBVIOUS
  <2>2. r.step = "claim" /\ r.h = c.h /\ r.slot = c.slot /\ r.size = c.size /\ r.left = c.left /\ r.data = c.data
    BY <1>2, <2>1 DEF Mapping
  <2>3. filecall' = [filecall EXCEPT ![t] = r] /\ file' = file
    BY <1>1, <1>4, <1>5, <1>11, <2>1 DEF Io!MapFill, Io!Goto
  <2>4. ASSUME f \in Io!Disk PROVE c.left = 0
    <3> SUFFICES ASSUME c.left # 0 PROVE FALSE
      OBVIOUS
    <3>1. m # 0
      BY <1>2, <1>6
    <3>2. file[c.h].pos < SizeOf[f] /\ SizeOf[f] - file[c.h].pos \in Nat \ {0}
      BY <1>2, <1>10, <2>4
    <3>3. Io!FileSize(c.h) = SizeOf[f]
      BY <1>8, <2>4 DEF Io!FileSize
    <3>4. n = Io!Min({m, SizeOf[f] - file[c.h].pos})
      BY <1>5, <1>8, <2>4, <3>2, <3>3 DEF Io!NtReadFile
    <3>5. n # 0
      BY <1>6, <3>1, <3>2, <3>4, LesserOf
    <3>6. QED
      BY <1>11, <3>5
  <2>5. FillOK(r)'
    <3> SUFFICES ASSUME f \in Io!Disk PROVE FillOK(r)'
      BY <1>8, <2>2, <2>3 DEF FillOK
    <3>1. Whole(r)' = w
      BY <1>9, <2>2, <2>3 DEF Whole
    <3>2. c.left \in 0..w
      BY <1>2, <1>10
    <3>3. QED
      BY <1>8, <1>10, <2>2, <2>3, <2>4, <3>1, <3>2 DEF FillOK
  <2>6. Filling(r)'
    BY <2>5 DEF Filling
  <2>7. QED
    BY <1>0, <2>3, <2>6, FillingGoesOn, MapsSame DEF MapInv
<1>12. CASE n # 0
  <2>1. PICK more : more = [i \in 1..n |-> <<file[c.h].name, file[c.h].pos + i>>]
    OBVIOUS
  <2>2. PICK r : r = [c EXCEPT !.left = c.left - n, !.data = c.data \o more]
    OBVIOUS
  <2>3. /\ r.step = "fill" /\ r.h = c.h /\ r.slot = c.slot /\ r.size = c.size
        /\ r.left = c.left - n /\ r.data = c.data \o more
    BY <1>2, <2>2 DEF Mapping
  <2>4. filecall' = [filecall EXCEPT ![t] = r] /\ file' = Io!Advance(c.h, n)
    BY <1>1, <1>4, <1>5, <1>12, <2>1, <2>2 DEF Io!MapFill, Io!Goto
  <2>5. file'[c.h].name = f /\ file'[c.h].pos = file[c.h].pos + n
    <3>1. file'[c.h] = [file[c.h] EXCEPT !.pos = file[c.h].pos + n]
      BY <1>0, <1>2, <2>4 DEF FileTypes, Io!Advance
    <3>2. QED
      BY <1>2, <1>8, <3>1 DEF OpenFile
  <2>6. FillOK(r)'
    <3> SUFFICES ASSUME f \in Io!Disk PROVE FillOK(r)'
      BY <2>3, <2>5 DEF FillOK
    <3>1. Whole(r)' = w
      BY <1>8, <1>9, <2>3, <2>5 DEF Whole
    <3>2. PICK p \in Nat : p = w - c.left
      BY <1>2, <1>10
    <3>3. p + n = w - (c.left - n) /\ c.left - n \in 0..w
      BY <1>2, <1>6, <1>7, <1>10, <3>2
    <3>4. r.data = Shown(f, p + n)
      <4>1. c.data = Shown(f, p) /\ file[c.h].pos = p
        BY <1>10, <3>2
      <4>2. more = [i \in 1..n |-> <<f, p + i>>]
        BY <1>8, <2>1, <4>1
      <4>3. QED
        BY <1>7, <2>3, <4>1, <4>2, ShownMore
    <3>5. file'[c.h].pos = p + n
      BY <1>10, <2>5, <3>2
    <3>6. QED
      BY <2>3, <2>5, <3>1, <3>3, <3>4, <3>5 DEF FillOK
  <2>7. Filling(r)'
    BY <2>6 DEF Filling
  <2>8. \A h \in Io!Handles : file[h].owner # t => file'[h] = file[h]
    BY <1>0, <1>1, <1>2, <2>4, MappingUnderWay DEF Io!MapFill, Io!Advance, FileTypes
  <2>9. QED
    BY <1>0, <2>4, <2>7, <2>8, FillingGoesOn, MapsSame DEF MapInv
<1>13. QED
  BY <1>11, <1>12

LEMMA OneMore == \A k \in Nat : k + 1 \in Nat /\ k + 1 # 0 /\ (k # 0 => k + 1 # 1)
  OBVIOUS

\* An entry is filled, whether or not another call was given it before.
LEMMA EntryClaimed ==
    ASSUME MapInv, NEW i \in 1..MAPPINGS, NEW name \in Io!Files \cup {""}, NEW size \in Nat,
           NEW data \in Seq(Io!Files \X Nat), maps' = Io!Claimed(i, name, size, data), views' = views,
           name \in Io!Disk => data = Shown(name, Io!Min({size, SizeOf[name]}))
    PROVE  (maps \in [1..MAPPINGS -> MapEntry])' /\ MapsHold' /\ ClaimsCounted' /\ ViewsLead'
<1>1. PICK n : n = maps[i].claims + 1
  OBVIOUS
<1>2. maps[i].claims \in Nat
  BY DEF MapInv, MapEntry
<1>3. n \in Nat /\ n # 0 /\ (maps[i].claims # 0 => n # 1)
  BY <1>1, <1>2, OneMore
<1>4. PICK e : e = [used |-> TRUE, name |-> name, size |-> size, data |-> data, claims |-> n]
  OBVIOUS
<1>5. e \in MapEntry
  BY <1>3, <1>4 DEF MapEntry
<1>6. e.name = name /\ e.size = size /\ e.data = data /\ e.claims = n
  BY <1>4
<1>7. maps' = [maps EXCEPT ![i] = e]
  BY <1>1, <1>4 DEF Io!Claimed
<1>8. \A j \in 1..MAPPINGS : maps'[j] = IF j = i THEN e ELSE maps[j]
  BY <1>7 DEF MapInv
<1>9. (maps \in [1..MAPPINGS -> MapEntry])'
  BY <1>5, <1>7 DEF MapInv
<1>10. MapsHold'
  <2>1. \A j \in 1..MAPPINGS : maps'[j].used /\ maps'[j].name \in Io!Disk =>
           maps'[j].data = Shown(maps'[j].name, Io!Min({maps'[j].size, SizeOf[maps'[j].name]}))
    BY <1>6, <1>8 DEF MapInv, MapsHold
  <2>2. QED
    BY <2>1 DEF MapsHold
<1>11. ClaimsCounted'
  BY <1>3, <1>6, <1>8 DEF MapInv, ClaimsCounted
<1>12. ASSUME NEW v \in views
       PROVE  v.map \in 1..MAPPINGS /\ maps'[v.map].claims # 0
              /\ (maps'[v.map].claims = 1 => Io!UnmapFinds(v)')
  <2>1. v.map \in 1..MAPPINGS /\ maps[v.map].claims # 0 /\ (maps[v.map].claims = 1 => Io!UnmapFinds(v))
    BY DEF MapInv, ViewsLead
  <2>2. CASE v.map = i
    BY <1>3, <1>6, <1>8, <2>1, <2>2
  <2>3. CASE v.map # i
    <3>1. maps'[v.map] = maps[v.map]
      BY <1>8, <2>1, <2>3
    <3>2. QED
      BY <2>1, <3>1 DEF Io!UnmapFinds
  <2>4. QED
    BY <2>2, <2>3
<1>13. ViewsLead'
  BY <1>12 DEF ViewsLead
<1>14. QED
  BY <1>9, <1>10, <1>11, <1>13

LEMMA NoCallFills == Filling(Io!NoCall)'
  BY NoStep DEF Filling, Mapping

LEMMA MappingClaims ==
    ASSUME Io!FileAssumption, FileInv, MapInv, NEW t \in Threads, Io!MapClaim(t)
    PROVE  MapInv'
<1>1. PICK c : c = filecall[t]
  OBVIOUS
<1>2. c \in Mapping /\ c.h \in Io!Handles /\ c.step = "claim" /\ file[c.h] \in OpenFile
  BY <1>1, MappingUnderWay DEF Io!MapClaim
<1>3. FillOK(c)
  BY <1>1, <1>2 DEF MapInv, Filling
<1>4. /\ c.slot \in 1..MAPPINGS /\ c.size \in Nat /\ c.left \in Nat /\ c.data \in Seq(Io!Files \X Nat)
      /\ file[c.h].name \in Io!Files
  BY <1>2 DEF Mapping, OpenFile
<1>5. PICK f : f = file[c.h].name
  OBVIOUS
<1>6. maps' = Io!Claimed(c.slot, f, c.size, c.data) /\ views' = views /\ file' = file
      /\ filecall' = [filecall EXCEPT ![t] = Io!NoCall]
  BY <1>1, <1>5 DEF Io!MapClaim, Io!Goto
<1>7. f \in Io!Disk => c.data = Shown(f, Io!Min({c.size, SizeOf[f]}))
  <2> SUFFICES ASSUME f \in Io!Disk PROVE c.data = Shown(f, Io!Min({c.size, SizeOf[f]}))
    OBVIOUS
  <2>1. PICK w : w = Whole(c)
    OBVIOUS
  <2>2. w \in Nat
    BY <1>4, <1>5, <2>1, LesserOf DEF Whole, Io!FileAssumption, Io!Disk
  <2>3. c.left = 0 /\ c.data = Shown(f, w - c.left)
    BY <1>2, <1>3, <1>5, <2>1 DEF FillOK
  <2>4. w - 0 = w
    BY <2>2
  <2>5. QED
    BY <1>5, <2>1, <2>3, <2>4 DEF Whole
<1>8. (maps \in [1..MAPPINGS -> MapEntry])' /\ MapsHold' /\ ClaimsCounted' /\ ViewsLead'
  BY <1>4, <1>5, <1>6, <1>7, EntryClaimed
<1>9. \A u \in Threads : Filling(filecall[u])'
  BY <1>6, NoCallFills, FillingGoesOn
<1>10. QED
  BY <1>8, <1>9 DEF MapInv

LEMMA MemoryClaims ==
    ASSUME Io!FileAssumption, FileInv, MapInv, NEW t \in Threads, Io!MapClaimMemory(t)
    PROVE  MapInv'
<1>1. PICK c : c = filecall[t]
  OBVIOUS
<1>2. c \in MappingMemory
  BY <1>1, CallKinds DEF Io!MapClaimMemory, FileInv, FileTypes
<1>3. c.slot \in 1..MAPPINGS /\ c.size \in Nat
  BY <1>2 DEF MappingMemory
<1>4. maps' = Io!Claimed(c.slot, "", c.size, <<>>) /\ views' = views /\ file' = file
      /\ filecall' = [filecall EXCEPT ![t] = Io!NoCall]
  BY <1>1 DEF Io!MapClaimMemory, Io!Goto
<1>5. <<>> \in Seq(Io!Files \X Nat) /\ "" \in Io!Files \cup {""}
  OBVIOUS
<1>10. "" \in Io!Disk => <<>> = Shown("", Io!Min({c.size, SizeOf[""]}))
  BY DEF Io!FileAssumption, Io!Disk
<1>6. (maps \in [1..MAPPINGS -> MapEntry])' /\ MapsHold' /\ ClaimsCounted' /\ ViewsLead'
  BY <1>3, <1>4, <1>5, <1>10, EntryClaimed
<1>7. \A u \in Threads : Filling(filecall[u])'
  BY <1>4, NoCallFills, FillingGoesOn
<1>8. QED
  BY <1>6, <1>7 DEF MapInv

LEMMA MemoryStarts ==
    ASSUME Io!FileAssumption, FileInv, MapInv, NEW t \in Threads, Io!MapMemory(t, 1)
    PROVE  MapInv'
<1>1. PICK r : /\ r = [step |-> "memory", slot |-> Io!Min(Io!Unused), size |-> 1]
               /\ filecall' = [filecall EXCEPT ![t] = r]
  BY DEF Io!MapMemory, Io!Goto
<1>2. r.step \notin {"rewind", "fill", "claim"} /\ file' = file /\ maps' = maps /\ views' = views
  BY <1>1 DEF Io!MapMemory
<1>3. Bystander(t)
  BY <1>1, <1>2, StandsBy DEF FileInv
<1>4. QED
  BY <1>3, MapsStand

LEMMA ViewMapped ==
    ASSUME Io!FileAssumption, FileInv, MapInv, NEW t \in Threads, NEW i \in 1..MAPPINGS, NEW off \in 0..2,
           NEW bytes \in 0..1, Io!MapViewOfFile(t, i, off, bytes)
    PROVE  MapInv'
<1>1. file' = file /\ filecall' = filecall /\ maps' = maps /\ maps[i].used
      /\ views' = views \cup {[map |-> i, off |-> off, claim |-> maps[i].claims]}
  BY DEF Io!MapViewOfFile
<1>2. maps[i].size \in Nat
  BY DEF MapInv, MapEntry
<1>3. off < maps[i].size
  <2>1. CASE bytes = 0
    <3>1. off <= maps[i].size /\ off # maps[i].size
      BY <2>1 DEF Io!MapViewOfFile
    <3>2. QED
      BY <1>2, <3>1
  <2>2. CASE bytes # 0
    <3>1. off + bytes <= maps[i].size
      BY <2>2 DEF Io!MapViewOfFile
    <3>2. QED
      BY <1>2, <2>2, <3>1
  <2>3. QED
    BY <2>1, <2>2
<1>4. ViewsLead'
  <2>1. PICK n : n = [map |-> i, off |-> off, claim |-> maps[i].claims]
    OBVIOUS
  <2>2. n.map = i /\ n.off = off /\ n.claim = maps[i].claims /\ maps[i].claims # 0
    BY <1>1, <2>1 DEF MapInv, ClaimsCounted
  <2>3. Io!UnmapFinds(n)
    BY <1>1, <1>3, <2>2 DEF Io!UnmapFinds
  <2>4. \A v \in views \cup {n} : v.map \in 1..MAPPINGS /\ maps[v.map].claims # 0
                                 /\ (maps[v.map].claims = 1 => Io!UnmapFinds(v))
    BY <2>2, <2>3 DEF MapInv, ViewsLead
  <2>5. QED
    BY <1>1, <2>1, <2>4 DEF ViewsLead, Io!UnmapFinds
<1>5. (maps \in [1..MAPPINGS -> MapEntry])' /\ MapsHold' /\ ClaimsCounted'
  BY <1>1 DEF MapInv, MapsHold, ClaimsCounted
<1>6. \A u \in Threads : Filling(filecall[u])'
  BY <1>1 DEF MapInv, Filling, FillOK, Whole
<1>7. QED
  BY <1>4, <1>5, <1>6 DEF MapInv

LEMMA MapNext ==
    ASSUME Io!FileAssumption, FileInv, MapInv, [Io!Next]_(Io!vars)
    PROVE  MapInv'
<1>1. CASE UNCHANGED Io!vars
  <2>1. file' = file /\ filecall' = filecall /\ maps' = maps /\ views' = views
    BY <1>1 DEF Io!vars
  <2>2. \A u \in Threads : Filling(filecall[u])'
    BY <2>1 DEF MapInv, Filling, FillOK, Whole
  <2>3. QED
    BY <2>1, <2>2, MapsSame DEF MapInv
<1>2. CASE Io!Next
  BY <1>2, BystanderFiles, BystanderOpens, BystanderCopies, MapsStand, MappingStarts, MappingRewinds,
     MappingFills, MappingClaims, MemoryStarts, MemoryClaims, ViewMapped DEF Io!Next
<1>3. QED
  BY <1>1, <1>2

\* A file mapping shows the bytes of the file it was made of last, from the first on however
\* the handle had been used and whatever other threads read and map meanwhile; and
\* UnmapViewOfFile finds the mapping of every view that was handed out, if the mapping's
\* entry was given to one call (two that overlap may be given the same).
THEOREM MappingsHoldTheirFile ==
    ASSUME Io!FileAssumption
    PROVE  Io!Spec => [](Io!TypeOK /\ Io!MappingHoldsFile /\ Io!ViewsUnmap)
<1>1. Io!Init => FileInv /\ MapInv
  <2> SUFFICES ASSUME Io!Init PROVE FileInv /\ MapInv
    OBVIOUS
  <2>1. /\ filecall = [t \in Threads |-> Io!NoCall] /\ maps = [i \in 1..MAPPINGS |-> Io!NoMap] /\ views = {}
    BY DEF Io!Init
  <2>2. Io!NoMap \in MapEntry /\ ~Io!NoMap.used
    BY DEF Io!NoMap, MapEntry
  <2>3. \A t \in Threads : filecall[t] \notin Mapping
    BY <2>1, NoStep DEF Mapping
  <2>4. maps \in [1..MAPPINGS -> MapEntry] /\ MapsHold /\ ClaimsCounted /\ ViewsLead
    BY <2>1, <2>2 DEF MapsHold, ClaimsCounted, ViewsLead
  <2>5. QED
    BY <2>3, <2>4, FileInit DEF MapInv, Filling
<1>2. FileInv /\ MapInv /\ [Io!Next]_(Io!vars) => (FileInv /\ MapInv)'
  BY FileNext, MapNext
<1>3. FileInv /\ MapInv => Io!TypeOK /\ Io!MappingHoldsFile /\ Io!ViewsUnmap
  <2> SUFFICES ASSUME FileInv, MapInv PROVE Io!TypeOK /\ Io!MappingHoldsFile /\ Io!ViewsUnmap
    OBVIOUS
  <2>1. Io!TypeOK
    <3>1. \A h \in Io!Handles \ Io!FreeHandles : file[h] \in OpenFile
      BY DEF FileInv, FileTypes, Io!FreeHandles
    <3>2. \A h \in Io!Handles \ Io!FreeHandles :
            file[h].name \in Io!Files /\ file[h].pos \in Nat /\ file[h].owner \in Threads \cup {"call", "std"}
      BY <3>1 DEF OpenFile
    <3>3. \A i \in 1..MAPPINGS : maps[i].used \in BOOLEAN /\ maps[i].size \in Nat
      BY DEF MapInv, MapEntry
    <3>4. QED
      BY <3>2, <3>3 DEF Io!TypeOK, FileInv, FileTypes, StdValues
  <2>2. ASSUME NEW i \in 1..MAPPINGS, maps[i].used, maps[i].name \in Io!Disk
        PROVE  maps[i].data = SubSeq(Io!Contents(maps[i].name), 1, Io!Min({maps[i].size, SizeOf[maps[i].name]}))
    <3>1. PICK f : f = maps[i].name
      OBVIOUS
    <3>2. PICK n : n = Io!Min({maps[i].size, SizeOf[f]})
      OBVIOUS
    <3>3. SizeOf[f] \in Nat /\ maps[i].size \in Nat
      BY <2>2, <3>1 DEF Io!FileAssumption, Io!Disk, MapInv, MapEntry
    <3>4. n \in Nat /\ n <= SizeOf[f]
      BY <3>2, <3>3, LesserOf
    <3>5. maps[i].data = Shown(f, n)
      BY <2>2, <3>1, <3>2 DEF MapInv, MapsHold
    <3>6. SubSeq(Io!Contents(f), 1, n) = Shown(f, n)
      BY <3>3, <3>4 DEF Io!Contents, Shown
    <3>7. QED
      BY <3>1, <3>2, <3>5, <3>6
  <2>3. Io!MappingHoldsFile
    BY <2>2 DEF Io!MappingHoldsFile
  <2>4. QED
    BY <2>1, <2>3 DEF MapInv, ViewsLead, Io!ViewsUnmap
<1>4. QED
  BY <1>1, <1>2, <1>3, PTL DEF Io!Spec
=============================================================================
