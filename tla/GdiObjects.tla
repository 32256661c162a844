----------------------------- MODULE GdiObjects -----------------------------
(***************************************************************************)
(* The GDI objects of kernel/win32k/gdiobj.c: the handle table and the     *)
(* cells shared with gdi32, attribute blocks of device contexts, bitmaps   *)
(* and their pool storage, selection into a device context, and the cache  *)
(* of window device contexts behind GetDC and BeginPaint.  Services run    *)
(* with interrupts masked, so each is one step.                            *)
(*                                                                         *)
(* A handle is <<type, index>>; index 0 stands for no object.              *)
(***************************************************************************)
EXTENDS Integers, FiniteSets

CONSTANTS GDI_MAX_OBJECTS,  \* indices 1..GDI_MAX_OBJECTS-1 are handed out
          Attrs,            \* DC_ATTR blocks in the arena
          Blocks,           \* pool blocks that bitmaps may get
          Windows,          \* windows GetDC is called for; 0 is the screen
          W32K_DC_CACHE,
          Colors,
          Kinds             \* the other object types: pens, fonts, regions

GdiAssumption ==
  /\ GDI_MAX_OBJECTS \in Nat \ {0, 1} /\ Attrs \in Nat /\ W32K_DC_CACHE \in Nat \ {0}
  /\ Windows \subseteq Nat /\ Kinds \cap {"dc", "bitmap", "brush", "free"} = {}

VARIABLES objects,   \* g_gdi_objects
          cells,     \* the shared table: [type, user]
          next,      \* g_gdi_next_index
          attr,      \* attribute blocks handed out
          storage,   \* pool blocks in use by bitmaps
          cache,     \* g_window_dc
          gfx,       \* GfxAvailable(): the boot found a framebuffer
          alive,     \* windows not yet destroyed
          failed     \* ghost: what the last service found no handle for: a context ("dc"),
                     \* one on the screen that is not there ("screen"), or an "object"

vars == <<objects, cells, next, attr, storage, cache, gfx, alive, failed>>

Indices == 1..(GDI_MAX_OBJECTS - 1)
Types == {"dc", "bitmap", "brush"} \cup Kinds
NoHandle == <<"free", 0>>
Handles == Types \X Indices
NoCell == [type |-> "free", user |-> 0]

\* What the union of an object holds; a field another type has no use for is empty.
Fresh(type) == [type |-> type, surface |-> 0, screen |-> FALSE, hwnd |-> 0,
                brush |-> NoHandle, bitmap |-> NoHandle, color |-> "", block |-> 0]

Init ==
  /\ objects = [i \in Indices |-> Fresh("free")]
  /\ cells = [i \in Indices |-> NoCell]
  /\ next = 1 /\ attr = 0 /\ storage = {}
  /\ cache = [s \in 0..(W32K_DC_CACHE - 1) |-> NoHandle]
  /\ gfx \in BOOLEAN /\ alive = Windows /\ failed = "none"

\* gdi_object
Is(handle, type) ==
  handle[2] \in Indices /\ handle[1] = type /\ objects[handle[2]].type = type

(***************************************************************************)
(* gdi_allocate looks at every index once, from the one after the last it  *)
(* gave out; GDI_MAX_OBJECTS tries over one index fewer leave a full table *)
(* one index further on.                                                   *)
(***************************************************************************)
After(i) == IF i + 1 >= GDI_MAX_OBJECTS THEN 1 ELSE i + 1

Distance(i) == IF i >= next THEN i - next ELSE i - next + GDI_MAX_OBJECTS - 1

FreeIndices == {i \in Indices : objects[i].type = "free"}

FirstFree ==
  IF FreeIndices = {} THEN 0
  ELSE CHOOSE i \in FreeIndices : \A j \in FreeIndices : Distance(i) <= Distance(j)

Asked(object) == IF object.type = "dc" THEN "dc" ELSE "object"

gdi_allocate(object, user) ==
  LET i == FirstFree
  IN IF i = 0 THEN next' = After(next) /\ failed' = Asked(object) /\ UNCHANGED <<objects, cells>>
     ELSE /\ objects' = [objects EXCEPT ![i] = object]
          /\ cells' = [cells EXCEPT ![i] = [type |-> object.type, user |-> user]]
          /\ next' = After(i) /\ failed' = "none"

\* What the code leaves in a free object is never read through a handle, so it is
\* dropped here.
gdi_free(i) ==
  /\ objects' = [objects EXCEPT ![i] = Fresh("free")]
  /\ cells' = [cells EXCEPT ![i] = NoCell]

(***************************************************************************)
(* Device contexts.  The attribute block is taken first and is not given   *)
(* back, whether or not there is a handle for it.                          *)
(***************************************************************************)
gdi_allocate_attr == IF attr < Attrs THEN attr + 1 ELSE 0

CreateDc(dc) ==
  /\ attr' = IF gdi_allocate_attr = 0 THEN attr ELSE gdi_allocate_attr
  /\ IF gdi_allocate_attr = 0 THEN failed' = "dc" /\ UNCHANGED <<objects, cells, next>>
     ELSE gdi_allocate(dc, gdi_allocate_attr)

NtGdiCreateCompatibleDC ==
  /\ CreateDc(Fresh("dc"))
  /\ UNCHANGED <<storage, cache, alive>>

SlotOf(hwnd) == IF hwnd >= W32K_DC_CACHE THEN 0 ELSE hwnd
WindowDc(hwnd) == [Fresh("dc") EXCEPT !.screen = TRUE, !.hwnd = hwnd]
Cached(hwnd) ==
  LET h == cache[SlotOf(hwnd)] IN Is(h, "dc") /\ objects[h[2]].hwnd = hwnd

W32kCreateWindowDc(hwnd) ==
  IF gfx THEN CreateDc(WindowDc(hwnd))
  ELSE failed' = "screen" /\ UNCHANGED <<objects, cells, next, attr>>

\* A cached context only has its geometry refreshed, which GdiDraw is about.
W32kAcquireWindowDc(hwnd) ==
  IF Cached(hwnd) THEN failed' = "none" /\ UNCHANGED <<objects, cells, next, attr, storage, cache, alive>>
  ELSE /\ W32kCreateWindowDc(hwnd)
       /\ cache' = IF ~gfx \/ FirstFree = 0 \/ gdi_allocate_attr = 0 THEN cache
                   ELSE [cache EXCEPT ![SlotOf(hwnd)] = <<"dc", FirstFree>>]
       /\ UNCHANGED <<storage, alive>>

\* NtUserGetDC and NtUserBeginPaint
NtUserGetDC(hwnd) == hwnd \in alive \cup {0} /\ W32kAcquireWindowDc(hwnd)

\* The window goes; nothing here calls W32kDestroyWindowDc.
NtUserDestroyWindow(hwnd) ==
  /\ hwnd \in alive \ {0}
  /\ alive' = alive \ {hwnd} /\ failed' = "none"
  /\ UNCHANGED <<objects, cells, next, attr, storage, cache>>

(***************************************************************************)
(* Brushes, the kinds that are no more than a handle, and bitmaps.         *)
(***************************************************************************)
NtGdiCreateSolidBrush(color) ==
  /\ gdi_allocate([Fresh("brush") EXCEPT !.color = color], 0)
  /\ UNCHANGED <<attr, storage, cache, alive>>

\* NtGdiCreatePen, NtGdiHfontCreate and NtGdiCreateRectRgn
CreateKind(kind) ==
  /\ gdi_allocate(Fresh(kind), 0)
  /\ UNCHANGED <<attr, storage, cache, alive>>

\* Faulty gdi_create_bitmap: the pixels stay allocated when there is no handle.
CreateBitmapLeaks(b) ==
  /\ b \in Blocks \ storage
  /\ gdi_allocate([Fresh("bitmap") EXCEPT !.block = b], 0)
  /\ storage' = storage \cup {b}
  /\ UNCHANGED <<attr, cache, alive>>

gdi_create_bitmap(b) ==
  /\ b \in Blocks \ storage
  /\ gdi_allocate([Fresh("bitmap") EXCEPT !.block = b], 0)
  /\ storage' = IF FirstFree = 0 THEN storage ELSE storage \cup {b}
  /\ UNCHANGED <<attr, cache, alive>>

\* Only the index of the handle is looked at.
NtGdiDeleteObjectApp(handle) ==
  /\ objects[handle[2]].type # "free"
  /\ gdi_free(handle[2])
  /\ storage' = IF objects[handle[2]].type = "bitmap"
                THEN storage \ {objects[handle[2]].block} ELSE storage
  /\ failed' = "none"
  /\ UNCHANGED <<next, attr, cache, alive>>

(***************************************************************************)
(* Selection.  A context's surface is a pointer into the bitmap's object.  *)
(***************************************************************************)
NtGdiSelectBitmap(hdc, bitmap) ==
  /\ Is(hdc, "dc") /\ Is(bitmap, "bitmap")
  /\ objects' = [objects EXCEPT ![hdc[2]].bitmap = bitmap, ![hdc[2]].surface = bitmap[2],
                                ![hdc[2]].screen = FALSE]
  /\ failed' = "none"
  /\ UNCHANGED <<cells, next, attr, storage, cache, alive>>

NtGdiSelectBrush(hdc, brush) ==
  /\ Is(hdc, "dc") /\ Is(brush, "brush")
  /\ objects' = [objects EXCEPT ![hdc[2]].brush = brush]
  /\ failed' = "none"
  /\ UNCHANGED <<cells, next, attr, storage, cache, alive>>

\* dc_brush_color: the selected brush if it is still there, else the context's own.
dc_brush_color(i) ==
  IF Is(objects[i].brush, "brush") THEN objects[objects[i].brush[2]].color ELSE "attr"

Next ==
  /\ UNCHANGED gfx
  /\ \/ NtGdiCreateCompatibleDC
     \/ \E hwnd \in Windows \cup {0} : NtUserGetDC(hwnd) \/ NtUserDestroyWindow(hwnd)
     \/ \E color \in Colors : NtGdiCreateSolidBrush(color)
     \/ \E kind \in Kinds : CreateKind(kind)
     \/ \E b \in Blocks : gdi_create_bitmap(b)
     \/ \E handle \in Handles : NtGdiDeleteObjectApp(handle)
     \/ \E i, j \in Indices : \/ NtGdiSelectBitmap(<<"dc", i>>, <<"bitmap", j>>)
                              \/ NtGdiSelectBrush(<<"dc", i>>, <<"brush", j>>)

Spec == Init /\ [][Next]_vars

(***************************************************************************)
(* Properties.                                                             *)
(***************************************************************************)
Live(type) == {i \in Indices : objects[i].type = type}

\* The table and its cells describe the same objects, whatever was allocated, freed
\* and allocated again in a slot (gdi_allocate, gdi_free).
TypeOK ==
  /\ \A i \in Indices : objects[i].type \in Types \cup {"free"} /\ objects[i].type = cells[i].type
  /\ next \in Indices /\ attr \in 0..Attrs
  /\ storage \subseteq Blocks /\ alive \subseteq Windows

\* Every block of bitmap pixels belongs to one live bitmap: none is lost when there is
\* no handle for it, and none is freed twice (gdi_create_bitmap, NtGdiDeleteObjectApp).
StorageOwned ==
  /\ storage = {objects[i].block : i \in Live("bitmap")}
  /\ \A i, j \in Live("bitmap") : objects[i].block = objects[j].block => i = j

\* Each live context has an attribute block of its own, which gdi32 writes without
\* entering the kernel; no other object is given one (gdi_allocate_attr).
AttrPrivate ==
  /\ \A i \in Indices : (objects[i].type = "dc") = (cells[i].user # 0)
  /\ \A i, j \in Live("dc") : cells[i].user = cells[j].user => i = j

\* A service finds no handle only when every index is taken; or, for a context, when every
\* attribute block has been handed out, or for a window when there is no framebuffer
\* (gdi_allocate, gdi_allocate_attr, W32kCreateWindowDc).
FailsOnlyWhenFull ==
  failed # "none" => \/ FreeIndices = {}
                     \/ failed = "dc" /\ attr = Attrs
                     \/ failed = "screen" /\ ~gfx

\* A context is refused only when there are as many as there are attribute blocks: not
\* so, because the block of a deleted context is not handed out again.
AttrsReturn == failed = "dc" => FreeIndices = {} \/ Cardinality(Live("dc")) = Attrs

\* "hands the same one back for repeated GetDC calls on a window": a window inside the
\* cache has at most one live context (W32kAcquireWindowDc); the others share slot 0.
OneDcPerWindow ==
  \A i, j \in Live("dc") :
    objects[i].hwnd = objects[j].hwnd /\ objects[i].hwnd \in 1..(W32K_DC_CACHE - 1) => i = j

\* The pool blocks in use are those of the bitmaps, no two contexts share an attribute
\* block, a window inside the cache has one context, and a service finds no handle only
\* when the table is full, the attribute blocks are used up (they are not given back), or
\* there is no framebuffer (gdi_create_bitmap, gdi_free, W32kAcquireWindowDc).
GdiOwned ==
  TypeOK /\ StorageOwned /\ AttrPrivate /\ FailsOnlyWhenFull /\ OneDcPerWindow

\* "Drop a window's cached device context (on window destruction)."
DestroyedHaveNoDc ==
  \A i \in Live("dc") : objects[i].hwnd \in alive \cup {0}

\* "binds the memory DC to the bitmap's pixels": a context that has a bitmap selected
\* draws into the pixels of that bitmap, and the bitmap is there.
SurfaceIsSelected ==
  \A i \in Live("dc") : objects[i].surface # 0 =>
    /\ Is(objects[i].bitmap, "bitmap")
    /\ objects[objects[i].surface].block \in storage

\* "The colour a fill uses: the selected brush, or the DC brush colour cached in
\* DC_ATTR when nothing has been selected."
FillUsesSelected ==
  \A i \in Live("dc") : (dc_brush_color(i) = "attr") = (objects[i].brush = NoHandle)
=============================================================================
