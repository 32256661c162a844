------------------------------ MODULE MCWin32k ------------------------------
(***************************************************************************)
(* Small instances of the parts behind the windows: the input devices and  *)
(* the thread that reads them, the tables of the USER services, the GDI    *)
(* objects, and what the GDI services draw.  The parts do not interact     *)
(* here; `part` says which one runs, and what TLC explores is the union of *)
(* their state graphs.                                                     *)
(*                                                                         *)
(* Keyboard: a ring of three slots, and more keys than it holds.  Mouse:   *)
(* bytes that tell every branch of the packet decoder apart: movements     *)
(* both ways, an overflowed packet, bytes with and without bit 3 (256 is   *)
(* scaled down to 2).  Tables: two names, one of them in two               *)
(* capitalisations, and one of more than 63 characters, without windows;   *)
(* or two windows with longs, at indices inside the slot, one that leads   *)
(* to its head and one that leads to the slot before; or properties and    *)
(* cursors, two keys and a full table.  Objects: three indices, so that    *)
(* slots are reused and the table fills up, with and without a screen.     *)
(* Drawing: a surface of three by three pixels; contexts that cover it,    *)
(* that begin off it on either side, and one of no width.                  *)
(***************************************************************************)
EXTENDS GdiObjects, Input, Sequences

VARIABLES part,
          atoms, classes, props, windows, arena, slots, cursors, ids,   \* UserTables
          procs, longs,
          dc, cur, bits, opaque, line, last                             \* GdiDraw

Byte(bit3, over, neg, buttons, val) ==
  [bit3 |-> bit3, over |-> over, sx |-> neg, sy |-> neg, buttons |-> buttons, val |-> val]
SomeBytes ==
  {Byte(TRUE, FALSE, FALSE, 1, 0), Byte(TRUE, FALSE, TRUE, 0, 1),
   Byte(TRUE, TRUE, FALSE, 0, 1), Byte(FALSE, FALSE, FALSE, 0, 1)}

Keyboard == INSTANCE Input WITH MouseBytes <- {}, MaxMoves <- 0
Mouse == INSTANCE Input WITH Scancodes <- {"letter"}, MaxTyped <- 1

Lower(name) == <<name, "", "", "lower">>
Tables == INSTANCE UserTables WITH
  Names <- {Lower("x"), <<"x", "", "", "upper">>, Lower("y"), <<"x", "m", "r", "lower">>},
  Rooms <- {"fit", "loose"},
  Procs <- {"p", "q"}, Keys <- {"k"}, Values <- {"u", "v"}, Indexes <- {-2, -1},
  USER_MAX_ATOMS <- 3, USER_MAX_CLASSES <- 2, USER_MAX_PROPS <- 1, USER_CURSOR_CACHE <- 1,
  MaxWindow <- 0, MaxObjects <- 0, SlotWords <- 5, LongBase <- 2, LongCount <- 2,
  objects <- slots
Longs == INSTANCE UserTables WITH
  Names <- {Lower("x")}, Rooms <- {"fit"},
  Procs <- {"p"}, Keys <- {}, Values <- {"u", "v"}, Indexes <- {-2, 1, 3},
  USER_MAX_ATOMS <- 1, USER_MAX_CLASSES <- 1, USER_MAX_PROPS <- 0, USER_CURSOR_CACHE <- 0,
  MaxWindow <- 2, MaxObjects <- 0, SlotWords <- 5, LongBase <- 2, LongCount <- 2,
  objects <- slots
Props == INSTANCE UserTables WITH
  Names <- {Lower("x")}, Rooms <- {"fit"},
  Procs <- {"p"}, Keys <- {"k", "l"}, Values <- {"u", "v"}, Indexes <- {},
  USER_MAX_ATOMS <- 1, USER_MAX_CLASSES <- 1, USER_MAX_PROPS <- 2, USER_CURSOR_CACHE <- 1,
  MaxWindow <- 1, MaxObjects <- 2, SlotWords <- 5, LongBase <- 2, LongCount <- 2,
  objects <- slots

Area == INSTANCE GdiDraw WITH
  Width <- 3, Height <- 3, SourceWidth <- 2, SourceHeight <- 2,
  Geometries <- {<<0, 0, 3, 3>>, <<-1, 0, 3, 2>>, <<1, 1, 3, 3>>, <<0, 1, -1, 2>>},
  Origins <- {<<0, 0>>, <<1, 1>>}, Xs <- {-1, 0, 1}, Ys <- {-1, 0, 1}, Sizes <- {-1, 1, 3},
  Glyph <- {<<0, 0>>, <<1, 1>>}, CellWidth <- 2, CellHeight <- 2, MaxCount <- 2
Line == INSTANCE GdiDraw WITH
  Width <- 3, Height <- 3, SourceWidth <- 2, SourceHeight <- 2,
  Geometries <- {<<0, 0, 3, 3>>, <<-1, 1, 3, 2>>},
  Origins <- {}, Xs <- -2..3, Ys <- -2..3, Sizes <- {0, 1, 2},
  Glyph <- {<<0, 0>>, <<1, 1>>}, CellWidth <- 2, CellHeight <- 2, MaxCount <- 2

ASSUME /\ InputAssumption /\ GdiAssumption
       /\ Tables!TablesAssumption /\ Longs!TablesAssumption /\ Props!TablesAssumption
       /\ Area!DrawAssumption /\ Line!DrawAssumption

tables == <<atoms, classes, props, windows, arena, slots, cursors, ids, procs, longs>>
surface == <<dc, cur, bits, opaque, line, last>>

\* A part that does not run stays in one of its initial states.
MCInit ==
  /\ part \in {"keyboard", "mouse", "tables", "windows", "props", "objects", "area", "line"}
  /\ DeviceInit /\ Init
  /\ CASE part = "windows" -> Longs!Init [] part = "props" -> Props!Init [] OTHER -> Tables!Init
  /\ IF part = "line" THEN Line!Init ELSE Area!Init
  /\ part # "objects" => gfx = TRUE
  /\ part \notin {"line", "area"} => dc = Area!Context(<<0, 0, 3, 3>>)

MCNext ==
  /\ UNCHANGED part
  /\ \/ part = "keyboard" /\ Keyboard!DeviceNext /\ UNCHANGED <<tables, vars, surface>>
     \/ part = "mouse" /\ Mouse!DeviceNext /\ UNCHANGED <<tables, vars, surface>>
     \/ part = "tables" /\ Tables!Next /\ UNCHANGED <<devices, vars, surface>>
     \/ part = "windows" /\ Longs!Next /\ UNCHANGED <<devices, vars, surface>>
     \/ part = "props" /\ Props!Next /\ UNCHANGED <<devices, vars, surface>>
     \/ part = "objects" /\ Next /\ UNCHANGED <<devices, tables, surface>>
     \/ part = "area" /\ Area!AreaNext /\ UNCHANGED <<devices, tables, vars>>
     \/ part = "line" /\ Line!LineNext /\ UNCHANGED <<devices, tables, vars>>

\* The input thread is always ready, and ready threads run (ReadyThreadRuns of
\* Dispatcher); a line is drawn without leaving the kernel.
Fairness ==
  /\ WF_devices(part = "keyboard" /\ Keyboard!InputWorker)
  /\ WF_devices(part = "mouse" /\ Mouse!InputWorker)
  /\ WF_surface(part = "line" /\ Line!LineStep)

MCSpec == MCInit /\ [][MCNext]_<<part, devices, tables, vars, surface>> /\ Fairness
-----------------------------------------------------------------------------
\* No two atoms stand for one name, a class is known by the atom of its name unless the
\* table is full, one name of up to 63 characters gets one message id (KiUserAddAtom,
\* NtUserRegisterClassExWOW, NtUserRegisterWindowMessage); a window's longs are the ones set
\* last, and its head is its own, wherever no index of 0 or more led (NtUserSetWindowLong).
TablesSound ==
  /\ part = "tables" =>
       /\ Tables!TypeOK /\ Tables!AtomsDistinct
       /\ Tables!ClassInternedOrFull /\ Tables!ShortNameSameId
  /\ part = "windows" => Longs!TypeOK /\ Longs!LongsKept /\ Longs!HeadsKept
  /\ part = "props" => Props!TypeOK

\* A fill paints its rectangle inside the clip box and nothing else (NtGdiPatBlt), a
\* blit copies the pixels that both surfaces have (NtGdiBitBlt), and a line stays inside
\* the clip box and within half a pixel of the ideal one (NtGdiLineTo).
DrawsExactly ==
  /\ part = "area" => Area!TypeOK /\ Area!FillsExactly /\ Area!BlitCopies
  /\ part = "line" => Line!TypeOK /\ Line!DrawsInsideClip /\ Line!LineNearIdeal

\* Typed characters are taken, the last motion is forwarded (InputWorker), and a line
\* comes to its end (NtGdiLineTo).
WorkEnds ==
  /\ part = "keyboard" => Keyboard!InputIsTaken
  /\ part = "mouse" => Mouse!InputIsTaken
  /\ part = "line" => Line!LineEnds
=============================================================================
