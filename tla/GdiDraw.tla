------------------------------- MODULE GdiDraw -------------------------------
(***************************************************************************)
(* The drawing services of kernel/win32k/gdiobj.c on one device context:   *)
(* clipping, fills, lines, rectangles, blits and text.                     *)
(*                                                                         *)
(* bits is the context's surface as a service leaves it, relative to how   *)
(* it found it: a pixel is a colour the service painted or the place its   *)
(* value was in before the service, <<"dst", x, y>> on this surface and    *)
(* <<"src", x, y>> on the source of a blit.  A colour is <<c, 0, 0>>.      *)
(***************************************************************************)
EXTENDS Integers, FiniteSets

CONSTANTS Width, Height,        \* of the surface
          SourceWidth, SourceHeight,
          Geometries,           \* <<x, y, w, h>> W32kAcquireWindowDc is called with
          Origins,              \* <<x, y>> of contexts that are the source of a blit
          Xs, Ys, Sizes,        \* coordinates and extents of the calls
          Glyph,                \* the pixels of a character cell that are set
          CellWidth, CellHeight, MaxCount

DrawAssumption ==
  /\ \A n \in {Width, Height, SourceWidth, SourceHeight, CellWidth, CellHeight} : n \in Nat \ {0}
  /\ Xs \subseteq Int /\ Ys \subseteq Int /\ Sizes \subseteq Int /\ MaxCount \in Nat
  /\ Glyph \subseteq (0..(CellWidth - 1)) \X (0..(CellHeight - 1))

VARIABLES dc,     \* [x, y: where (0,0) of the context lands; cx, cy, cw, ch: the clip box]
          cur,    \* the current position
          bits,   \* the surface
          opaque, \* the background mode gdi32 keeps in DC_ATTR
          line,   \* the line being drawn: [on, x, y, err], and where it began and ends
          last    \* ghost: the service that has just drawn, and its arguments

vars == <<dc, cur, bits, opaque, line, last>>

Pixels == (0..(Width - 1)) \X (0..(Height - 1))
Same == [p \in Pixels |-> <<"dst", p[1], p[2]>>]
Color(c) == <<c, 0, 0>>
Nothing == [op |-> "none", x |-> 0, y |-> 0, w |-> 0, h |-> 0, sx |-> 0, sy |-> 0, on |-> FALSE]
NoLine == [on |-> FALSE, x |-> 0, y |-> 0, err |-> 0, from |-> <<0, 0>>, to |-> <<0, 0>>]
Call(op, x, y, w, h, sx, sy, on) ==
  [op |-> op, x |-> x, y |-> y, w |-> w, h |-> h, sx |-> sx, sy |-> sy, on |-> on]

Context(g) ==
  [x |-> g[1], y |-> g[2], cx |-> g[1], cy |-> g[2],
   cw |-> IF g[3] < 0 THEN 0 ELSE g[3], ch |-> IF g[4] < 0 THEN 0 ELSE g[4]]

Init ==
  /\ \E g \in Geometries : dc = Context(g)
  /\ cur = <<0, 0>> /\ bits = Same /\ opaque = FALSE /\ line = NoLine /\ last = Nothing

Larger(a, b) == IF a > b THEN a ELSE b
Smaller(a, b) == IF a < b THEN a ELSE b
Abs(n) == IF n < 0 THEN -n ELSE n

(***************************************************************************)
(* Clipping: a rectangle is [x, y, w, h], empty when nothing is left.      *)
(***************************************************************************)
Empty == [x |-> 0, y |-> 0, w |-> 0, h |-> 0]

dc_clip(x, y, w, h) ==
  LET left == Larger(dc.x + x, dc.cx)
      top == Larger(dc.y + y, dc.cy)
      right == Smaller(dc.x + x + w, dc.cx + dc.cw)
      bottom == Smaller(dc.y + y + h, dc.cy + dc.ch)
  IN IF right <= left \/ bottom <= top THEN Empty
     ELSE [x |-> left, y |-> top, w |-> right - left, h |-> bottom - top]

surface_fill(r) ==
  LET x == Larger(r.x, 0) y == Larger(r.y, 0)
      w0 == IF r.x < 0 THEN r.w + r.x ELSE r.w
      h0 == IF r.y < 0 THEN r.h + r.y ELSE r.h
      w == IF x + w0 > Width THEN Width - x ELSE w0
      h == IF y + h0 > Height THEN Height - y ELSE h0
  IN IF r.w <= 0 \/ r.h <= 0 \/ x >= Width \/ y >= Height \/ w <= 0 \/ h <= 0 THEN {}
     ELSE {p \in Pixels : p[1] \in x..(x + w - 1) /\ p[2] \in y..(y + h - 1)}

Paint(to, ps, color) == [p \in Pixels |-> IF p \in ps THEN color ELSE to[p]]
dc_fill(to, x, y, w, h, color) == Paint(to, surface_fill(dc_clip(x, y, w, h)), color)

\* Faulty dc_pixel: only the surface bounds it.
PixelUnclipped(to, x, y, color) == Paint(to, {<<dc.x + x, dc.y + y>>} \cap Pixels, color)

\* surface_pixel of a clipped single pixel
dc_pixel(to, x, y, color) ==
  LET r == dc_clip(x, y, 1, 1) IN
  Paint(to, IF r = Empty THEN {} ELSE {<<r.x, r.y>>} \cap Pixels, color)

(***************************************************************************)
(* Services.  Drawn ends a service; Return is the way back to the caller,  *)
(* after which the surface is again what it is.                            *)
(***************************************************************************)
Idle == ~line.on /\ last = Nothing
Drawn(call, result) ==
  /\ Idle
  /\ last' = call /\ bits' = result
  /\ UNCHANGED <<dc, opaque, line>>

Return ==
  /\ last # Nothing
  /\ last' = Nothing /\ bits' = Same
  /\ UNCHANGED <<dc, cur, opaque, line>>

W32kAcquireWindowDc(g) ==
  /\ Idle /\ dc' = Context(g)
  /\ UNCHANGED <<cur, bits, opaque, line, last>>

\* External: gdi32's SetBkMode writes DC_ATTR without entering the kernel.
SetBkMode == Idle /\ opaque' = ~opaque /\ UNCHANGED <<dc, cur, bits, line, last>>

NtGdiPatBlt(x, y, w, h) ==
  /\ Drawn(Call("pat", x, y, w, h, 0, 0, FALSE), dc_fill(Same, x, y, w, h, Color("brush")))
  /\ UNCHANGED cur

NtGdiSetPixel(x, y) ==
  /\ Drawn(Call("pixel", x, y, 1, 1, 0, 0, FALSE), dc_pixel(Same, x, y, Color("brush")))
  /\ UNCHANGED cur

NtGdiMoveTo(x, y) == Idle /\ cur' = <<x, y>> /\ UNCHANGED <<dc, bits, opaque, line, last>>

NtGdiRectangle(left, top, right, bottom, hollow) ==
  LET fill == dc_fill(Same, left, top, right - left, bottom - top, Color("brush"))
      n == dc_fill(fill, left, top, right - left, 1, Color("pen"))
      s == dc_fill(n, left, bottom - 1, right - left, 1, Color("pen"))
      w == dc_fill(s, left, top, 1, bottom - top, Color("pen"))
      e == dc_fill(w, right - 1, top, 1, bottom - top, Color("pen"))
  IN /\ right >= left /\ bottom >= top
     /\ Drawn(Call("rect", left, top, right - left, bottom - top, 0, 0, hollow),
              IF hollow THEN fill ELSE e)
     /\ UNCHANGED cur

(***************************************************************************)
(* Blits copy pixel by pixel in scan order.  The source context draws on   *)
(* another surface or, when own is true, on this one; its origin may be    *)
(* that of any window.  A call keeps where the source lies on its surface. *)
(***************************************************************************)
BlitPixel(to, call, own, k) ==
  LET col == k % call.w
      row == k \div call.w
      sx == call.sx + col
      sy == call.sy + row
      value == IF own THEN to[<<sx, sy>>] ELSE <<"src", sx, sy>>
  IN IF \/ sx < 0 \/ sy < 0
        \/ sx >= (IF own THEN Width ELSE SourceWidth)
        \/ sy >= (IF own THEN Height ELSE SourceHeight) THEN to
     ELSE dc_pixel(to, call.x + col, call.y + row, value)

Blitted(call, own) ==
  LET after[k \in 0..(call.w * call.h)] ==
        IF k = 0 THEN Same ELSE BlitPixel(after[k - 1], call, own, k - 1)
  IN after[call.w * call.h]

NtGdiBitBlt(x, y, w, h, origin, sx, sy, own) ==
  LET call == Call("blt", x, y, w, h, origin[1] + sx, origin[2] + sy, own)
  IN /\ Drawn(call, IF w <= 0 \/ h <= 0 THEN Same ELSE Blitted(call, own))
     /\ UNCHANGED cur

\* NtGdiBitBlt without a source: BLACKNESS and WHITENESS fill the rectangle; any other
\* raster operation is refused, and nothing changes.
BitBltFills(x, y, w, h) ==
  /\ Drawn(Call("pat", x, y, w, h, 0, 0, TRUE), dc_fill(Same, x, y, w, h, Color("brush")))
  /\ UNCHANGED cur

\* The cell of character k, after the background has been filled when eto says so.
Glyphs(to, x, y, count, eto) ==
  LET at(p, k) == <<x + k * CellWidth + p[1], y + p[2]>>
      cell == (0..(CellWidth - 1)) \X (0..(CellHeight - 1))
      seen(ps) == {q \in Pixels : \E k \in 0..(count - 1), p \in ps :
                     LET r == dc_clip(at(p, k)[1], at(p, k)[2], 1, 1)
                     IN r # Empty /\ q = <<r.x, r.y>>}
      back == IF eto THEN Paint(to, seen(cell), Color("back")) ELSE to
  IN Paint(back, seen(Glyph), Color("text"))

NtGdiExtTextOutW(x, y, count, eto) ==
  /\ Drawn(Call("text", x, y, count * CellWidth, CellHeight, 0, 0, eto),
           Glyphs(IF eto THEN dc_fill(Same, x, y, count * CellWidth, CellHeight, Color("back"))
                  ELSE Same, x, y, count, eto))
  /\ UNCHANGED cur

(***************************************************************************)
(* Lines: the current position moves at once, then one pixel per turn of   *)
(* the loop.                                                               *)
(***************************************************************************)
NtGdiLineTo(x, y, hollow) ==
  /\ Idle
  /\ cur' = <<x, y>>
  /\ line' = IF hollow THEN NoLine
             ELSE [on |-> TRUE, x |-> cur[1], y |-> cur[2],
                   err |-> Abs(x - cur[1]) - Abs(y - cur[2]), from |-> cur, to |-> <<x, y>>]
  /\ UNCHANGED <<dc, bits, opaque, last>>

LineStep ==
  LET dx == Abs(line.to[1] - line.from[1]) dy == Abs(line.to[2] - line.from[2])
      sx == IF line.from[1] < line.to[1] THEN 1 ELSE -1
      sy == IF line.from[2] < line.to[2] THEN 1 ELSE -1
      right == 2 * line.err > -dy
      down == 2 * line.err < dx
  IN /\ line.on
     /\ IF <<line.x, line.y>> = line.to
        THEN line' = NoLine /\ last' = Call("line", 0, 0, 0, 0, 0, 0, FALSE)
        ELSE /\ line' = [line EXCEPT !.x = @ + (IF right THEN sx ELSE 0),
                                     !.y = @ + (IF down THEN sy ELSE 0),
                                     !.err = @ - (IF right THEN dy ELSE 0) + (IF down THEN dx ELSE 0)]
             /\ last' = last
     /\ bits' = dc_pixel(bits, line.x, line.y, Color("pen"))
     /\ UNCHANGED <<dc, cur, opaque>>

Fill == \E x \in Xs, y \in Ys, w, h \in Sizes : NtGdiPatBlt(x, y, w, h) \/ BitBltFills(x, y, w, h)
Outline == \E x, x1 \in Xs, y, y1 \in Ys, hollow \in BOOLEAN : NtGdiRectangle(x, y, x1, y1, hollow)
Blit == \E x, sx \in Xs, y, sy \in Ys, w, h \in Sizes, own \in BOOLEAN, origin \in Origins :
          NtGdiBitBlt(x, y, w, h, origin, sx, sy, own)
Text == \E x \in Xs, y \in Ys, count \in 0..MaxCount, eto \in BOOLEAN :
          NtGdiExtTextOutW(x, y, count, eto)
Lines == \E x \in Xs, y \in Ys : \/ NtGdiMoveTo(x, y) \/ NtGdiSetPixel(x, y)
                                 \/ \E hollow \in BOOLEAN : NtGdiLineTo(x, y, hollow)
Refresh == \E g \in Geometries : W32kAcquireWindowDc(g)

\* Rectangles, blits and text; lines and single pixels.
AreaNext == Return \/ Refresh \/ SetBkMode \/ Fill \/ Outline \/ Blit \/ Text
LineNext == Return \/ Refresh \/ Lines \/ LineStep

AreaSpec == Init /\ [][AreaNext]_vars
LineSpec == Init /\ [][LineNext]_vars /\ WF_vars(LineStep)

(***************************************************************************)
(* Properties.                                                             *)
(***************************************************************************)
TypeOK ==
  /\ cur[1] \in Xs \cup {0} /\ cur[2] \in Ys \cup {0}
  /\ DOMAIN bits = Pixels
  /\ dc.cw >= 0 /\ dc.ch >= 0 /\ opaque \in BOOLEAN /\ line.on \in BOOLEAN

InBox(x, y, x0, y0, w, h) == x \in x0..(x0 + w - 1) /\ y \in y0..(y0 + h - 1)
InClip(p) == InBox(p[1], p[2], dc.cx, dc.cy, dc.cw, dc.ch)

\* No service paints outside the clip box of its context (dc_clip, surface_fill).
DrawsInsideClip == \A p \in Pixels : bits[p] # Same[p] => InClip(p)

\* The reference for one pixel p of a service's result, in the context's coordinates.
Asked(c, p) == InBox(p[1] - dc.x, p[2] - dc.y, c.x, c.y, c.w, c.h)
Border(c, p) == Asked(c, p) /\ ~InBox(p[1] - dc.x, p[2] - dc.y, c.x + 1, c.y + 1, c.w - 2, c.h - 2)

\* A fill and a rectangle paint exactly the pixels asked for that lie inside the clip
\* box, the rectangle's border with the pen (NtGdiPatBlt, NtGdiRectangle).
FillsExactly ==
  last.op \in {"pat", "rect"} /\ last.w > 0 /\ last.h > 0 =>
    \A p \in Pixels :
      bits[p] = IF ~(Asked(last, p) /\ InClip(p)) THEN Same[p]
                ELSE IF last.op = "rect" /\ ~last.on /\ Border(last, p) THEN Color("pen")
                ELSE Color("brush")

\* A blit copies each pixel asked for that has a source: always from another surface,
\* and on its own surface as long as it does not move pixels forward in scan order,
\* where it would read what it has already written (NtGdiBitBlt).
BlitCopies ==
  LET w == IF last.on THEN Width ELSE SourceWidth
      h == IF last.on THEN Height ELSE SourceHeight
      x == dc.x + last.x
      y == dc.y + last.y
      from(p) == <<last.sx + p[1] - x, last.sy + p[2] - y>>
  IN last.op = "blt" /\ (last.on => y < last.sy \/ (y = last.sy /\ x <= last.sx)) =>
       \A p \in Pixels :
         bits[p] = IF Asked(last, p) /\ InClip(p) /\ InBox(from(p)[1], from(p)[2], 0, 0, w, h)
                   THEN <<IF last.on THEN "dst" ELSE "src", from(p)[1], from(p)[2]>> ELSE Same[p]

\* Every pixel of a line lies within half a pixel of the ideal one (NtGdiLineTo).
LineNearIdeal ==
  line.on =>
    LET dx == line.to[1] - line.from[1]
        dy == line.to[2] - line.from[2]
    IN 2 * Abs((line.x - line.from[1]) * dy - (line.y - line.from[2]) * dx)
         <= Larger(Abs(dx), Abs(dy))

\* The loop of NtGdiLineTo, which has no bound of its own, ends.
LineEnds == line.on ~> ~line.on

\* "brush-filled interior with a one-pixel pen border": nothing outside the rectangle
\* asked for is painted.
RectangleInside ==
  last.op = "rect" => \A p \in Pixels : bits[p] # Same[p] => Asked(last, p)

\* "ETO_OPAQUE == 0x0002 fills the background rectangle first; otherwise the background
\* mode in DC_ATTR decides": text on an opaque background leaves no pixel of its cells.
BackgroundMode ==
  last.op = "text" /\ (last.on \/ opaque) =>
    \A p \in Pixels : Asked(last, p) /\ InClip(p) => bits[p] # Same[p]
=============================================================================
