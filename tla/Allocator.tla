----------------------------- MODULE Allocator -----------------------------
(***************************************************************************)
(* What a memory allocator promises: a block that is handed out lies inside *)
(* a committed segment and overlaps no block that somebody still has.      *)
(* RtlHeap and ProcessHeap are shown to implement it.                      *)
(***************************************************************************)
EXTENDS Integers, FiniteSets

VARIABLES live,      \* extents [addr, len] that callers have
          segments   \* extents of committed memory

Apart(e, f) == e.addr + e.len <= f.addr \/ f.addr + f.len <= e.addr
Within(e, s) == s.addr <= e.addr /\ e.addr + e.len <= s.addr + s.len

\* Committed memory stays committed.
Grow == \A s \in segments : \E t \in segments' : Within(s, t)

\* An extent that was not handed out before is free memory.
Sound(e) ==
  /\ \E s \in segments' : Within(e, s)
  /\ \A f \in live \cap live' : Apart(e, f)

Init == live = {}

\* One call: a block is given out, taken back, or exchanged for another.
Next ==
  /\ Grow
  /\ Cardinality(live' \ live) <= 1
  /\ Cardinality(live \ live') <= 1
  /\ \A e \in live' \ live : Sound(e)

Spec == Init /\ [][Next]_<<live, segments>>
=============================================================================
