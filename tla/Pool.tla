-------------------------------- MODULE Pool --------------------------------
(***************************************************************************)
(* The kernel pool (ex/pool.c): first fit over an address-ordered list of  *)
(* nodes in one arena that is committed on demand.  It is called with      *)
(* interrupts masked, so each call is one step.  Payload contents, tags    *)
(* and the guard pattern are left out: no modelled caller writes outside   *)
(* what it asked for.  Addresses count from MM_KERNEL_HEAP_BASE.           *)
(***************************************************************************)
EXTENDS Integers, Sequences, FiniteSets, FiniteSetsExt, SequencesExt

CONSTANTS POOL_HDR, POOL_ALIGN, POOL_GUARD, POOL_MIN_PAYLOAD, POOL_GROW_CHUNK,
          PAGE_SIZE,
          Sizes,      \* sizes callers ask for
          Memory      \* page frames left for the pool

PoolAssumption ==
  /\ POOL_HDR \in Nat \ {0} /\ POOL_ALIGN \in Nat \ {0}
  /\ POOL_GUARD \in Nat \ {0} /\ POOL_MIN_PAYLOAD \in Nat \ {0}
  /\ POOL_GROW_CHUNK \in Nat \ {0} /\ PAGE_SIZE \in Nat \ {0}
  /\ POOL_GROW_CHUNK > POOL_HDR
  /\ POOL_GROW_CHUNK % PAGE_SIZE = 0
  /\ Sizes \subseteq Nat \ {0}
  /\ Memory \in Nat

VARIABLES nodes,       \* g_head ... g_tail: addr, size, requested, free
          heap_end,    \* g_heap_end
          in_use,      \* g_bytes_in_use
          frames       \* frames MmAllocatePage can still give

vars == <<nodes, heap_end, in_use, frames>>

ALIGN_UP_BY(x, a) == ((x + a - 1) \div a) * a

FreeNode(addr, size) == [addr |-> addr, size |-> size, requested |-> 0, free |-> TRUE]

\* Faulty pool_grow: the new node's header is not counted.
GrowHeaderless(p, need) ==
  LET want == ALIGN_UP_BY(need, POOL_GROW_CHUNK)
      tail == Len(p.nodes)
      grown == IF tail # 0 /\ p.nodes[tail].free
               THEN [p.nodes EXCEPT ![tail].size = @ + want]
               ELSE Append(p.nodes, FreeNode(p.heap_end, want - POOL_HDR))
  IN IF p.frames < want \div PAGE_SIZE
     THEN [p EXCEPT !.frames = 0, !.ok = FALSE]
     ELSE [nodes |-> grown, heap_end |-> p.heap_end + want,
           frames |-> p.frames - want \div PAGE_SIZE, ok |-> TRUE]

\* pool_grow maps page by page; it fails with the frames it got used up.
pool_grow(p, need) ==
  LET want == ALIGN_UP_BY(need + POOL_HDR, POOL_GROW_CHUNK)
      tail == Len(p.nodes)
      grown == IF tail # 0 /\ p.nodes[tail].free
               THEN [p.nodes EXCEPT ![tail].size = @ + want]
               ELSE Append(p.nodes, FreeNode(p.heap_end, want - POOL_HDR))
  IN IF p.frames < want \div PAGE_SIZE
     THEN [p EXCEPT !.frames = 0, !.ok = FALSE]
     ELSE [nodes |-> grown, heap_end |-> p.heap_end + want,
           frames |-> p.frames - want \div PAGE_SIZE, ok |-> TRUE]

\* ExInitializePool
Init ==
  LET p == pool_grow([nodes |-> << >>, heap_end |-> 0, frames |-> Memory, ok |-> TRUE],
                     POOL_GROW_CHUNK - POOL_HDR)
  IN /\ p.ok
     /\ nodes = p.nodes /\ heap_end = p.heap_end /\ frames = p.frames
     /\ in_use = 0
-----------------------------------------------------------------------------
Need(size) == ALIGN_UP_BY(size, POOL_ALIGN) + POOL_GUARD

Fits(ns, need) == {i \in DOMAIN ns : ns[i].free /\ ns[i].size >= need}

pool_split(ns, i, need) ==
  IF ns[i].size < need + POOL_HDR + POOL_MIN_PAYLOAD THEN ns
  ELSE InsertAt([ns EXCEPT ![i].size = need], i + 1,
                FreeNode(ns[i].addr + POOL_HDR + need, ns[i].size - need - POOL_HDR))

\* The first node that fits is split and taken.
Take(ns, size) ==
  LET i == Min(Fits(ns, Need(size)))
      cut == pool_split(ns, i, Need(size))
  IN /\ nodes' = [cut EXCEPT ![i].free = FALSE, ![i].requested = size]
     /\ in_use' = in_use + cut[i].size

Pool == [nodes |-> nodes, heap_end |-> heap_end, frames |-> frames, ok |-> TRUE]

\* Two searches, with the arena grown before the second; were the second to
\* find nothing, the arena would be grown once more for nothing.
ExAllocatePoolWithTag(size) ==
  LET need == Need(size)
      grown == pool_grow(Pool, need)
      failed == IF grown.ok THEN pool_grow(grown, need) ELSE grown
  IN \/ /\ Fits(nodes, need) # {}
        /\ Take(nodes, size)
        /\ UNCHANGED <<heap_end, frames>>
     \/ /\ Fits(nodes, need) = {}
        /\ grown.ok /\ Fits(grown.nodes, need) # {}
        /\ Take(grown.nodes, size)
        /\ heap_end' = grown.heap_end /\ frames' = grown.frames
     \/ /\ Fits(nodes, need) = {}
        /\ ~ grown.ok \/ Fits(grown.nodes, need) = {}
        /\ nodes' = failed.nodes /\ heap_end' = failed.heap_end /\ frames' = failed.frames
        /\ UNCHANGED in_use

\* Node i takes in its higher neighbour.
Merge(ns, i) == RemoveAt([ns EXCEPT ![i].size = @ + POOL_HDR + ns[i + 1].size], i + 1)

MergeIf(ns, i) ==
  IF i \in DOMAIN ns /\ i + 1 \in DOMAIN ns /\ ns[i].free /\ ns[i + 1].free
  THEN Merge(ns, i) ELSE ns

\* Faulty ExFreePool: coalesces with the higher neighbour only.
FreeForwardOnly(i) ==
  /\ ~ nodes[i].free
  /\ in_use' = in_use - nodes[i].size
  /\ nodes' = MergeIf([nodes EXCEPT ![i].free = TRUE, ![i].requested = 0], i)
  /\ UNCHANGED <<heap_end, frames>>

ExFreePool(i) ==
  /\ ~ nodes[i].free
  /\ in_use' = in_use - nodes[i].size
  /\ nodes' = MergeIf(MergeIf([nodes EXCEPT ![i].free = TRUE, ![i].requested = 0], i), i - 1)
  /\ UNCHANGED <<heap_end, frames>>

Next ==
  \/ \E size \in Sizes : ExAllocatePoolWithTag(size)
  \/ \E i \in DOMAIN nodes : ExFreePool(i)

Spec == Init /\ [][Next]_vars
-----------------------------------------------------------------------------
TypeOK ==
  /\ nodes \in Seq([addr : Nat, size : Nat, requested : Nat, free : BOOLEAN])
  /\ heap_end \in Nat /\ in_use \in Nat /\ frames \in 0 .. Memory

End(n) == n.addr + POOL_HDR + n.size

(* The condition pool_validate walks the list for: the blocks tile the arena
   from its base to g_heap_end, none is empty, and what a caller asked for
   fits in front of its guard. *)
Tiled ==
  /\ nodes # << >> => nodes[1].addr = 0 /\ End(nodes[Len(nodes)]) = heap_end
  /\ \A i \in DOMAIN nodes :
       /\ nodes[i].size > 0
       /\ i + 1 \in DOMAIN nodes => End(nodes[i]) = nodes[i + 1].addr
       /\ ~ nodes[i].free => nodes[i].requested + POOL_GUARD <= nodes[i].size

(* "a freed block coalesces with whichever physical neighbours are also free":
   no two neighbours are both free, also across a growth of the arena. *)
Coalesced ==
  \A i \in DOMAIN nodes : i + 1 \in DOMAIN nodes => ~ (nodes[i].free /\ nodes[i + 1].free)

(* ExPoolBytesInUse is the sum of the blocks in use, and when nothing is in use
   the pool is one free block again. *)
InUseExact ==
  /\ in_use = FoldLeft(LAMBDA sum, n : IF n.free THEN sum ELSE sum + n.size, 0, nodes)
  /\ in_use = 0 => Len(nodes) = 1

(* An arena that could be grown satisfies the request it was grown for. *)
GrowSuffices ==
  \A size \in Sizes : LET grown == pool_grow(Pool, Need(size))
                      IN grown.ok => Fits(grown.nodes, Need(size)) # {}
=============================================================================
