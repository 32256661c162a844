---------------------------- MODULE LocalStorage ----------------------------
(***************************************************************************)
(* Thread-local and fiber-local storage (user/kernel32.c).  TLS: a bitmap  *)
(* of indexes changed by compare-and-swap, and a vector of slots per       *)
(* thread.  FLS: three process-wide arrays whose entries are cleared one    *)
(* after the other.  There are no fibers: a thread is its only fiber.      *)
(***************************************************************************)
EXTENDS Integers, FiniteSets, FiniteSetsExt

CONSTANTS Threads, Values, INDEXES   \* INDEXES: 64 for TLS, 127 for FLS

LocalStorageAssumption == INDEXES \in Nat \ {0}

Index == 1 .. INDEXES
NULL == "null"

VARIABLES bitmap,       \* g_tls_bitmap
          slots,        \* slots[t]: t's vector; a function, empty before it is made
          taken, fls,   \* g_fls_taken, g_fls_slots
          pc,           \* pc[t] = [op, seen, i]
          tlsOwner,     \* tlsOwner[i]: who has TLS index i
          flsOwner,
          stored        \* stored[t][i]: what t stored last under index i

vars == <<bitmap, slots, taken, fls, pc, tlsOwner, flsOwner, stored>>

Idle == [op |-> "idle", seen |-> {}, i |-> 0]

Init ==
  /\ bitmap = {} /\ taken = {}
  /\ slots = [t \in Threads |-> << >>]
  /\ fls = [i \in Index |-> NULL]
  /\ pc = [t \in Threads |-> Idle]
  /\ tlsOwner = [i \in Index |-> {}] /\ flsOwner = [i \in Index |-> {}]
  /\ stored = [t \in Threads |-> [i \in Index |-> NULL]]

flsVars == <<taken, fls, flsOwner>>
tlsVars == <<bitmap, slots, tlsOwner>>

Goto(t, op, seen, i) == pc' = [pc EXCEPT ![t] = [op |-> op, seen |-> seen, i |-> i]]

\* TlsAlloc reads the bitmap (a full one fails) ...
TlsAlloc(t) ==
  /\ pc[t] = Idle
  /\ bitmap # Index
  /\ Goto(t, "alloc", bitmap, Min(Index \ bitmap))
  /\ UNCHANGED <<tlsVars, flsVars, stored>>

\* Faulty AllocSwap: the bitmap is stored without comparing.
AllocStore(t) ==
  /\ pc[t].op = "alloc"
  /\ bitmap' = pc[t].seen \cup {pc[t].i}
  /\ tlsOwner' = [tlsOwner EXCEPT ![pc[t].i] = @ \cup {t}]
  /\ pc' = [pc EXCEPT ![t] = Idle]
  /\ UNCHANGED <<slots, stored, flsVars>>

\* ... and swaps in the lowest clear bit, or reads again.
AllocSwap(t) ==
  /\ pc[t].op = "alloc"
  /\ \/ /\ bitmap = pc[t].seen
        /\ bitmap' = bitmap \cup {pc[t].i}
        /\ tlsOwner' = [tlsOwner EXCEPT ![pc[t].i] = @ \cup {t}]
        /\ pc' = [pc EXCEPT ![t] = Idle]
     \/ /\ bitmap # pc[t].seen
        /\ pc' = [pc EXCEPT ![t] = Idle]
        /\ UNCHANGED <<bitmap, tlsOwner>>
  /\ UNCHANGED <<slots, stored, flsVars>>

\* The bit is cleared by compare-and-swap, the thread's own slot after it;
\* nobody else uses the index by then.
TlsFree(t, i) ==
  /\ pc[t] = Idle /\ t \in tlsOwner[i]
  /\ bitmap' = bitmap \ {i}
  /\ tlsOwner' = [tlsOwner EXCEPT ![i] = @ \ {t}]
  /\ stored' = [stored EXCEPT ![t][i] = NULL]
  /\ slots' = [slots EXCEPT ![t] = [j \in DOMAIN @ |-> IF j = i THEN NULL ELSE @[j]]]
  /\ UNCHANGED <<pc, flsVars>>

\* tls_slots makes the vector at the first store.
TlsSetValue(t, i, v) ==
  /\ pc[t] = Idle /\ i \in bitmap
  /\ slots' = [slots EXCEPT ![t] = [j \in Index |-> IF j = i THEN v
                                                    ELSE IF j \in DOMAIN @ THEN @[j] ELSE NULL]]
  /\ stored' = [stored EXCEPT ![t][i] = v]
  /\ UNCHANGED <<pc, bitmap, tlsOwner, flsVars>>

TlsGetValue(t, i) == IF i \in bitmap /\ i \in DOMAIN slots[t] THEN slots[t][i] ELSE NULL
-----------------------------------------------------------------------------
\* FlsAlloc claims an entry that is free when its scan comes to it, and then clears it.
FlsAlloc(t) ==
  /\ pc[t] = Idle
  /\ \E i \in Index \ taken :
       /\ taken' = taken \cup {i}
       /\ flsOwner' = [flsOwner EXCEPT ![i] = {t}]
       /\ Goto(t, "claimed", {}, i)
       /\ stored' = [u \in Threads |-> [stored[u] EXCEPT ![i] = NULL]]
  /\ UNCHANGED <<fls, tlsVars>>

\* The last store of FlsAlloc, and of FlsFree.
FlsClear(t) ==
  /\ pc[t].op \in {"claimed", "freed"}
  /\ fls' = [fls EXCEPT ![pc[t].i] = NULL]
  /\ pc' = [pc EXCEPT ![t] = Idle]
  /\ UNCHANGED <<taken, flsOwner, stored, tlsVars>>

\* FlsFree gives the entry up before it clears it.
FlsFree(t, i) ==
  /\ pc[t] = Idle /\ t \in flsOwner[i] /\ i \in taken
  /\ taken' = taken \ {i}
  /\ flsOwner' = [flsOwner EXCEPT ![i] = {}]
  /\ Goto(t, "freed", {}, i)
  /\ UNCHANGED <<fls, stored, tlsVars>>

\* FlsSetValue looks whether the entry is taken, and then stores.
FlsSetValue(t, i, v) ==
  /\ pc[t] = Idle /\ i \in taken
  /\ Goto(t, "store", {v}, i)
  /\ UNCHANGED <<flsVars, stored, tlsVars>>

FlsStore(t) ==
  /\ pc[t].op = "store"
  /\ \E v \in pc[t].seen :
       /\ fls' = [fls EXCEPT ![pc[t].i] = v]
       /\ stored' = [stored EXCEPT ![t][pc[t].i] = v]
  /\ pc' = [pc EXCEPT ![t] = Idle]
  /\ UNCHANGED <<taken, flsOwner, tlsVars>>

FlsGetValue(t, i) == fls[i]

Tls ==
  \E t \in Threads :
    \/ TlsAlloc(t) \/ AllocSwap(t)
    \/ \E i \in Index : TlsFree(t, i) \/ \E v \in Values : TlsSetValue(t, i, v)

Fls ==
  \E t \in Threads :
    \/ FlsAlloc(t) \/ FlsClear(t) \/ FlsStore(t)
    \/ \E i \in Index : FlsFree(t, i) \/ \E v \in Values : FlsSetValue(t, i, v)

TlsSpec == Init /\ [][Tls]_vars
FlsSpec == Init /\ [][Fls]_vars
-----------------------------------------------------------------------------
TypeOK ==
  /\ bitmap \subseteq Index /\ taken \subseteq Index
  /\ fls \in [Index -> Values \cup {NULL}]
  /\ \A t \in Threads : DOMAIN slots[t] \in {{}, Index}
  /\ \A t \in Threads : pc[t].op # "idle" => pc[t].i \in Index

(* TlsAlloc gives an index to one caller until it is freed: two that read the
   same bitmap do not both get its lowest clear bit. *)
TlsIndexPrivate ==
  \A i \in Index : Cardinality(tlsOwner[i]) = IF i \in bitmap THEN 1 ELSE 0

(* A thread reads under an index what it stored there itself: the vectors hang
   from the TEB, and freeing an index clears it for the thread that frees. *)
TlsIsLocal ==
  \A t \in Threads, i \in Index : TlsGetValue(t, i) = stored[t][i] \/ i \notin bitmap

(* Whatever the threads that free, allocate and store do in between, an index that
   FlsAlloc has returned holds nothing of its life before: FlsGetValue gives NULL
   or what a thread stored since FlsAlloc claimed it. *)
FlsFresh ==
  \A t \in Threads, i \in taken :
    \/ FlsGetValue(t, i) \in {NULL} \cup {stored[u][i] : u \in Threads}
    \/ \E u \in Threads : pc[u].op = "claimed" /\ pc[u].i = i

(* "Fiber-local storage": what FlsGetValue returns to a thread is what that
   thread stored. *)
FlsIsLocal ==
  \A t \in Threads, i \in taken : pc[t] = Idle => FlsGetValue(t, i) \in {stored[t][i], NULL}
=============================================================================
