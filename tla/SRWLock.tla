------------------------------ MODULE SRWLock ------------------------------
(***************************************************************************)
(* Slim reader/writer locks.  kernel32 (user/kernel32.c) serves shared and *)
(* exclusive requests alike with one compare-and-swap; ntdll               *)
(* (user/ntdllrtl.c) keeps an exclusive bit and a count of readers in one  *)
(* word.  Each atomic instruction and each plain read is a step.           *)
(***************************************************************************)
EXTENDS Integers, FiniteSets

CONSTANTS K32Threads,            \* users of a kernel32 lock
          RtlWriters, RtlReaders,\* users of an ntdll lock
          WORD                   \* 2^width of the lock word

Threads == K32Threads \cup RtlWriters \cup RtlReaders

SRWLockAssumption ==
  /\ IsFiniteSet(Threads)
  /\ K32Threads \cap (RtlWriters \cup RtlReaders) = {}
  /\ WORD \in Nat /\ WORD % 2 = 0 /\ WORD > 2 * Cardinality(Threads) + 1

VARIABLES word,   \* the lock of kernel32's users and of ntdll's
          pc,     \* "idle", asking, "cas" (a reader), "inX" (exclusive), "inS"
          seen    \* seen[t]: the word a reader has read

vars == <<word, pc, seen>>

Lib(t) == IF t \in K32Threads THEN "k32" ELSE "rtl"

\* InitializeSRWLock, RtlInitializeSRWLock
Init ==
  /\ word = [l \in {"k32", "rtl"} |-> 0]
  /\ pc = [t \in Threads |-> "idle"]
  /\ seen = [t \in Threads |-> 0]

Goto(t, step) == pc' = [pc EXCEPT ![t] = step]

Asking == {"excl", "tryexcl", "shared", "tryshared"}

Request(t) ==
  /\ pc[t] = "idle"
  /\ \/ t \in K32Threads /\ \E step \in Asking : Goto(t, step)
     \/ t \in RtlWriters /\ Goto(t, "excl")
     \/ t \in RtlReaders /\ Goto(t, "shared")
  /\ UNCHANGED <<word, seen>>

\* AcquireSRWLockExclusive and AcquireSRWLockShared: the same swap; the Try
\* variants make one attempt of it.
srw_acquire(t) ==
  /\ t \in K32Threads /\ pc[t] \in Asking
  /\ word["k32"] = 0
  /\ word' = [word EXCEPT !["k32"] = 1]
  /\ Goto(t, IF pc[t] \in {"excl", "tryexcl"} THEN "inX" ELSE "inS")
  /\ UNCHANGED seen

\* TryAcquireSRWLockExclusive, TryAcquireSRWLockShared
TryFails(t) ==
  /\ pc[t] \in {"tryexcl", "tryshared"}
  /\ word["k32"] # 0
  /\ Goto(t, "idle")
  /\ UNCHANGED <<word, seen>>

srw_release(t) ==
  /\ t \in K32Threads /\ pc[t] \in {"inX", "inS"}
  /\ word' = [word EXCEPT !["k32"] = 0]
  /\ Goto(t, "idle")
  /\ UNCHANGED seen

\* The exchange stores 1 whatever the word was.
RtlAcquireSRWLockExclusive(t) ==
  /\ t \in RtlWriters /\ pc[t] = "excl"
  /\ word' = [word EXCEPT !["rtl"] = 1]
  /\ Goto(t, IF word["rtl"] = 0 THEN "inX" ELSE "excl")
  /\ UNCHANGED seen

RtlReleaseSRWLockExclusive(t) ==
  /\ t \in RtlWriters /\ pc[t] = "inX"
  /\ word' = [word EXCEPT !["rtl"] = 0]
  /\ Goto(t, "idle")
  /\ UNCHANGED seen

\* A reader reads the word ...
RtlAcquireSRWLockShared(t) ==
  /\ t \in RtlReaders /\ pc[t] = "shared"
  /\ word["rtl"] % 2 = 0
  /\ seen' = [seen EXCEPT ![t] = word["rtl"]]
  /\ Goto(t, "cas")
  /\ UNCHANGED word

\* Faulty SharedSwap: what was read is stored without comparing.
SharedStore(t) ==
  /\ t \in RtlReaders /\ pc[t] = "cas"
  /\ word' = [word EXCEPT !["rtl"] = (seen[t] + 2) % WORD]
  /\ Goto(t, "inS")
  /\ UNCHANGED seen

\* ... and swaps in one reader more if it has not changed.
SharedSwap(t) ==
  /\ t \in RtlReaders /\ pc[t] = "cas"
  /\ IF word["rtl"] = seen[t]
     THEN word' = [word EXCEPT !["rtl"] = (@ + 2) % WORD] /\ Goto(t, "inS")
     ELSE Goto(t, "shared") /\ UNCHANGED word
  /\ UNCHANGED seen

RtlReleaseSRWLockShared(t) ==
  /\ t \in RtlReaders /\ pc[t] = "inS"
  /\ word' = [word EXCEPT !["rtl"] = (@ + WORD - 2) % WORD]
  /\ Goto(t, "idle")
  /\ UNCHANGED seen

Release(t) ==
  srw_release(t) \/ RtlReleaseSRWLockExclusive(t) \/ RtlReleaseSRWLockShared(t)

Acquire(t) ==
  \/ srw_acquire(t) \/ RtlAcquireSRWLockExclusive(t)
  \/ RtlAcquireSRWLockShared(t) \/ SharedSwap(t)

Next == \E t \in Threads : Request(t) \/ Acquire(t) \/ TryFails(t) \/ Release(t)

\* Threads are preempted by the clock, and who has the lock gives it back.
Spec == Init /\ [][Next]_vars /\ \A t \in Threads : WF_vars(Acquire(t)) /\ WF_vars(Release(t))
-----------------------------------------------------------------------------
TypeOK ==
  /\ word \in [{"k32", "rtl"} -> 0 .. WORD - 1]
  /\ pc \in [Threads -> Asking \cup {"idle", "cas", "inX", "inS"}]
  /\ word["k32"] \in {0, 1}

Writers(l) == {t \in Threads : Lib(t) = l /\ pc[t] = "inX"}
Readers(l) == {t \in Threads : Lib(t) = l /\ pc[t] = "inS"}

(* A writer is alone; in kernel32 ("serializes shared and exclusive acquisitions
   alike") a reader is too. *)
Exclusion ==
  /\ \A l \in {"k32", "rtl"} : Writers(l) # {} => Cardinality(Writers(l) \cup Readers(l)) = 1
  /\ Cardinality(Writers("k32") \cup Readers("k32")) <= 1

(* "SRW locks: exclusive bit + shared counter in one pointer": the word of
   ntdll's lock counts its readers while nobody has it exclusively. *)
ReadersCounted ==
  Writers("rtl") = {} => word["rtl"] = 2 * Cardinality(Readers("rtl"))

(* Somebody who waits for a lock, or somebody else, gets it. *)
LockIsTaken ==
  \A l \in {"k32", "rtl"} :
    (\E t \in Threads : Lib(t) = l /\ pc[t] \in {"excl", "shared"})
      ~> Writers(l) \cup Readers(l) # {}
=============================================================================
