-------------------------------- MODULE Sync --------------------------------
(***************************************************************************)
(* What threads share in ring 3, where they may be preempted between any   *)
(* two memory accesses: locks, the heap of ntdll behind its spin lock,     *)
(* one-time initialization, thread-local storage, the thread pool, timers, *)
(* and the times in the shared page.  The parts do not interact; `part`    *)
(* says which one runs, and what TLC explores is the union of their state  *)
(* graphs.                                                                 *)
(*                                                                         *)
(* The locks of ntdll are run by their readers, with those of kernel32,    *)
(* and by the same threads as writers alone.  A context that               *)
(* InitOnceComplete refuses leaves the other callers waiting for ever, so  *)
(* contexts that it accepts have a part of their own.  All clients submit  *)
(* work; Creators create it in the part where it is done, and all clients  *)
(* in a part where nothing else happens.                                   *)
(***************************************************************************)
EXTENDS Integers, Sequences, FiniteSets

CONSTANTS Callers,                                      \* of heap, TLS and SharedTime
          SectionThreads, K32, Rtl, MaxDepth,           \* CriticalSection
          OnceThreads, Contexts, Misaligned,            \* InitOnce
          K32Threads, RtlWriters, RtlReaders, SRW,      \* SRWLock
          WORD, HUNDRED_NS_PER_TICK, MaxTicks,          \* SharedTime
          Clients, Timers, Waits, Periods, MaxCalls,    \* TimerQueue; Clients: pools too
          PER_TICK, PER_MS, INFINITE, MaxTime, MaxInterval,  \* Timeouts
          WaitItems, Objects, Closable,                 \* ThreadpoolWait
          Values, INDEXES,                              \* LocalStorage: TLS
          FLS_INDEXES,                                  \* LocalStorage: FLS
          Creators, Workers, MAX_WORK, POOL, MaxTries,  \* ThreadPool
          Sizes, SEGMENT, MaxSegments                   \* RtlHeap

VARIABLES part,
          lock, owner, recursion, cspc, depth,                            \* CriticalSection
          srw, srwpc, seen,                                               \* SRWLock
          xword, xpc, xseen,                                              \* ... writers alone
          word, oncepc, result, runs,                                     \* InitOnce
          ticks, page, reader,                                            \* SharedTime
          timer, wait, timerclient, after,                                \* TimerQueue
          now, timeout,                                                   \* Timeouts
          object, waiting, control, signalled, closed, monitor, waitclient,  \* ThreadpoolWait
          calls, late,
          bitmap, slots, taken, fls, lspc, tlsOwner, flsOwner, stored,    \* LocalStorage: TLS
          fbitmap, fslots, ftaken, ffls, fpc, ftlsOwner, fflsOwner, fstored,  \* ... FLS
          used, submitted, queue, state, sem, worker, poolclient, given,  \* ThreadPool
          freelist, cursor, segend, committed, heaplock, heapcall, live   \* RtlHeap

CS == INSTANCE CriticalSection WITH Threads <- SectionThreads, pc <- cspc
Slim == INSTANCE SRWLock WITH WORD <- SRW, word <- srw, pc <- srwpc
Alone == INSTANCE SRWLock WITH
  K32Threads <- {}, RtlWriters <- Slim!Threads, RtlReaders <- {}, WORD <- SRW,
  word <- xword, pc <- xpc, seen <- xseen
Once == INSTANCE InitOnce WITH Threads <- OnceThreads, pc <- oncepc
Aligned == INSTANCE InitOnce WITH
  Threads <- OnceThreads, Contexts <- Contexts \ Misaligned, Misaligned <- {}, pc <- oncepc
Time == INSTANCE SharedTime WITH Threads <- Callers
Timer == INSTANCE TimerQueue WITH client <- timerclient
Timeout == INSTANCE Timeouts WITH call <- timeout
PoolWait == INSTANCE ThreadpoolWait WITH Items <- WaitItems, client <- waitclient
Ls == INSTANCE LocalStorage WITH Threads <- Callers, pc <- lspc
Fls == INSTANCE LocalStorage WITH
  Threads <- Callers, INDEXES <- FLS_INDEXES,
  bitmap <- fbitmap, slots <- fslots, taken <- ftaken, fls <- ffls, pc <- fpc,
  tlsOwner <- ftlsOwner, flsOwner <- fflsOwner, stored <- fstored
Pool == INSTANCE ThreadPool WITH Creators <- Clients, client <- poolclient
Few == INSTANCE ThreadPool WITH client <- poolclient
Heap == INSTANCE RtlHeap WITH Threads <- Callers, lock <- heaplock, call <- heapcall

ASSUME SyncAssumption ==
  /\ CS!CriticalSectionAssumption /\ Slim!SRWLockAssumption /\ Once!InitOnceAssumption
  /\ Time!TimeAssumption /\ Timer!TimerAssumption /\ Timeout!TimeoutsAssumption
  /\ PoolWait!ThreadpoolWaitAssumption /\ Few!ThreadPoolAssumption
  /\ Ls!LocalStorageAssumption /\ Fls!LocalStorageAssumption /\ Heap!RtlHeapAssumption

heap == <<freelist, cursor, segend, committed, heaplock, heapcall, live>>
section == <<lock, owner, recursion, cspc, depth>>
rw == <<srw, srwpc, seen>>
alone == <<xword, xpc, xseen>>
initonce == <<word, oncepc, result, runs>>
pool == <<used, submitted, queue, state, sem, worker, poolclient, given>>
poolwait == <<object, waiting, control, signalled, closed, monitor, waitclient, calls, late>>
tls == <<bitmap, slots, taken, fls, lspc, tlsOwner, flsOwner, stored>>
fiber == <<fbitmap, fslots, ftaken, ffls, fpc, ftlsOwner, fflsOwner, fstored>>
timers == <<timer, wait, timerclient, after>>
times == <<ticks, page, reader>>
timeouts == <<now, timeout>>
locks == <<heap, section, rw, alone, initonce>>
services == <<pool, poolwait, tls, fiber, timers>>
clock == <<times, timeouts>>
vars == <<part, locks, services, clock>>

\* A part that does not run stays in its initial state.
Init ==
  /\ part \in {"heap", "section", "readers", "writers", "once", "refused", "pool", "create",
               "poolwait", "tls", "fls", "timer", "shared", "timeout"}
  /\ Heap!Init /\ CS!Init /\ Slim!Init /\ Alone!Init /\ Once!Init
  /\ Pool!Init /\ PoolWait!Init /\ Ls!Init /\ Fls!Init /\ Timer!Init
  /\ Time!Init /\ Timeout!Init

Locks ==
  \/ part = "section" /\ CS!Next /\ UNCHANGED <<heap, rw, alone, initonce>>
  \/ part = "readers" /\ Slim!Next /\ UNCHANGED <<heap, section, alone, initonce>>
  \/ part = "writers" /\ Alone!Next /\ UNCHANGED <<heap, section, rw, initonce>>
  \/ part = "heap" /\ Heap!Next /\ UNCHANGED <<section, rw, alone, initonce>>
  \/ part = "once" /\ Aligned!Next /\ UNCHANGED <<heap, section, rw, alone>>
  \/ part = "refused" /\ Once!Next /\ UNCHANGED <<heap, section, rw, alone>>

\* Every client creates work items.
Creates == \E c \in Clients : Pool!CreateThreadpoolWork(c) \/ Pool!Fill(c)

Services ==
  \/ part = "pool" /\ Few!Next /\ UNCHANGED <<poolwait, tls, fiber, timers>>
  \/ part = "create" /\ Creates /\ UNCHANGED <<poolwait, tls, fiber, timers>>
  \/ part = "poolwait" /\ PoolWait!Next /\ UNCHANGED <<pool, tls, fiber, timers>>
  \/ part = "tls" /\ Ls!Tls /\ UNCHANGED <<pool, poolwait, fiber, timers>>
  \/ part = "fls" /\ Fls!Fls /\ UNCHANGED <<pool, poolwait, tls, timers>>
  \/ part = "timer" /\ Timer!Next /\ UNCHANGED <<pool, poolwait, tls, fiber>>

Clock ==
  \/ part = "shared" /\ Time!Next /\ UNCHANGED timeouts
  \/ part = "timeout" /\ Timeout!Next /\ UNCHANGED times

Next ==
  /\ UNCHANGED part
  /\ \/ Locks /\ UNCHANGED <<services, clock>>
     \/ Services /\ UNCHANGED <<locks, clock>>
     \/ Clock /\ UNCHANGED <<locks, services>>

\* A thread that is inside a function gets the CPU again (ReadyThreadRuns of
\* Dispatcher), callbacks return, and who holds a lock gives it back.
Fairness ==
  /\ \A t \in Callers : WF_heap(part = "heap" /\ Heap!Step(t))
  /\ \A t \in SectionThreads, c \in K32 \cup Rtl :
       /\ WF_section(part = "section" /\ CS!Step(t, c))
       /\ WF_section(part = "section" /\ CS!LeaveCriticalSection(t, c))
  /\ \A t \in Slim!Threads :
       /\ WF_rw(part = "readers" /\ Slim!Acquire(t))
       /\ WF_rw(part = "readers" /\ Slim!Release(t))
  /\ \A c \in Clients : WF_pool(part = "pool" /\ Few!ClientStep(c))
  /\ \A w \in Workers : WF_pool(part = "pool" /\ Few!WorkerStep(w))
  /\ WF_poolwait(part = "poolwait" /\ PoolWait!Monitor)
  /\ \A c \in Clients : WF_poolwait(part = "poolwait" /\ PoolWait!SetControl(c))
  /\ \A t \in OnceThreads : WF_initonce(part = "once" /\ Aligned!Step(t))
  /\ \A t \in Timers : WF_timers(part = "timer" /\ Timer!timerq_thread(t))
  /\ \A c \in Clients : WF_timers(part = "timer" /\ Timer!WaitForThread(c))
  /\ \A t \in Callers : WF_times(part = "shared" /\ Time!Read(t))

Spec == Init /\ [][Next]_vars /\ Fairness
-----------------------------------------------------------------------------
\* One thread at a time is inside a critical section, a slim lock held exclusively (also
\* where all want ntdll's so) or a one-time initialization; who reads itself as the owner is inside
\* (EnterCriticalSection's fast path); without writers the counter of a slim lock is the
\* number of its readers; one initialization succeeds, and everybody gets its context
\* (EnterCriticalSection, srw_acquire, RtlAcquireSRWLockShared,
\* RtlAcquireSRWLockExclusive, InitOnceExecuteOnce).
LocksExclude ==
  /\ CS!TypeOK /\ CS!MutualExclusion /\ CS!OwnerInside
  /\ Slim!TypeOK /\ Slim!Exclusion /\ (RtlWriters = {} => Slim!ReadersCounted)
  /\ Alone!Exclusion
  /\ Once!TypeOK /\ Once!AtMostOnce /\ Once!SameContext

\* No memory or work is lost and none doubled: what was cut off a segment of ntdll's heap
\* is one block's, in use or on the free list (RtlFreeHeap); a work item is queued or with a worker once, with a
\* wake-up for each that is queued (SubmitThreadpoolWork); the monitor waits for
\* what is armed or is about to be woken (SetThreadpoolWait).
NothingLost ==
  /\ Heap!TypeOK /\ Heap!NothingLost
  /\ Pool!TypeOK /\ Pool!OnePlace /\ Pool!WakeupsMatch
  /\ PoolWait!TypeOK /\ PoolWait!SnapshotOrWake

\* What a caller was given is its own: a work item, unless two threads look for one at
\* the same time (CreateThreadpoolWork), a TLS index and its values (TlsAlloc, TlsGetValue,
\* TlsFree); an FLS index keeps nothing of its life before (FlsAlloc, FlsFree, FlsSetValue).
SlotsPrivate ==
  /\ Pool!SlotsPrivate
  /\ Ls!TypeOK /\ Ls!TlsIndexPrivate /\ Ls!TlsIsLocal
  /\ Fls!FlsFresh

\* Nothing runs after a delete of a timer that waited, and at most one callback begins
\* after Stop was set (DeleteTimerQueueTimer, timerq_thread); a 64-bit time that was
\* read was shown during the call (read_ksystem_time); a wait times out not more than a
\* tick early or late (timeout_to_ticks).
TimesRight ==
  /\ Timer!DeletedIsQuiet /\ Timer!OneCallAfterStop
  /\ Time!TypeOK /\ Time!ReadIsATime
  /\ Timeout!TimeoutNotEarly /\ Timeout!TimeoutNotLate

\* Two threads never get the same memory (RtlAllocateHeap under heap_lock).
HeapImplementsAllocator == Heap!HeapImplementsAllocator

\* Arming an item of the pool's waits brings one callback at most, for its object, and
\* disarming it none but one that was on its way (threadpool_wait_monitor_start,
\* SetThreadpoolWait).
ArmedCalledOnce == PoolWait!CalledOnceWhenArmed

\* Whoever spins or waits goes on: for a critical section (LeaveCriticalSection,
\* RtlLeaveCriticalSection), a slim lock (srw_release), the lock of the heap
\* (heap_unlock), a one-time initialization that returns (InitOnceExecuteOnce), a timer's
\* thread (DeleteTimerQueueTimer), an undisturbed time (read_ksystem_time); work that
\* was accepted is done (SubmitThreadpoolWork), and a signal that lasts reaches the armed
\* item while no armed object is closed (threadpool_wait_monitor_start).
NobodyStarves ==
  /\ part = "section" => CS!SpinnersProgress
  /\ part = "readers" => Slim!LockIsTaken
  /\ part = "heap" => Heap!LockReleased
  /\ part = "once" => Aligned!CallersReturn
  /\ part = "timer" => Timer!DeleteReturns
  /\ part = "shared" => Time!ReadReturns
  /\ part = "pool" => Pool!WorkIsDone
  /\ part = "poolwait" => PoolWait!SignalReachesItem
=============================================================================
