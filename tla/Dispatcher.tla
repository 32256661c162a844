----------------------------- MODULE Dispatcher -----------------------------
(***************************************************************************)
(* The scheduler and the dispatcher objects of the kernel: kernel/ke/      *)
(* thread.c and kernel/ke/dispatcher.c, driven by the services of          *)
(* kernel/ps/psobj.c and kernel/ke/syscall.c.                              *)
(*                                                                         *)
(* There is one CPU.  A system call runs with interrupts masked (SFMASK    *)
(* clears IF) from its entry to its return, and gives the CPU up only in   *)
(* KiBlockCurrentThread and KeYield; so one action is one system call, or  *)
(* the part of it between two such points.  A thread that was switched out *)
(* inside a call resumes it, still with interrupts masked, as soon as it   *)
(* is switched in: while call[current] is not NoCall nothing else happens, *)
(* the clock interrupt included.                                           *)
(*                                                                         *)
(* A thread and the thread object that is signalled when it ends share one *)
(* name: the object of the thread t is t.                                  *)
(***************************************************************************)
EXTENDS Integers, Sequences, FiniteSets

CONSTANTS
    UserThreads,        \* ring-3 threads
    BootThread,         \* the first of them: it has no thread object
    InputThread,        \* the kernel thread that runs InputWorker
    Idle,               \* the boot context
    NotificationEvents, SynchronizationEvents, Semaphores, Mutants,
    Limit,              \* Limit of each semaphore
    WaitLists,          \* the arrays of objects a wait may name
    Releases,           \* the counts NtReleaseSemaphore is called with
    DEFAULT_QUANTUM,
    MaxTimeout,         \* bound: longest finite timeout, in ticks
    MaxTick             \* bound: the clock stops counting here

Threads == UserThreads \cup {InputThread}
Objects == NotificationEvents \cup SynchronizationEvents \cup Semaphores
             \cup Mutants \cup UserThreads

ASSUME ConstantsAssumption ==
    /\ BootThread \in UserThreads
    /\ InputThread \notin UserThreads
    /\ Idle \notin Threads
    /\ Limit \in [Semaphores -> Nat \ {0}]
    /\ WaitLists \subseteq Seq(Objects)
    /\ <<>> \notin WaitLists
    /\ Releases \subseteq Nat \ {0}
    /\ DEFAULT_QUANTUM \in Nat \ {0}
    /\ MaxTimeout \in Nat
    /\ MaxTick \in Nat

ASSUME ObjectKindsAssumption ==
    /\ UserThreads \cap (Semaphores \cup Mutants \cup SynchronizationEvents
                          \cup NotificationEvents) = {}
    /\ Semaphores \cap (Mutants \cup SynchronizationEvents
                          \cup NotificationEvents) = {}
    /\ Mutants \cap (SynchronizationEvents \cup NotificationEvents) = {}
    /\ SynchronizationEvents \cap NotificationEvents = {}

(***************************************************************************)
(* The doubly linked lists of the kernel (LIST_ENTRY, InsertTailList,      *)
(* RemoveHeadList, RemoveEntryList) are sequences here.  Removing entries  *)
(* from the middle of a list keeps the others in order; the operators      *)
(* below say so by rank, without recursion, so that what they return can   *)
(* be proved as well as computed (module DispatcherProofs).                *)
(***************************************************************************)

\* The set of the entries of a list.
Entries(q) == {q[i] : i \in DOMAIN q}

\* No entry is on the list twice.
NoRepeats(q) == \A i, j \in DOMAIN q : q[i] = q[j] => i = j

\* How many members of the set of positions K are at or before i.
Rank(K, i) == Cardinality({j \in K : j <= i})

\* The k-th smallest member of the set of positions K.
Nth(K, k) == CHOOSE i \in K : Rank(K, i) = k

\* The entries at the positions K of the list q, in the order they have there.
Keep(q, K) == [k \in 1..Cardinality(K) |-> q[Nth(K, k)]]

VARIABLES
    state,          \* KTHREAD.State; "None" before the thread is created
    current,        \* g_current_thread
    readyQ,         \* g_ready_queue
    created,        \* ThreadListHead: every thread created, oldest first
    quantum,        \* Quantum of the current thread (set on a switch)
    tick,           \* g_tick_count
    signal,         \* DISPATCHER_HEADER.SignalState
    waitQ,          \* DISPATCHER_HEADER.WaitListHead: the blocks <<t, i>>
    call            \* what a thread inside a system call has on its stack,
                    \* with KTHREAD.WaitStatus and WaitDeadline

vars == <<state, current, readyQ, created, quantum, tick, signal, waitQ, call>>

Infinite == -1
Timeouts == 0..MaxTimeout \cup {Infinite}

\* A call in progress: the objects waited for, wait-all or wait-any, the tick it
\* runs out (0: never) and why it was woken.  WaitStatus and WaitDeadline of a
\* thread are read only while it is inside its wait.
Call(op, objs, all, deadline, status) ==
    [op |-> op, objs |-> objs, all |-> all, deadline |-> deadline,
     status |-> status]
NoCall == Call("none", <<>>, FALSE, 0, "SUCCESS")

-----------------------------------------------------------------------------
(* Signals *)

\* Faulty KiCanAcquire: the bound is off by one.
CanAcquireAtZero(o) == signal[o] >= 0

KiCanAcquire(o) == signal[o] > 0

\* The wait of a thread on objs can be satisfied now.
CanSatisfy(objs, all) ==
    IF all THEN \A i \in DOMAIN objs : KiCanAcquire(objs[i])
           ELSE \E i \in DOMAIN objs : KiCanAcquire(objs[i])

\* The positions of objs that a satisfied wait consumes: all, or the first
\* that can be acquired.
Consumes(objs, all) ==
    {i \in DOMAIN objs : \/ all
                         \/ /\ KiCanAcquire(objs[i])
                            /\ \A j \in 1..(i - 1) : ~KiCanAcquire(objs[j])}

\* SignalState after the objects at the positions I of objs are consumed.
KiConsumeSignal(objs, I) ==
    [o \in Objects |->
        LET n == Cardinality({i \in I : objs[i] = o})
        IN  CASE o \in SynchronizationEvents -> IF n > 0 THEN 0 ELSE signal[o]
              [] o \in Semaphores \cup Mutants -> signal[o] - n
              [] OTHER -> signal[o]]

-----------------------------------------------------------------------------
(* Waking *)

\* Faulty KiUnlinkThreadWait: the other blocks of a woken thread stay linked.
LeaveWaitBlocks(W) == waitQ

\* The wait lists without the blocks of the threads in W.
KiUnlinkThreadWait(W) ==
    [o \in Objects |->
        Keep(waitQ[o], {i \in DOMAIN waitQ[o] : waitQ[o][i][1] \notin W})]

\* The threads that KiSignalObject(o) makes ready, in the order it meets them:
\* at the first block of a thread that is still waiting.
Woken(o) == {t \in Threads : /\ state[t] = "Waiting"
                             /\ \E b \in Entries(waitQ[o]) : b[1] = t}
WakeOrder(o) ==
    LET K == {i \in DOMAIN waitQ[o] :
                /\ state[waitQ[o][i][1]] = "Waiting"
                /\ \A j \in 1..(i - 1) : waitQ[o][j][1] # waitQ[o][i][1]}
        first == Keep(waitQ[o], K)
    IN  [k \in DOMAIN first |-> first[k][1]]

\* KiWakeWaitingThread on every thread of W, with WaitStatus why.
KiWakeWaitingThread(W, why) ==
    call' = [t \in Threads |->
                IF t \in W THEN [call[t] EXCEPT !.status = why] ELSE call[t]]

\* KTHREAD.State once the threads of W are ready (KiReadyThread).
KiReadyThread(W) == [t \in Threads |-> IF t \in W THEN "Ready" ELSE state[t]]

\* KiSignalObject(o): the list of o empties, every thread on it is woken and
\* its other blocks leave their lists.  State and ready queue are the caller's.
KiSignalObject(o) ==
    /\ KiWakeWaitingThread(Woken(o), "SUCCESS")
    /\ waitQ' = [KiUnlinkThreadWait(Woken(o)) EXCEPT ![o] = <<>>]

-----------------------------------------------------------------------------
(* Scheduling *)

\* Faulty InsertTailList: the outgoing thread goes to the head.
InsertHeadList(q, t) == <<t>> \o q

\* The outgoing thread goes behind the threads that are ready already.
InsertTailList(q, t) == Append(q, t)

\* The outgoing thread goes back to the ready queue if it can still run.  The
\* idle thread is the fallback and is never queued.
Requeues(st) == current # Idle /\ st[current] = "Running"

\* KiSchedule, called with thread states st, ready queue q and n ticks left.
KiSchedule(st, q, n) ==
    LET next == IF q = <<>> THEN Idle ELSE Head(q)
        rest == IF q = <<>> THEN <<>> ELSE Tail(q)
    IN  /\ current' = next
        /\ readyQ' = IF Requeues(st) THEN InsertTailList(rest, current) ELSE rest
        /\ state' = [t \in Threads |->
                        CASE t = next -> "Running"
                          [] t = current /\ t # next /\ Requeues(st) -> "Ready"
                          [] OTHER -> st[t]]
        /\ quantum' = IF next = current THEN n ELSE DEFAULT_QUANTUM

\* The current thread is t, outside any switched-out call.
Executing(t) == current = t /\ call[t] = NoCall

\* The idle thread halts with interrupts enabled, and so do the others except
\* in a system call.
InterruptsEnabled == \A t \in Threads : current = t => call[t] = NoCall

KeYield(t) ==
    /\ Executing(t)
    /\ KiSchedule(state, readyQ, quantum)
    /\ UNCHANGED <<created, tick, signal, waitQ, call>>

\* NtCreateThreadEx: the thread t is created and queued, then the creator
\* yields so that it can start; if the handle table is full it returns at once,
\* with a failure.
NtCreateThreadEx(t) ==
    LET st == [state EXCEPT ![t] = "Ready"]
    IN  /\ \E u \in UserThreads : Executing(u)
        /\ state[t] = "None"
        /\ created' = Append(created, t)
        /\ \/ KiSchedule(st, Append(readyQ, t), quantum)
           \/ /\ state' = st /\ readyQ' = Append(readyQ, t)
              /\ UNCHANGED <<current, quantum>>
        /\ UNCHANGED <<tick, signal, waitQ, call>>

\* KeTerminateThread: the thread object, if there is one, is signalled before
\* the CPU is given up.
KeTerminateThread(t) ==
    /\ Executing(t)
    /\ IF t = BootThread
       THEN /\ KiSchedule([state EXCEPT ![t] = "Terminated"], readyQ, quantum)
            /\ UNCHANGED <<signal, waitQ, call>>
       ELSE /\ signal' = [signal EXCEPT ![t] = 1]
            /\ KiSignalObject(t)
            /\ KiSchedule([KiReadyThread(Woken(t)) EXCEPT ![t] = "Terminated"],
                          readyQ \o WakeOrder(t), quantum)
    /\ UNCHANGED <<created, tick>>

\* Faulty Expired: a thread that a signal has woken already times out too.
ExpiredAnyState(now) == {t \in Threads : /\ call[t].deadline # 0
                                         /\ now >= call[t].deadline}

\* The threads whose wait runs out at the tick now, in the list's order.
Expired(now) == {t \in Threads : /\ state[t] = "Waiting"
                                 /\ call[t].deadline # 0
                                 /\ now >= call[t].deadline}
ExpiredOrder(now) ==
    Keep(created, {i \in DOMAIN created : created[i] \in Expired(now)})

\* Quantum of the current thread after one more tick.
QuantumLeft == IF quantum > 0 THEN quantum - 1 ELSE quantum

\* The clock interrupt: it is masked while a system call is being resumed.
KeClockTick ==
    LET now == IF tick < MaxTick THEN tick + 1 ELSE tick
        W == Expired(now)
        st == KiReadyThread(W)
        q == readyQ \o ExpiredOrder(now)
        left == QuantumLeft
    IN  /\ InterruptsEnabled
        /\ tick' = now
        /\ KiWakeWaitingThread(W, "TIMEOUT")
        /\ waitQ' = KiUnlinkThreadWait(W)
        /\ IF left <= 0
           THEN KiSchedule(st, q, left)
           ELSE /\ state' = st
                /\ readyQ' = q
                /\ quantum' = left
                /\ UNCHANGED current
        /\ UNCHANGED <<created, signal>>

-----------------------------------------------------------------------------
(* Waiting *)

\* The wait blocks of t that are linked on o when it waits for objs.
WaitBlocks(t, objs, o) ==
    LET K == {i \in DOMAIN objs : objs[i] = o}
    IN  [k \in 1..Cardinality(K) |-> <<t, Nth(K, k)>>]

\* The call of the thread t returns; its wait blocks are unlinked already.
Return(t) ==
    /\ call' = [call EXCEPT ![t] = NoCall]
    /\ waitQ' = KiUnlinkThreadWait({t})
    /\ UNCHANGED <<state, current, readyQ, quantum>>

TimedOut(deadline) == deadline # 0 /\ tick >= deadline

\* One pass of the loop of KeWaitForMultipleObjects for the thread t: the
\* wait is satisfied, has run out, or blocks again.
WaitPass(t, objs, all, deadline, zero) ==
    LET due == zero \/ TimedOut(deadline)
    IN  \/ /\ CanSatisfy(objs, all)
           /\ signal' = KiConsumeSignal(objs, Consumes(objs, all))
           /\ Return(t)
        \/ /\ ~CanSatisfy(objs, all) /\ due
           /\ Return(t)
           /\ UNCHANGED signal
        \/ /\ ~CanSatisfy(objs, all) /\ ~due
           /\ call' = [call EXCEPT ![t] =
                            Call("wait", objs, all, deadline, "PENDING")]
           /\ waitQ' = [o \in Objects |-> KiUnlinkThreadWait({t})[o]
                                             \o WaitBlocks(t, objs, o)]
           /\ KiSchedule([state EXCEPT ![t] = "Waiting"], readyQ, quantum)
           /\ UNCHANGED signal

KeWaitForMultipleObjects(t, objs, all, timeout) ==
    LET deadline == IF timeout = Infinite THEN 0 ELSE tick + timeout
    IN  /\ Executing(t)
        /\ deadline <= MaxTick
        /\ WaitPass(t, objs, all, deadline, timeout = 0)
        /\ UNCHANGED <<created, tick>>

\* Faulty ResumeWait: a woken thread does not test its objects again.
ResumeWithoutRetest(t) ==
    /\ current = t
    /\ call[t].op = "wait"
    /\ Return(t)
    /\ UNCHANGED <<signal, created, tick>>

\* The thread comes back from KiBlockCurrentThread.
ResumeWait(t) ==
    /\ current = t
    /\ call[t].op = "wait"
    /\ \/ /\ call[t].status = "TIMEOUT"
          /\ Return(t)
          /\ UNCHANGED signal
       \/ /\ call[t].status # "TIMEOUT"
          /\ WaitPass(t, call[t].objs, call[t].all, call[t].deadline, FALSE)
    /\ UNCHANGED <<created, tick>>

\* NtDelayExecution spins in KeYield, interrupts masked, until its target tick.
NtDelayExecution(t, n) ==
    /\ Executing(t)
    /\ n > 0 /\ tick + n <= MaxTick
    /\ call' = [call EXCEPT ![t] = 
                    Call("delay", <<>>, FALSE, tick + n, "PENDING")]
    /\ KiSchedule(state, readyQ, quantum)
    /\ UNCHANGED <<created, tick, signal, waitQ>>

ResumeDelay(t) ==
    /\ current = t
    /\ call[t].op = "delay"
    /\ IF tick < call[t].deadline
       THEN /\ KiSchedule(state, readyQ, quantum)
            /\ UNCHANGED call
       ELSE /\ call' = [call EXCEPT ![t] = NoCall]
            /\ UNCHANGED <<state, current, readyQ, quantum>>
    /\ UNCHANGED <<created, tick, signal, waitQ>>

-----------------------------------------------------------------------------
(* Signalling: the caller keeps the CPU, the threads it wakes become ready. *)

Signal(o, value) ==
    /\ signal' = [signal EXCEPT ![o] = value]
    /\ KiSignalObject(o)
    /\ state' = KiReadyThread(Woken(o))
    /\ readyQ' = readyQ \o WakeOrder(o)
    /\ UNCHANGED <<current, created, quantum, tick>>

\* Faulty KeSetEvent: the state is set, nobody is woken.
SetEventSilently(t, e) ==
    /\ Executing(t)
    /\ signal' = [signal EXCEPT ![e] = 1]
    /\ UNCHANGED <<state, current, readyQ, created, quantum, tick, waitQ, call>>

\* The input thread sets and resets events too: the input events of the USER
\* message queues.
KeSetEvent(t, e) == Executing(t) /\ Signal(e, 1)

KeResetEvent(t, e) ==
    /\ Executing(t)
    /\ signal' = [signal EXCEPT ![e] = 0]
    /\ UNCHANGED <<state, current, readyQ, created, quantum, tick, waitQ, call>>

\* NtReleaseSemaphore refuses a count that passes the limit; KeReleaseSemaphore
\* clamps to it.
NtReleaseSemaphore(t, s, n) ==
    /\ Executing(t)
    /\ ~(signal[s] > Limit[s] - n)
    /\ Signal(s, IF signal[s] + n > Limit[s] THEN Limit[s] ELSE signal[s] + n)

KeReleaseMutant(t, m) == Executing(t) /\ Signal(m, 1)

-----------------------------------------------------------------------------
\* Faulty Init: the input thread is never created.
InitWithoutInput ==
    /\ state = [t \in Threads |-> IF t = BootThread THEN "Ready" ELSE "None"]
    /\ current = Idle
    /\ readyQ = <<BootThread>>
    /\ created = <<BootThread>>
    /\ quantum = 0
    /\ tick = 0
    /\ signal = [o \in Objects |-> 0]
    /\ waitQ = [o \in Objects |-> <<>>]
    /\ call = [t \in Threads |-> NoCall]

\* What the boot context leaves when it enables interrupts: the ring-3 process
\* and the input thread are queued, the idle thread is running with no quantum.
Init ==
    /\ state = [t \in Threads |->
                    IF t \in {BootThread, InputThread} THEN "Ready" ELSE "None"]
    /\ current = Idle
    /\ readyQ = <<BootThread, InputThread>>
    /\ created = <<BootThread, InputThread>>
    /\ quantum = 0
    /\ tick = 0
    /\ signal = [o \in Objects |-> 0]
    /\ waitQ = [o \in Objects |-> <<>>]
    /\ call = [t \in Threads |-> NoCall]

Next ==
    \/ KeClockTick
    \/ \E t \in Threads :
          \/ KeYield(t)
          \/ \E e \in NotificationEvents \cup SynchronizationEvents :
                KeSetEvent(t, e) \/ KeResetEvent(t, e)
    \/ \E t \in UserThreads :
          \/ NtCreateThreadEx(t)
          \/ KeTerminateThread(t)
          \/ ResumeWait(t)
          \/ ResumeDelay(t)
          \/ \E objs \in WaitLists, all \in BOOLEAN, timeout \in Timeouts :
                KeWaitForMultipleObjects(t, objs, all, timeout)
          \/ \E n \in 1..MaxTimeout : NtDelayExecution(t, n)
          \/ \E s \in Semaphores, n \in Releases : NtReleaseSemaphore(t, s, n)
          \/ \E m \in Mutants : KeReleaseMutant(t, m)

Spec == Init /\ [][Next]_vars

\* Fairness.  The CPU goes on executing a resumed call, and InputWorker goes
\* round its loop.  IRQ0 stays latched in the PIC while interrupts are masked
\* and is taken at the first instruction that runs with them enabled, so a
\* tick that is possible again and again is taken: strong fairness.  Ring-3
\* code may compute for ever: nothing is assumed of it.
Fairness ==
    /\ SF_vars(KeClockTick)
    /\ WF_vars(KeYield(InputThread))
    /\ \A t \in UserThreads : WF_vars(ResumeWait(t)) /\ WF_vars(ResumeDelay(t))

FairSpec == Spec /\ Fairness

-----------------------------------------------------------------------------
(* Properties *)

States == {"None", "Ready", "Running", "Waiting", "Terminated"}
Calls ==
    {c \in [op : {"none", "wait", "delay"}, objs : WaitLists \cup {<<>>},
            all : BOOLEAN, deadline : 0..MaxTick,
            status : {"PENDING", "SUCCESS", "TIMEOUT"}] :
        c.op = "wait" => c.objs \in WaitLists}

\* Type invariant.
TypeOK ==
    /\ state \in [Threads -> States]
    /\ current \in Threads \cup {Idle}
    /\ readyQ \in Seq(Threads)
    /\ created \in Seq(Threads)
    /\ quantum \in 0..DEFAULT_QUANTUM
    /\ tick \in 0..MaxTick
    /\ signal \in [Objects -> Int]
    /\ waitQ \in [Objects -> Seq(Threads \X (Nat \ {0}))]
    /\ call \in [Threads -> Calls]

\* The ready queue holds exactly the ready threads, each once, and the only
\* thread that is running is the current one: no thread is queued twice by a
\* wake-up that races a timeout, and none is forgotten (KiReadyThread,
\* KiSchedule).
ReadyQueueOK ==
    /\ NoRepeats(readyQ)
    /\ \A t \in Threads : t \in Entries(readyQ) <=> state[t] = "Ready"
    /\ \A t \in Threads : t = current <=> state[t] = "Running"

\* The wait lists hold exactly the wait blocks of the waiting threads, one for
\* each object a thread waits for, each once: waking a thread through one
\* object takes its blocks off the lists of all the others, and so does a
\* timeout (KiUnlinkThreadWait).
WaitListsOK ==
    \A o \in Objects :
        /\ NoRepeats(waitQ[o])
        /\ \A b \in Entries(waitQ[o]) :
              /\ state[b[1]] = "Waiting"
              /\ b[2] \in DOMAIN call[b[1]].objs
              /\ call[b[1]].objs[b[2]] = o
        /\ \A t \in Threads :
              state[t] = "Waiting" =>
                  \A i \in DOMAIN call[t].objs :
                      call[t].objs[i] = o => <<t, i>> \in Entries(waitQ[o])

\* No thread sleeps on a wait that could be satisfied: a signal that comes
\* before, between or after the tests of any number of waiters is never lost
\* to a thread that stays blocked (KeWaitForMultipleObjects, KiSignalObject).
NoLostWakeup ==
    \A t \in Threads :
        state[t] = "Waiting" => ~CanSatisfy(call[t].objs, call[t].all)

\* Every thread that was created is on the process's thread list once, so that
\* the clock meets every waiting thread; a waiting thread is inside a wait.
CreatedOK ==
    /\ NoRepeats(created)
    /\ \A t \in Threads : t \in Entries(created) <=> state[t] # "None"
    /\ \A t \in Threads : state[t] = "Waiting" => call[t].op = "wait"

\* The inductive invariant.
IInv == TypeOK /\ ReadyQueueOK /\ WaitListsOK /\ NoLostWakeup /\ CreatedOK

\* "Only as many waiters as there are signals succeed, and the rest block
\* again" (dispatcher.c, 6-8): the waiters that retest an object after one
\* signal never drive its count below zero, nor a release past its limit.
SignalInRange ==
    \A o \in Objects :
        signal[o] \in 0..(IF o \in Semaphores THEN Limit[o] ELSE 1)

\* A wait that blocked returns either because it can be satisfied at that very
\* instant, or because its deadline has come, and then it takes no signal with
\* it: whatever mixture of wake-ups, ticks and rivals came before (the retest in
\* the loop of KeWaitForMultipleObjects).
WaitOutcomes ==
    [][\A t \in UserThreads :
          call[t].op = "wait" /\ call'[t] = NoCall =>
              \/ CanSatisfy(call[t].objs, call[t].all)
              \/ /\ call[t].deadline # 0 /\ tick >= call[t].deadline
                 /\ signal' = signal]_vars

\* A wait with a deadline returns, whoever takes the signals and however often
\* the thread is woken only to block again (KeClockTick, ResumeWait).
TimedWaitReturns ==
    \A t \in UserThreads :
        (call[t].op = "wait" /\ call[t].deadline # 0) ~> call[t].op # "wait"

\* NtDelayExecution returns although it polls with interrupts masked: some
\* thread that runs with them enabled always gets the CPU and lets the clock
\* in.
DelayReturns ==
    \A t \in UserThreads : call[t].op = "delay" ~> call[t].op # "delay"

\* Waits with a deadline and delays end.
TimedCallsReturn == TimedWaitReturns /\ DelayReturns

\* Round robin: a ready thread gets the CPU (KiSchedule, KeClockTick).
ReadyThreadRuns ==
    \A t \in Threads : state[t] = "Ready" ~> current = t
=============================================================================
