----------------------------- MODULE ThreadPool -----------------------------
(***************************************************************************)
(* Thread-pool work items (user/kernel32.c): a table of items, a queue     *)
(* behind a spin lock, a semaphore and worker threads that are started by  *)
(* the first submission.  A section under the lock is one step.  The       *)
(* semaphore's limit, 0x7fffffff, is never met: an item is queued once.    *)
(***************************************************************************)
EXTENDS Integers, Sequences, SequencesExt, FiniteSets, FiniteSetsExt

CONSTANTS Clients, Creators,   \* Creators: the clients that create items
          Workers,             \* threads CreateThread can make, in that order
          MAX_WORK,            \* MAX_THREADPOOL_WORK_ITEMS
          POOL,                \* workers a pool has (4)
          MaxTries             \* attempts to start the workers

ThreadPoolAssumption ==
  /\ Creators \subseteq Clients
  /\ {MAX_WORK, POOL, MaxTries} \subseteq Nat \ {0}
  /\ Workers \subseteq Nat

Items == 1 .. MAX_WORK

VARIABLES used, submitted,  \* fields of the items
          queue,            \* g_threadpool_work_head ... tail
          state,            \* g_threadpool_worker_state
          sem,              \* count of each semaphore made; the last is current
          worker,           \* worker[w]: [pc, on, item]
          client,           \* client[c]: [pc, item]
          given             \* given[i]: whom the item was returned to, numbered

vars == <<used, submitted, queue, state, sem, worker, client, given>>

Off == [pc |-> "off", on |-> 0, item |-> 0]
Idle == [pc |-> "idle", item |-> 0]

Init ==
  /\ used = {} /\ submitted = {}
  /\ queue = << >>
  /\ state = 0
  /\ sem = << >>
  /\ worker = [w \in Workers |-> Off]
  /\ client = [c \in Clients |-> Idle]
  /\ given = [i \in Items |-> {}]

Goto(c, pc, i) == client' = [client EXCEPT ![c] = [pc |-> pc, item |-> i]]

\* CreateThreadpoolWork looks for a slot without a lock ...
CreateThreadpoolWork(c) ==
  /\ c \in Creators /\ client[c] = Idle
  /\ Items \ used # {}
  /\ Goto(c, "fill", Min(Items \ used))
  /\ UNCHANGED <<used, submitted, queue, state, sem, worker, given>>

\* ... and marks it in a later step.
Fill(c) ==
  /\ client[c].pc = "fill"
  /\ used' = used \cup {client[c].item}
  /\ given' = [given EXCEPT ![client[c].item] = @ \cup {<<c, Cardinality(@)>>}]
  /\ Goto(c, "idle", 0)
  /\ UNCHANGED <<submitted, queue, state, sem, worker>>

SubmitThreadpoolWork(c, i) ==
  /\ client[c] = Idle
  /\ i \in used \ submitted
  /\ Goto(c, "ensure", i)
  /\ UNCHANGED <<used, submitted, queue, state, sem, worker, given>>

\* threadpool_ensure_workers: ready; ours to start; or somebody is starting.
EnsureReady(c) ==
  /\ client[c].pc = "ensure" /\ state = 2
  /\ Goto(c, "swap", client[c].item)
  /\ UNCHANGED <<used, submitted, queue, state, sem, worker, given>>

EnsureClaim(c) ==
  /\ client[c].pc = "ensure" /\ state = 0
  /\ state' = 1
  /\ Goto(c, "start", client[c].item)
  /\ UNCHANGED <<used, submitted, queue, sem, worker, given>>

\* CreateSemaphoreW fails.
NoSemaphore(c) ==
  /\ client[c].pc = "start"
  /\ state' = 0
  /\ Goto(c, "idle", 0)
  /\ UNCHANGED <<used, submitted, queue, sem, worker, given>>

\* CreateThread makes some of the workers; fewer than POOL is a failure, and
\* what was made stays.
StartWorkers(c) ==
  /\ client[c].pc = "start" /\ Len(sem) < MaxTries
  /\ sem' = Append(sem, 0)
  /\ \E made \in SUBSET {w \in Workers : worker[w] = Off} :
       /\ Cardinality(made) <= POOL
       /\ \A w \in made, v \in Workers \ made : worker[v] = Off => w < v
       /\ worker' = [w \in Workers |-> IF w \in made THEN [Off EXCEPT !.pc = "loop"] ELSE worker[w]]
       /\ \/ /\ Cardinality(made) = POOL
             /\ state' = 2
             /\ Goto(c, "swap", client[c].item)
          \/ /\ Cardinality(made) < POOL
             /\ state' = 0
             /\ Goto(c, "idle", 0)
  /\ UNCHANGED <<used, submitted, queue, given>>

\* A client that finds state 1 sleeps until it is 0 (and fails) or 2.
EnsureAwait(c) ==
  /\ client[c].pc = "ensure" /\ state = 1
  /\ Goto(c, "await", client[c].item)
  /\ UNCHANGED <<used, submitted, queue, state, sem, worker, given>>

Awaited(c) ==
  /\ client[c].pc = "await" /\ state # 1
  /\ Goto(c, IF state = 2 THEN "swap" ELSE "idle", IF state = 2 THEN client[c].item ELSE 0)
  /\ UNCHANGED <<used, submitted, queue, state, sem, worker, given>>

\* The compare-and-swap that lets one of two submissions through.
Swap(c) ==
  /\ client[c].pc = "swap"
  /\ \/ /\ client[c].item \notin submitted
        /\ submitted' = submitted \cup {client[c].item}
        /\ Goto(c, "link", client[c].item)
     \/ /\ client[c].item \in submitted
        /\ Goto(c, "idle", 0)
        /\ UNCHANGED submitted
  /\ UNCHANGED <<used, queue, state, sem, worker, given>>

Link(c) ==
  /\ client[c].pc = "link"
  /\ queue' = Append(queue, client[c].item)
  /\ Goto(c, "release", client[c].item)
  /\ UNCHANGED <<used, submitted, state, sem, worker, given>>

\* Faulty Release: a semaphore that is signalled is left alone.
ReleaseOnce(c) ==
  /\ client[c].pc = "release"
  /\ sem' = [sem EXCEPT ![Len(sem)] = 1]
  /\ Goto(c, "idle", 0)
  /\ UNCHANGED <<used, submitted, queue, state, worker, given>>

Release(c) ==
  /\ client[c].pc = "release"
  /\ sem' = [sem EXCEPT ![Len(sem)] = @ + 1]
  /\ Goto(c, "idle", 0)
  /\ UNCHANGED <<used, submitted, queue, state, worker, given>>
-----------------------------------------------------------------------------
\* threadpool_worker_start: the semaphore's handle is read, ...
WaitOn(w) ==
  /\ worker[w].pc = "loop"
  /\ worker' = [worker EXCEPT ![w].pc = "wait", ![w].on = Len(sem)]
  /\ UNCHANGED <<used, submitted, queue, state, sem, client, given>>

Wake(w) ==
  /\ worker[w].pc = "wait" /\ sem[worker[w].on] > 0
  /\ sem' = [sem EXCEPT ![worker[w].on] = @ - 1]
  /\ worker' = [worker EXCEPT ![w].pc = "take"]
  /\ UNCHANGED <<used, submitted, queue, state, client, given>>

\* ... the head is taken under the lock (an empty queue sends it back), ...
Take(w) ==
  /\ worker[w].pc = "take"
  /\ worker' = [worker EXCEPT ![w].pc = IF queue = << >> THEN "loop" ELSE "run",
                              ![w].item = IF queue = << >> THEN 0 ELSE Head(queue)]
  /\ queue' = IF queue = << >> THEN queue ELSE Tail(queue)
  /\ UNCHANGED <<used, submitted, state, sem, client, given>>

\* ... the callback runs, and the item can be submitted again.
Done(w) ==
  /\ worker[w].pc = "run"
  /\ submitted' = submitted \ {worker[w].item}
  /\ worker' = [worker EXCEPT ![w] = [Off EXCEPT !.pc = "loop"]]
  /\ UNCHANGED <<used, queue, state, sem, client, given>>

ClientStep(c) ==
  \/ Fill(c) \/ EnsureReady(c) \/ EnsureClaim(c) \/ NoSemaphore(c) \/ StartWorkers(c)
  \/ EnsureAwait(c) \/ Awaited(c) \/ Swap(c) \/ Link(c) \/ Release(c)

WorkerStep(w) == WaitOn(w) \/ Wake(w) \/ Take(w) \/ Done(w)

Next ==
  \/ \E c \in Clients : CreateThreadpoolWork(c) \/ ClientStep(c)
  \/ \E c \in Clients, i \in Items : SubmitThreadpoolWork(c, i)
  \/ \E w \in Workers : WorkerStep(w)

\* Threads are preempted and queued; callbacks return.
Spec ==
  /\ Init /\ [][Next]_vars
  /\ \A c \in Clients : WF_vars(ClientStep(c))
  /\ \A w \in Workers : WF_vars(WorkerStep(w))
-----------------------------------------------------------------------------
TypeOK ==
  /\ used \subseteq Items /\ submitted \subseteq used
  /\ queue \in Seq(Items) /\ state \in 0 .. 2
  /\ sem \in Seq(Nat) /\ Len(sem) <= MaxTries

Linking(i) == {c \in Clients : client[c].pc = "link" /\ client[c].item = i}
Running(i) == {w \in Workers : worker[w].pc = "run" /\ worker[w].item = i}
Queued(i) == {k \in DOMAIN queue : queue[k] = i}

(* A submission is in one place: about to be linked, in the queue once, or with
   one worker; and then its flag is set, whoever submits at the same time. *)
OnePlace ==
  \A i \in Items :
    Cardinality(Linking(i)) + Cardinality(Queued(i)) + Cardinality(Running(i))
      = IF i \in submitted THEN 1 ELSE 0

(* No wakeup is lost: the queue is as long as what the semaphore still holds,
   the workers it woke and the clients about to release it. *)
WakeupsMatch ==
  queue # << >> =>
    Len(queue) = Last(sem) + Cardinality({w \in Workers : worker[w].pc = "take"})
                           + Cardinality({c \in Clients : client[c].pc = "release"})

(* Every submission that was accepted is run to its end, also when the first
   attempt to start the workers failed half way. *)
WorkIsDone == \A i \in Items : i \in submitted ~> i \notin submitted

(* Two calls of CreateThreadpoolWork are given one slot only if they overlap: a
   thread's own calls, which follow each other, never are, whoever else looks for a
   slot and marks one in between. *)
SlotsPrivate ==
  \A i \in Items : \A x, y \in given[i] : x[1] = y[1] => x = y
=============================================================================
