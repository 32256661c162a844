--------------------------- MODULE ThreadpoolWait ---------------------------
(***************************************************************************)
(* Thread-pool waits (user/kernel32.c): one monitor thread waits on a      *)
(* control event and on the objects of all armed items at once.  It takes a *)
(* snapshot under the lock, waits without it and looks again under the     *)
(* lock.  Objects are auto-reset events; the wait consumes what it returns *)
(* for, and prefers the lower index (Dispatcher).                          *)
(***************************************************************************)
EXTENDS Integers, Sequences, FiniteSets, FiniteSetsExt

CONSTANTS Items,     \* items in use, 1 .. n: the slot's number
          Objects,   \* events the clients wait for
          Closable,  \* those whose handle somebody closes
          Clients    \* threads that call SetThreadpoolWait

ThreadpoolWaitAssumption == Items \subseteq Nat \ {0} /\ Closable \subseteq Objects

VARIABLES object, waiting,  \* fields of the items
          control,          \* g_threadpool_wait_control is signalled
          signalled,        \* objects that are signalled
          closed,           \* objects whose handle was closed
          monitor,          \* [pc, snapshot (item to object), hit]
          client,           \* client[c]: owes a SetEvent of the control event
          calls,            \* calls[i]: what item i was called for since it was last set,
          late              \* but for the item that was set when its call was decided

vars == <<object, waiting, control, signalled, closed, monitor, client, calls, late>>
ghosts == <<calls, late>>

Loop == [pc |-> "loop", snap |-> << >>, hit |-> 0]

\* CreateThreadpoolWait for each item, and the monitor started by
\* threadpool_ensure_wait_monitor, which runs once (see ThreadPool for the
\* same three-state start).
Init ==
  /\ object = [i \in Items |-> "none"]
  /\ waiting = {}
  /\ control = FALSE /\ signalled = {} /\ closed = {}
  /\ monitor = Loop
  /\ client = [c \in Clients |-> FALSE]
  /\ calls = [i \in Items |-> << >>] /\ late = {}

\* The monitor is past the lock and about to call item i.
Decided(i) == monitor.pc = "call" /\ monitor.hit = i

\* The item is armed or disarmed under the lock; the control event follows.
SetThreadpoolWait(c, i, o) ==
  /\ ~ client[c]
  /\ object' = [object EXCEPT ![i] = o]
  /\ waiting' = IF o = "none" THEN waiting \ {i} ELSE waiting \cup {i}
  /\ client' = [client EXCEPT ![c] = TRUE]
  /\ calls' = [calls EXCEPT ![i] = << >>]
  /\ late' = IF Decided(i) THEN {i} ELSE late
  /\ UNCHANGED <<control, signalled, closed, monitor>>

SetControl(c) ==
  /\ client[c]
  /\ control' = TRUE
  /\ client' = [client EXCEPT ![c] = FALSE]
  /\ UNCHANGED <<object, waiting, signalled, closed, monitor, ghosts>>

\* Somebody signals an object, ...
SetEvent(o) ==
  /\ o \notin signalled \cup closed
  /\ signalled' = signalled \cup {o}
  /\ UNCHANGED <<object, waiting, control, closed, monitor, client, ghosts>>

\* ... or closes its handle, also while it is armed.
CloseHandle(o) ==
  /\ o \notin closed
  /\ closed' = closed \cup {o}
  /\ UNCHANGED <<object, waiting, control, signalled, monitor, client, ghosts>>

Snapshot ==
  /\ monitor.pc = "loop"
  /\ monitor' = [pc |-> "enter", snap |-> [i \in waiting |-> object[i]], hit |-> 0]
  /\ UNCHANGED <<object, waiting, control, signalled, closed, client, ghosts>>

\* WaitForMultipleObjects refuses a handle that is closed, and the monitor sleeps
\* before it begins again; ...
WaitFails ==
  /\ monitor.pc = "enter"
  /\ \E i \in DOMAIN monitor.snap : monitor.snap[i] \in closed
  /\ monitor' = Loop
  /\ UNCHANGED <<object, waiting, control, signalled, closed, client, ghosts>>

\* ... one it has begun goes on whatever is closed; ...
WaitBegins ==
  /\ monitor.pc = "enter"
  /\ \A i \in DOMAIN monitor.snap : monitor.snap[i] \notin closed
  /\ monitor' = [monitor EXCEPT !.pc = "wait"]
  /\ UNCHANGED <<object, waiting, control, signalled, closed, client, ghosts>>

\* ... it returns for the control event, ...
WokenByControl ==
  /\ monitor.pc = "wait" /\ control
  /\ control' = FALSE
  /\ monitor' = Loop
  /\ UNCHANGED <<object, waiting, signalled, closed, client, ghosts>>

\* ... or for the first object of the snapshot that is signalled.
WokenByObject ==
  LET hits == {i \in DOMAIN monitor.snap : monitor.snap[i] \in signalled}
  IN /\ monitor.pc = "wait" /\ ~ control /\ hits # {}
     /\ signalled' = signalled \ {monitor.snap[Min(hits)]}
     /\ monitor' = [monitor EXCEPT !.pc = "check", !.hit = Min(hits)]
     /\ UNCHANGED <<object, waiting, control, closed, client, ghosts>>

\* Faulty Check: the item is not looked at again.
CheckNothing ==
  /\ monitor.pc = "check"
  /\ waiting' = waiting \ {monitor.hit}
  /\ monitor' = [monitor EXCEPT !.pc = "call"]
  /\ UNCHANGED <<object, control, signalled, closed, client, ghosts>>

\* The item is to be called if it still waits for the same object.
Check ==
  LET i == monitor.hit
      invoke == i \in waiting /\ object[i] = monitor.snap[i]
  IN /\ monitor.pc = "check"
     /\ waiting' = IF invoke THEN waiting \ {i} ELSE waiting
     /\ monitor' = IF invoke THEN [monitor EXCEPT !.pc = "call"] ELSE Loop
     /\ UNCHANGED <<object, control, signalled, closed, client, ghosts>>

\* The lock is given back before the callback begins; ...
Callback ==
  LET i == monitor.hit
  IN /\ monitor.pc = "call"
     /\ calls' = IF i \in late THEN calls ELSE [calls EXCEPT ![i] = Append(@, monitor.snap[i])]
     /\ late' = {}
     /\ monitor' = [monitor EXCEPT !.pc = "run"]
     /\ UNCHANGED <<object, waiting, control, signalled, closed, client>>

\* ... it returns.
Called ==
  /\ monitor.pc = "run"
  /\ monitor' = Loop
  /\ UNCHANGED <<object, waiting, control, signalled, closed, client, ghosts>>

Monitor ==
  \/ Snapshot \/ WaitFails \/ WaitBegins \/ WokenByControl \/ WokenByObject
  \/ Check \/ Callback \/ Called

Next ==
  \/ \E c \in Clients, i \in Items, o \in Objects \cup {"none"} : SetThreadpoolWait(c, i, o)
  \/ \E c \in Clients : SetControl(c)
  \/ \E o \in Objects : SetEvent(o)
  \/ \E o \in Closable : CloseHandle(o)
  \/ Monitor

Spec ==
  /\ Init /\ [][Next]_vars
  /\ WF_vars(Monitor) /\ \A c \in Clients : WF_vars(SetControl(c))
-----------------------------------------------------------------------------
TypeOK ==
  /\ object \in [Items -> Objects \cup {"none"}]
  /\ waiting \subseteq Items
  /\ control \in BOOLEAN /\ signalled \subseteq Objects
  /\ monitor.pc \in {"loop", "enter", "wait", "check", "call", "run"}
  /\ monitor.pc \in {"check", "call", "run"} => monitor.hit \in Items

(* "one-shot until SetThreadpoolWait rearms it": since an item was last set, it was
   called at most once and for the object it was armed for, and not at all if it was
   disarmed; but SetThreadpoolWait does not wait for the one callback that the monitor,
   past the lock, may have been about to make. *)
CalledOnceWhenArmed ==
  /\ \A i \in Items : calls[i] # << >> => object[i] # "none" /\ calls[i] = <<object[i]>>
  /\ \A i \in late : Decided(i)

(* "one reconfiguration wake is enough to rebuild the full object snapshot":
   a monitor that waits has every armed item in its snapshot, or a wake is on
   its way. *)
SnapshotOrWake ==
  monitor.pc \in {"enter", "wait"} =>
    \/ control \/ \E c \in Clients : client[c]
    \/ \A i \in waiting : i \in DOMAIN monitor.snap /\ monitor.snap[i] = object[i]

(* Once the clients leave the items alone and no armed object is closed, the monitor
   sees every signal of an armed item's object; one closed object keeps it from all. *)
SignalReachesItem ==
  <>[](~ control /\ \A i \in waiting : object[i] \notin closed) =>
    \A i \in Items, o \in Objects :
      (i \in waiting /\ object[i] = o /\ o \in signalled)
        ~> (i \notin waiting \/ object[i] # o \/ o \notin signalled)
=============================================================================
