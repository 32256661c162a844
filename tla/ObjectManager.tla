---------------------------- MODULE ObjectManager ----------------------------
(***************************************************************************)
(* The object manager: objects with a pointer count, the handle table and  *)
(* the namespace (kernel/ob), and the services that hold references across *)
(* a switch of threads (kernel/ps/psobj.c, kernel/io/file.c,               *)
(* kernel/cm/registry.c, KiUserGetInputEvent of kernel/ke/syscall.c).      *)
(*                                                                         *)
(* A service runs with interrupts masked, so one action is one service; a  *)
(* wait is two, for the thread gives the CPU up in between.  Whether a     *)
(* wait is satisfied is the business of module Dispatcher: here it may     *)
(* return at once, or block and return at any later time.                  *)
(*                                                                         *)
(* Freed memory is allocated again: an object that is Free may come back   *)
(* as another one, and a stale pointer would then reach the wrong object.  *)
(***************************************************************************)
EXTENDS Integers, Sequences, FiniteSets

CONSTANTS
    Objects,            \* addresses of object bodies: what the pool has room for
    Root, Device, Console,  \* the objects that boot puts in the namespace
    Threads,            \* ring-3 threads
    BootThread,         \* the first of them
    OB_MAX_HANDLES,
    WaitHandles,        \* arrays of handles a wait is called with
    None                \* NULL

ASSUME ObAssumption ==
    /\ {Root, Device, Console} \subseteq Objects
    /\ Root # Device /\ Root # Console /\ Device # Console
    /\ IsFiniteSet(Objects) /\ IsFiniteSet(Threads)
    /\ BootThread \in Threads
    /\ OB_MAX_HANDLES \in Nat
    /\ WaitHandles \subseteq Seq(Nat) \ {<<>>}
    /\ None \notin Objects

VARIABLES
    ob,             \* objects and handle table
    wait,           \* the objects a thread that is switched out waits for
    thread,         \* "None", "Live" or "Terminated"
    termination,    \* KTHREAD.TerminationObject
    inputEvent      \* USER_MSG_QUEUE.InputEvent

vars == <<ob, wait, thread, termination, inputEvent>>

Waitable == {"Event", "Semaphore", "Thread"}
Types == Waitable \cup {"File", "Key", "Directory"}
Slots == 0..(OB_MAX_HANDLES - 1)

-----------------------------------------------------------------------------
(* Objects.  Each operator gives the value of ob after the call. *)

\* The body that ObCreateObject returns; None when the pool is exhausted.
Allocate(s) ==
    IF \E o \in Objects : s.type[o] = "Free"
    THEN CHOOSE o \in Objects : s.type[o] = "Free"
    ELSE None

ObCreateObject(s, o, type) ==
    [s EXCEPT !.type[o] = type, !.ptr[o] = 1, !.hnd[o] = 0, !.parent[o] = None]

ObReferenceObject(s, o) == [s EXCEPT !.ptr[o] = @ + 1]

\* How often o stands in the list held.
Times(held, o) == Cardinality({i \in DOMAIN held : held[i] = o})

\* ObDereferenceObject on every object of the list held; what reaches zero is
\* deleted: it leaves the namespace and its memory is free.
ObDereferenceObject(s, held) ==
    LET left == [o \in Objects |-> s.ptr[o] - Times(held, o)]
        deleted == {o \in Objects : Times(held, o) > 0 /\ left[o] = 0}
    IN  [s EXCEPT !.ptr = left,
                  !.type = [o \in Objects |->
                                IF o \in deleted THEN "Free" ELSE s.type[o]],
                  !.parent = [o \in Objects |->
                                IF o \in deleted THEN None ELSE s.parent[o]]]

-----------------------------------------------------------------------------
(* Handles *)

\* The slot a handle value names; -1 if none.  The handle of slot i is
\* (i + 1) * 4.
handle_to_index(value) ==
    IF value = 0 \/ value % 4 # 0 \/ value \div 4 > OB_MAX_HANDLES
    THEN -1
    ELSE value \div 4 - 1

FreeSlots(s) == {i \in Slots : s.table[i] = None}
CanCreateHandle(s) == FreeSlots(s) # {}

\* Faulty ObCreateHandle: the search does not look whether a slot is taken.
CreateHandleInFirstSlot(s, o) ==
    [ObReferenceObject(s, o) EXCEPT !.table[0] = o, !.hnd[o] = @ + 1]

\* The first free slot; a handle is a reference.
ObCreateHandle(s, o) ==
    LET i == CHOOSE i \in FreeSlots(s) : \A j \in FreeSlots(s) : i <= j
    IN  [ObReferenceObject(s, o) EXCEPT !.table[i] = o, !.hnd[o] = @ + 1]

\* The object a handle value stands for; None if the handle is invalid.
ObjectOf(s, value) ==
    LET i == handle_to_index(value) IN IF i = -1 THEN None ELSE s.table[i]

ObCloseHandle(s, value) ==
    LET o == ObjectOf(s, value)
    IN  ObDereferenceObject([s EXCEPT !.table[handle_to_index(value)] = None,
                                      !.hnd[o] = @ - 1], <<o>>)

\* A new object of the given type and a handle that keeps it alive.  When the
\* table is full the creator's reference is the last one and the object goes.
CreateWithHandle(s, type) ==
    LET o == Allocate(s)
        new == ObCreateObject(s, o, type)
    IN  IF o = None THEN s
        ELSE IF CanCreateHandle(s)
             THEN ObDereferenceObject(ObCreateHandle(new, o), <<o>>)
             ELSE ObDereferenceObject(new, <<o>>)

-----------------------------------------------------------------------------
(* Namespace.  An object's name is the object itself: names do not change. *)

\* Faulty ObInsertObjectByName: the namespace takes no reference.
InsertUnreferenced(s, dir, o) == [s EXCEPT !.parent[o] = dir]

ObInsertObjectByName(s, dir, o) ==
    [ObReferenceObject(s, o) EXCEPT !.parent[o] = dir]

\* The creator's reference on a directory is never released.
ObCreateDirectory(s, dir, o) ==
    ObInsertObjectByName(ObCreateObject(s, o, "Directory"), dir, o)

\* The object a path leads to; None if it leads nowhere.
ObLookupObjectByName(s, path) ==
    LET above(i) == IF i = 1 THEN Root ELSE path[i - 1]
    IN  IF path = <<>> THEN Root
        ELSE IF \A i \in DOMAIN path : /\ s.parent[path[i]] = above(i)
                                       /\ s.type[above(i)] = "Directory"
             THEN path[Len(path)]
             ELSE None

Paths == {<<>>, <<Device>>, <<Console>>, <<Device, Console>>, <<Console, Device>>}

-----------------------------------------------------------------------------
(* Services *)

\* The thread t is in ring 3 and calls a service.
Calls(t) == thread[t] = "Live" /\ wait[t] = <<>>

NtCreateEvent(t) ==
    /\ Calls(t)
    /\ ob' = CreateWithHandle(ob, "Event")
    /\ UNCHANGED <<wait, thread, termination, inputEvent>>

NtCreateSemaphore(t) ==
    /\ Calls(t)
    /\ ob' = CreateWithHandle(ob, "Semaphore")
    /\ UNCHANGED <<wait, thread, termination, inputEvent>>

\* NtCreateKey, NtOpenKey: cm_make_handle on a key that exists.
cm_make_handle(t) ==
    /\ Calls(t)
    /\ ob' = CreateWithHandle(ob, "Key")
    /\ UNCHANGED <<wait, thread, termination, inputEvent>>

\* A name in the namespace opens directly, others are loaded from the disk, if
\* they are there.
NtCreateFile(t, path) ==
    LET named == ObLookupObjectByName(ob, path)
    IN  /\ Calls(t)
        /\ \/ /\ named # None
              /\ LET s == ObReferenceObject(ob, named)
                 IN  ob' = ObDereferenceObject(
                              IF CanCreateHandle(s) THEN ObCreateHandle(s, named)
                                                    ELSE s, <<named>>)
           \/ named = None /\ ob' = CreateWithHandle(ob, "File")
        /\ UNCHANGED <<wait, thread, termination, inputEvent>>

\* Faulty NtCreateThreadEx: the KTHREAD holds no reference.
CreateThreadUnreferenced(t, u) ==
    LET o == Allocate(ob)
        new == ObCreateObject(ob, o, "Thread")
    IN  /\ Calls(t)
        /\ thread[u] = "None"
        /\ o # None
        /\ CanCreateHandle(ob)
        /\ ob' = ObDereferenceObject(ObCreateHandle(new, o), <<o>>)
        /\ thread' = [thread EXCEPT ![u] = "Live"]
        /\ termination' = [termination EXCEPT ![u] = o]
        /\ UNCHANGED <<wait, inputEvent>>

\* The KTHREAD of the new thread u owns a reference of its own, besides the
\* handle's, until the thread ends.  The thread runs even if there is no slot
\* left for its handle.  Or there is no memory for the KTHREAD and the object
\* goes again.
NtCreateThreadEx(t, u) ==
    LET o == Allocate(ob)
        new == ObReferenceObject(ObCreateObject(ob, o, "Thread"), o)
    IN  /\ Calls(t)
        /\ thread[u] = "None"
        /\ o # None
        /\ \/ /\ ob' = ObDereferenceObject(
                          IF CanCreateHandle(ob) THEN ObCreateHandle(new, o) ELSE new,
                          <<o>>)
              /\ thread' = [thread EXCEPT ![u] = "Live"]
              /\ termination' = [termination EXCEPT ![u] = o]
           \/ /\ ob' = ObDereferenceObject(ObCreateObject(ob, o, "Thread"), <<o>>)
              /\ UNCHANGED <<thread, termination>>
        /\ UNCHANGED <<wait, inputEvent>>

\* KeTerminateThread: the thread object is signalled, then released.
KeTerminateThread(t) ==
    /\ Calls(t)
    /\ thread' = [thread EXCEPT ![t] = "Terminated"]
    /\ termination' = [termination EXCEPT ![t] = None]
    /\ ob' = IF termination[t] = None THEN ob
             ELSE ObDereferenceObject(ob, <<termination[t]>>)
    /\ UNCHANGED <<wait, inputEvent>>

NtClose(t, value) ==
    /\ Calls(t)
    /\ ObjectOf(ob, value) # None
    /\ ob' = ObCloseHandle(ob, value)
    /\ UNCHANGED <<wait, thread, termination, inputEvent>>

\* The services that use an object for the time of the call: NtSetEvent,
\* NtResetEvent, NtReleaseSemaphore, NtReadFile, NtWriteFile, NtQueryFileInfo,
\* NtSetFilePosition and, through cm_key_from_handle, those on keys.
ObReferenceObjectByHandle(t, value) ==
    LET o == ObjectOf(ob, value)
    IN  /\ Calls(t)
        /\ o # None
        /\ ob' = ObDereferenceObject(ObReferenceObject(ob, o), <<o>>)
        /\ UNCHANGED <<wait, thread, termination, inputEvent>>

\* The objects that NtWaitForMultipleObjects has referenced when it stops: all
\* of them, or those before the first handle that is not waitable.
Referenced(s, values) ==
    LET ok(i) == /\ ObjectOf(s, values[i]) # None
                 /\ s.type[ObjectOf(s, values[i])] \in Waitable
        n == Cardinality({i \in DOMAIN values : \A j \in 1..i : ok(j)})
    IN  [i \in 1..n |-> ObjectOf(s, values[i])]

\* Faulty ReferenceAll: a wait relies on the caller's handles.
ReferenceNone(s, held) == s

ReferenceAll(s, held) ==
    [s EXCEPT !.ptr = [o \in Objects |-> s.ptr[o] + Times(held, o)]]

\* The references live until the wait returns, whatever becomes of the handles.
NtWaitForMultipleObjects(t, values) ==
    LET held == Referenced(ob, values)
        s == ReferenceAll(ob, held)
    IN  /\ Calls(t)
        /\ \/ /\ Len(held) = Len(values)
              /\ ob' = s
              /\ wait' = [wait EXCEPT ![t] = held]
           \/ /\ ob' = ObDereferenceObject(s, held)
              /\ UNCHANGED wait
        /\ UNCHANGED <<thread, termination, inputEvent>>

WaitReturns(t) ==
    /\ wait[t] # <<>>
    /\ ob' = ObDereferenceObject(ob, wait[t])
    /\ wait' = [wait EXCEPT ![t] = <<>>]
    /\ UNCHANGED <<thread, termination, inputEvent>>

\* The input event of the queue of t is made on first use.  The queue keeps the
\* bare pointer; the handle that ring 3 gets holds the only reference.
KiUserGetInputEvent(t) ==
    /\ Calls(t)
    /\ inputEvent[t] = None
    /\ Allocate(ob) # None
    /\ ob' = CreateWithHandle(ob, "Event")
    /\ inputEvent' = [inputEvent EXCEPT ![t] =
                        IF CanCreateHandle(ob) THEN Allocate(ob) ELSE None]
    /\ UNCHANGED <<wait, thread, termination>>

-----------------------------------------------------------------------------
NoObjects ==
    [type |-> [o \in Objects |-> "Free"], ptr |-> [o \in Objects |-> 0],
     hnd |-> [o \in Objects |-> 0], parent |-> [o \in Objects |-> None],
     table |-> [i \in Slots |-> None]]

\* ObpInitializeNamespace and IoInitializeObjects.
Boot ==
    LET root == ObCreateObject(NoObjects, Root, "Directory")
        device == ObCreateDirectory(root, Root, Device)
        console == ObInsertObjectByName(ObCreateObject(device, Console, "File"),
                                        Device, Console)
    IN  ObDereferenceObject(console, <<Console>>)

Init ==
    /\ ob = Boot
    /\ wait = [t \in Threads |-> <<>>]
    /\ thread = [t \in Threads |-> IF t = BootThread THEN "Live" ELSE "None"]
    /\ termination = [t \in Threads |-> None]
    /\ inputEvent = [t \in Threads |-> None]

\* The values ring 3 may pass as a handle: the valid ones and some that are not.
HandleValues == 0..(4 * OB_MAX_HANDLES + 4)

Next ==
    \E t \in Threads :
        \/ NtCreateEvent(t)
        \/ NtCreateSemaphore(t)
        \/ cm_make_handle(t)
        \/ \E path \in Paths : NtCreateFile(t, path)
        \/ \E u \in Threads : NtCreateThreadEx(t, u)
        \/ KeTerminateThread(t)
        \/ \E value \in HandleValues :
              NtClose(t, value) \/ ObReferenceObjectByHandle(t, value)
        \/ \E values \in WaitHandles : NtWaitForMultipleObjects(t, values)
        \/ WaitReturns(t)
        \/ KiUserGetInputEvent(t)

Spec == Init /\ [][Next]_vars

-----------------------------------------------------------------------------
(* Properties *)

\* Type invariant.
TypeOK ==
    /\ ob \in [type : [Objects -> Types \cup {"Free"}],
               ptr : [Objects -> Nat], hnd : [Objects -> Nat],
               parent : [Objects -> Objects \cup {None}],
               table : [Slots -> Objects \cup {None}]]
    /\ wait \in [Threads -> Seq(Objects)]
    /\ thread \in [Threads -> {"None", "Live", "Terminated"}]
    /\ termination \in [Threads -> Objects \cup {None}]
    /\ inputEvent \in [Threads -> Objects \cup {None}]

\* Those who hold a reference on o: handles, waits in progress, the thread whose
\* end o announces, the namespace, and boot for the two directories.
ByHandle(o) == {<<"handle", i>> : i \in {i \in Slots : ob.table[i] = o}}
ByWait(o) == UNION {{<<"wait", t, i>> : i \in {i \in DOMAIN wait[t] : wait[t][i] = o}}
                      : t \in Threads}
ByThread(o) == {<<"thread", t>> : t \in {t \in Threads : termination[t] = o}}
ByName(o) == IF ob.parent[o] # None THEN {<<"name">>} ELSE {}
ByBoot(o) == IF o \in {Root, Device} THEN {<<"boot">>} ELSE {}

Holders(o) == ByHandle(o) \cup ByWait(o) \cup ByThread(o) \cup ByName(o) \cup ByBoot(o)

\* The pointer count of every object is the number of those who hold it, and its
\* memory is free exactly when nobody does: nothing is freed under a handle, a
\* blocked waiter or a thread that has yet to signal its end, and nothing is
\* leaked, whatever handles are closed meanwhile and whichever creation fails
\* half way (ObReferenceObject, ObDereferenceObject and every caller of them).
PointerCountExact ==
    \A o \in Objects :
        /\ ob.ptr[o] = Cardinality(Holders(o))
        /\ ob.type[o] = "Free" <=> ob.ptr[o] = 0

\* The handle count of a live object is the number of its handles.
HandleCountExact ==
    \A o \in Objects :
        ob.hnd[o] = Cardinality({i \in Slots : ob.table[i] = o})

\* Every pointer that outlives a service leads to an object of the kind its user
\* takes it for, although the memory of deleted objects is used again: the
\* dispatcher header a wait is linked on, and the header a thread signals when
\* it ends (NtCreateThreadEx, 444-448).
PointersValid ==
    /\ \A t \in Threads : \A i \in DOMAIN wait[t] :
          ob.type[wait[t][i]] \in Waitable
    /\ \A t \in Threads :
          termination[t] # None => ob.type[termination[t]] = "Thread"

\* "An inserted object never reaches zero" (ob_core.c, 69-70): the console and
\* its directory can be looked up as long as the system runs.
NamespaceStays ==
    ObLookupObjectByName(ob, <<Device, Console>>) = Console

\* "It is never closed (the event lives as long as the thread's queue does)"
\* (psobj.c, 88-89): the event KiUserSyncInputEvent sets is there.
InputEventLives ==
    \A t \in Threads :
        inputEvent[t] # None => ob.type[inputEvent[t]] = "Event"
=============================================================================
