---------------------------- MODULE MCDispatcher ----------------------------
(* Instances of Dispatcher for TLC. *)
EXTENDS Dispatcher, TLC

CONSTANTS u1, u2, u3, in, idle, ne, se, sem, mut

\* Waits on a semaphore, an auto-reset event and the thread object of u2.
MCWaitLists == {<<sem, se>>, <<se, u2>>}
\* Waits on a manual-reset event and a mutant.
MCLevelWaitLists == {<<ne>>, <<mut, ne>>}
\* A handle named twice in one call.
MCRepeatedWaitLists == {<<sem>>, <<sem, sem>>}

MCLimit == [s \in Semaphores |-> 2]
=============================================================================
