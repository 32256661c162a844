------------------------------ MODULE UserQueue ------------------------------
(***************************************************************************)
(* Message queues, update regions and input events of USER: the part of    *)
(* kernel/ke/syscall.c that decides when a message loop has work, and the  *)
(* two ways a loop waits for it: by polling inside GetMessage, and asleep  *)
(* on the thread's input event (MsgWaitForMultipleObjects).                *)
(*                                                                         *)
(* Services run with interrupts masked: one action is one service, or one  *)
(* turn of the polling loop of NtUserGetMessage and NtUserWaitMessage.     *)
(* Ring 3 names only windows it was given: the ones created so far, the    *)
(* destroyed ones among them.                                              *)
(***************************************************************************)
EXTENDS Integers, Sequences

CONSTANTS
    Threads,                        \* GUI threads, with ids that have a queue
    Messages,                       \* what can be posted
    USER_MESSAGE_QUEUE_CAPACITY,
    USER_PAINT_REDELIVERY,
    MaxWindows,                     \* window slots: 127 in the code
    NoOwner, NoMessage

ASSUME UserQueueAssumption ==
    /\ USER_MESSAGE_QUEUE_CAPACITY \in Nat \ {0}
    /\ USER_PAINT_REDELIVERY \in Nat \ {0}
    /\ MaxWindows \in Nat
    /\ NoOwner \notin Threads
    /\ NoMessage \notin Messages

VARIABLES
    msgs, head, tail,   \* USER_MSG_QUEUE of each thread
    event,              \* its InputEvent: "none" until it is asked for
    owner,              \* g_window_owner
    update,             \* g_window_update: WM_PAINTs still owed
    next_window_index,
    callback,           \* CallbackContinue and CallbackWindow of a creation
    mode                \* where the thread is: "run" in ring 3, "get" and
                        \* "wait" in the polling loops, "sleep" on its event

vars == <<msgs, head, tail, event, owner, update, next_window_index, callback, mode>>

Windows == 1..MaxWindows
Cells == 0..(USER_MESSAGE_QUEUE_CAPACITY - 1)
Created == 1..(next_window_index - 1)
NoCallback == <<"none", 0>>

-----------------------------------------------------------------------------
(* The input event *)

Succ(i) == (i + 1) % USER_MESSAGE_QUEUE_CAPACITY

\* The windows of t that still owe a WM_PAINT, given owners and updates.
Owed(t, own, upd) == {w \in Windows : upd[w] > 0 /\ own[w] = t}

\* Faulty KiUserSyncInputEvent: the event follows the queue only.
SyncQueueOnly(t, h, l, own, upd) ==
    IF event[t] = "none" THEN "none"
    ELSE IF h # l THEN "set" ELSE "reset"

\* The event of t after KiUserSyncInputEvent, given the queue's indices and the
\* windows.
KiUserSyncInputEvent(t, h, l, own, upd) ==
    IF event[t] = "none" THEN "none"
    ELSE IF h # l \/ Owed(t, own, upd) # {} THEN "set" ELSE "reset"

-----------------------------------------------------------------------------
(* Posting *)

\* Faulty Enqueue: a full ring takes one message more, over the oldest.
EnqueueUnchecked(u, m) ==
    LET next == Succ(head[u])
    IN  /\ msgs' = [msgs EXCEPT ![u][head[u]] = m]
        /\ head' = [head EXCEPT ![u] = next]
        /\ event' = [event EXCEPT ![u] =
                        KiUserSyncInputEvent(u, next, tail[u], owner, update)]
        /\ UNCHANGED <<tail, owner, update, next_window_index, callback, mode>>

\* KiUserEnqueueMessage and KiUserEnqueueThreadMessage on the queue of u: a full
\* ring refuses the message.
Enqueue(u, m) ==
    LET next == Succ(head[u])
    IN  /\ next # tail[u]
        /\ msgs' = [msgs EXCEPT ![u][head[u]] = m]
        /\ head' = [head EXCEPT ![u] = next]
        /\ event' = [event EXCEPT ![u] =
                        KiUserSyncInputEvent(u, next, tail[u], owner, update)]
        /\ UNCHANGED <<tail, owner, update, next_window_index, callback, mode>>

\* A message for a window goes to its owner; for no window, or one that nobody
\* owns any more, to the thread that posts it.
NtUserPostMessage(t, w, m) ==
    /\ mode[t] = "run"
    /\ Enqueue(IF w \in Windows /\ owner[w] # NoOwner THEN owner[w] ELSE t, m)

NtUserPostThreadMessage(t, u, m) == mode[t] = "run" /\ Enqueue(u, m)

-----------------------------------------------------------------------------
(* Taking *)

\* The window that a message loop of t paints next: the first in creation order.
KiUserNextUpdateWindow(t) ==
    CHOOSE w \in Owed(t, owner, update) :
        \A v \in Owed(t, owner, update) : w <= v

HasMessage(t) == head[t] # tail[t] \/ Owed(t, owner, update) # {}

\* A posted message comes first.  A WM_PAINT is counted whether or not it is
\* removed, and the last one owed settles the event.
KiUserTakeMessage(t, remove) ==
    \/ /\ head[t] # tail[t]
       /\ tail' = IF remove THEN [tail EXCEPT ![t] = Succ(tail[t])] ELSE tail
       /\ event' = IF remove
                   THEN [event EXCEPT ![t] =
                           KiUserSyncInputEvent(t, head[t], Succ(tail[t]), owner, update)]
                   ELSE event
       /\ UNCHANGED update
    \/ /\ head[t] = tail[t]
       /\ Owed(t, owner, update) # {}
       /\ LET w == KiUserNextUpdateWindow(t)
              left == [update EXCEPT ![w] = @ - 1]
          IN  /\ update' = left
              /\ event' = IF left[w] = 0
                          THEN [event EXCEPT ![t] =
                                  KiUserSyncInputEvent(t, head[t], tail[t], owner, left)]
                          ELSE event
       /\ UNCHANGED tail

\* One attempt of the thread t to take a message; without one it is next in
\* the mode otherwise.
Attempt(t, remove, otherwise) ==
    /\ \/ /\ HasMessage(t)
          /\ KiUserTakeMessage(t, remove)
          /\ mode' = [mode EXCEPT ![t] = "run"]
       \/ /\ ~HasMessage(t)
          /\ mode' = [mode EXCEPT ![t] = otherwise]
          /\ UNCHANGED <<tail, event, update>>
    /\ UNCHANGED <<msgs, head, owner, next_window_index, callback>>

NtUserPeekMessage(t, remove) == mode[t] = "run" /\ Attempt(t, remove, "run")
NtUserGetMessage(t) == mode[t] \in {"run", "get"} /\ Attempt(t, TRUE, "get")

\* Faulty NtUserWaitMessage: the loop does not look at the queue again.
WaitWithoutLooking(t) ==
    \/ mode[t] = "run" /\ Attempt(t, FALSE, "wait")
    \/ mode[t] = "wait" /\ UNCHANGED vars

NtUserWaitMessage(t) == mode[t] \in {"run", "wait"} /\ Attempt(t, FALSE, "wait")

-----------------------------------------------------------------------------
(* Sleeping on the input event *)

\* The event is made on first use and published in step with the queue.
KiUserGetInputEvent(t) ==
    /\ mode[t] = "run"
    /\ event' = [event EXCEPT ![t] =
                    IF head[t] # tail[t] \/ Owed(t, owner, update) # {}
                    THEN "set" ELSE "reset"]
    /\ UNCHANGED <<msgs, head, tail, owner, update, next_window_index, callback, mode>>

\* MsgWaitForMultipleObjects without a timeout or further handles: the thread
\* sleeps until its event is set.
MsgWait(t) ==
    /\ mode[t] = "run"
    /\ event[t] # "none"
    /\ mode' = [mode EXCEPT ![t] = "sleep"]
    /\ UNCHANGED <<msgs, head, tail, event, owner, update, next_window_index, callback>>

Wake(t) ==
    /\ mode[t] = "sleep"
    /\ event[t] = "set"
    /\ mode' = [mode EXCEPT ![t] = "run"]
    /\ UNCHANGED <<msgs, head, tail, event, owner, update, next_window_index, callback>>

-----------------------------------------------------------------------------
(* Windows *)

\* update[w] becomes n and the owner's event follows (KiUserInvalidateWindow,
\* KiUserValidateWindow).
SetUpdate(w, n) ==
    LET upd == [update EXCEPT ![w] = n]
    IN  /\ update' = upd
        /\ event' = [t \in Threads |->
                        IF t = owner[w]
                        THEN KiUserSyncInputEvent(t, head[t], tail[t], owner, upd)
                        ELSE event[t]]
        /\ UNCHANGED <<msgs, head, tail, owner, next_window_index, callback, mode>>

\* ShowWindow, SetWindowPos, InvalidateRect, RedrawWindow.
KiUserInvalidateWindow(t, w) ==
    mode[t] = "run" /\ SetUpdate(w, USER_PAINT_REDELIVERY)

\* BeginPaint, ValidateRect, RedrawWindow, and hiding a window.
KiUserValidateWindow(t, w) == mode[t] = "run" /\ SetUpdate(w, 0)

\* A slot is used once.  A window made visible owes its first WM_PAINT; one with
\* a window procedure is announced to it first.
NtUserCreateWindowEx(t, visible, proc) ==
    LET w == next_window_index
        own == [owner EXCEPT ![w] = t]
        upd == IF visible THEN [update EXCEPT ![w] = USER_PAINT_REDELIVERY] ELSE update
    IN  /\ mode[t] = "run"
        /\ w <= MaxWindows
        /\ next_window_index' = w + 1
        /\ owner' = own
        /\ update' = upd
        /\ event' = IF visible
                    THEN [event EXCEPT ![t] =
                            KiUserSyncInputEvent(t, head[t], tail[t], own, upd)]
                    ELSE event
        /\ callback' = IF proc /\ callback[t] = NoCallback
                       THEN [callback EXCEPT ![t] = <<"NCCREATE", w>>]
                       ELSE callback
        /\ UNCHANGED <<msgs, head, tail, mode>>

\* The window procedure answers WM_NCCREATE or WM_CREATE.  A refusal leaves the
\* window without an owner; an accepted WM_NCCREATE goes on to WM_CREATE unless
\* that callback cannot be armed (chained FALSE).
NtCallbackReturn(t, accepted, chained) ==
    /\ mode[t] = "run"
    /\ callback[t] # NoCallback
    /\ LET w == callback[t][2]
       IN  /\ owner' = IF accepted THEN owner ELSE [owner EXCEPT ![w] = NoOwner]
           /\ callback' = [callback EXCEPT ![t] =
                 IF accepted /\ chained /\ callback[t][1] = "NCCREATE"
                 THEN <<"WMCREATE", w>> ELSE NoCallback]
    /\ UNCHANGED <<msgs, head, tail, event, update, next_window_index, mode>>

NtUserDestroyWindow(t, w) ==
    /\ mode[t] = "run"
    /\ owner' = [owner EXCEPT ![w] = NoOwner]
    /\ UNCHANGED <<msgs, head, tail, event, update, next_window_index, callback, mode>>

-----------------------------------------------------------------------------
Init ==
    /\ msgs = [t \in Threads |-> [i \in Cells |-> NoMessage]]
    /\ head = [t \in Threads |-> 0]
    /\ tail = [t \in Threads |-> 0]
    /\ event = [t \in Threads |-> "none"]
    /\ owner = [w \in Windows |-> NoOwner]
    /\ update = [w \in Windows |-> 0]
    /\ next_window_index = 1
    /\ callback = [t \in Threads |-> NoCallback]
    /\ mode = [t \in Threads |-> "run"]

Next ==
    \E t \in Threads :
        \/ \E m \in Messages : \/ \E w \in Created \cup {0} : NtUserPostMessage(t, w, m)
                               \/ \E u \in Threads : NtUserPostThreadMessage(t, u, m)
        \/ \E remove \in BOOLEAN : NtUserPeekMessage(t, remove)
        \/ NtUserGetMessage(t)
        \/ NtUserWaitMessage(t)
        \/ KiUserGetInputEvent(t)
        \/ MsgWait(t)
        \/ Wake(t)
        \/ \E visible, proc \in BOOLEAN : NtUserCreateWindowEx(t, visible, proc)
        \/ \E accepted, chained \in BOOLEAN : NtCallbackReturn(t, accepted, chained)
        \/ \E w \in Created : \/ KiUserInvalidateWindow(t, w)
                              \/ KiUserValidateWindow(t, w)
                              \/ NtUserDestroyWindow(t, w)

Spec == Init /\ [][Next]_vars

\* The CPU goes on executing a thread inside a service and one that is ready;
\* nothing is assumed of what ring 3 calls.
Fairness == \A t \in Threads : /\ WF_vars(Wake(t))
                               /\ WF_vars(mode[t] = "get" /\ NtUserGetMessage(t))
                               /\ WF_vars(mode[t] = "wait" /\ NtUserWaitMessage(t))

FairSpec == Spec /\ Fairness

-----------------------------------------------------------------------------
(* Properties *)

\* Type invariant.
TypeOK ==
    /\ msgs \in [Threads -> [Cells -> Messages \cup {NoMessage}]]
    /\ head \in [Threads -> Cells]
    /\ tail \in [Threads -> Cells]
    /\ event \in [Threads -> {"none", "reset", "set"}]
    /\ owner \in [Windows -> Threads \cup {NoOwner}]
    /\ update \in [Windows -> 0..USER_PAINT_REDELIVERY]
    /\ next_window_index \in 1..(MaxWindows + 1)
    /\ callback \in [Threads -> {"none", "NCCREATE", "WMCREATE"} \X (Windows \cup {0})]
    /\ mode \in [Threads -> {"run", "get", "wait", "sleep"}]

\* "The event has to fire for it too or the loop sleeps through the repaint"
\* (525-526): whoever posts, shows, paints, hides, creates or destroys, a thread
\* with a message or a WM_PAINT to come never finds its input event unset.
WorkSignalled ==
    \A t \in Threads : event[t] # "none" /\ HasMessage(t) => event[t] = "set"

\* "Keep a thread's input event in step with its queue" (522), "signaled while
\* the queue is non-empty" (508): a message loop that finds its event set has
\* something to take, else it goes round without ever sleeping.
EventInStep ==
    \A t \in Threads : event[t] = "set" => HasMessage(t)

\* The messages in the ring of t, oldest first.
Contents(t) ==
    LET n == (head[t] - tail[t]) % USER_MESSAGE_QUEUE_CAPACITY
    IN  [i \in 1..n |-> msgs[t][(tail[t] + i - 1) % USER_MESSAGE_QUEUE_CAPACITY]]

Fifo == INSTANCE MessageFifo
            WITH q <- [t \in Threads |-> Contents(t)],
                 Bound <- USER_MESSAGE_QUEUE_CAPACITY - 1

\* The rings behave as bounded first-in first-out queues, across wrap-around
\* and whatever two threads post at once (KiUserEnqueueMessage,
\* KiUserTakeMessage).
ImplementsFifo == Fifo!Spec

\* A thread asleep on its input event, or polling, while a message is in its
\* queue goes on: a message posted before, during or after the call that put it
\* to sleep is not missed.
SleeperGoesOn ==
    \A t \in Threads : (mode[t] # "run" /\ head[t] # tail[t]) ~> mode[t] = "run"
=============================================================================
