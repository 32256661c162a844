----------------------------- MODULE TimerQueue -----------------------------
(***************************************************************************)
(* Timer-queue timers and registered waits of kernel32.  Each has a thread *)
(* of its own that sleeps or waits, tests Stop and calls back; clients     *)
(* change and delete them from other threads without a lock.               *)
(***************************************************************************)
EXTENDS Naturals

CONSTANTS Clients, Timers, Waits,
          Periods,   \* what Due and Period may be; 0 is at once, or once
          MaxCalls   \* bound on the calls of a timer in a run

TimerAssumption ==
  /\ 0 \in Periods /\ Periods \subseteq Nat /\ MaxCalls \in Nat \ {0}
  /\ Timers \cap Waits = {}

VARIABLES timer,    \* TIMERQ_K and the place of its thread
          wait,     \* WAITQ_K and the place of its thread
          client,   \* what a client is waiting for
          after     \* callbacks that began after Stop was set

vars == <<timer, wait, client, after>>

NoTimer == [at |-> "none", due |-> 0, period |-> 0, stop |-> FALSE, calls |-> 0]
NoWait == [at |-> "none", stop |-> FALSE]

Init ==
  /\ timer = [t \in Timers |-> NoTimer]
  /\ wait = [w \in Waits |-> NoWait]
  /\ client = [c \in Clients |-> [at |-> "idle"]]
  /\ after = [x \in Timers \cup Waits |-> 0]

Free(c) == client[c].at = "idle"
Exists(t) == timer[t].at # "none"

\* The allocation and the thread; without either nothing is left.
CreateTimerQueueTimer(c, t, due, period) ==
  /\ Free(c) /\ ~Exists(t)
  /\ timer' = [timer EXCEPT ![t] = [NoTimer EXCEPT !.at = "start", !.due = due, !.period = period]]
  /\ UNCHANGED <<wait, client, after>>

ChangeTimerQueueTimer(c, t, due, period) ==
  /\ Free(c) /\ Exists(t)
  /\ timer' = [timer EXCEPT ![t].due = due, ![t].period = period]
  /\ UNCHANGED <<wait, client, after>>

\* Stop is set; the caller that asked for it waits for the thread.
DeleteTimerQueueTimer(c, t, waits) ==
  /\ Free(c) /\ Exists(t)
  /\ timer' = [timer EXCEPT ![t].stop = TRUE]
  /\ client' = [client EXCEPT ![c] = IF waits THEN [at |-> "deleting", of |-> t] ELSE @]
  /\ UNCHANGED <<wait, after>>

WaitForThread(c) ==
  /\ client[c].at = "deleting" /\ timer[client[c].of].at = "ended"
  /\ client' = [client EXCEPT ![c].at = "deleted"]
  /\ UNCHANGED <<timer, wait, after>>

Goes(t, from, to) ==
  /\ timer[t].at = from
  /\ timer' = [timer EXCEPT ![t].at = to]
  /\ UNCHANGED <<wait, client, after>>

\* timerq_thread: Stop is read, ...
Test(t) ==
  /\ timer[t].at = "test"
  /\ timer[t].stop \/ timer[t].calls < MaxCalls
  /\ timer' = [timer EXCEPT ![t].at = IF timer[t].stop THEN "last" ELSE "call",
                            ![t].calls = IF timer[t].stop THEN @ ELSE @ + 1]
  /\ UNCHANGED <<wait, client, after>>

\* ... the callback begins, ...
Callback(t) ==
  /\ timer[t].at = "call"
  /\ timer' = [timer EXCEPT ![t].at = "calling"]
  /\ after' = [after EXCEPT ![t] = IF timer[t].stop THEN @ + 1 ELSE @]
  /\ UNCHANGED <<wait, client>>

\* ... and returns; the period as it is then decides whether there is another round.
\* Sleep is a step that takes its time.
Return(t) ==
  IF timer[t].period = 0 THEN Goes(t, "calling", "last") ELSE Goes(t, "calling", "sleep")

SleepDue(t) == Goes(t, "start", "test")
SleepPeriod(t) == Goes(t, "sleep", "test")

\* The callback with TRUE, and the end of the thread.
LastCall(t) == Goes(t, "last", "lastcalling")
Ends(t) == Goes(t, "lastcalling", "ended")

timerq_thread(t) ==
  SleepDue(t) \/ Test(t) \/ Callback(t) \/ Return(t) \/ SleepPeriod(t) \/ LastCall(t) \/ Ends(t)

RegisterWaitForSingleObject(c, w) ==
  /\ Free(c) /\ wait[w].at = "none"
  /\ wait' = [wait EXCEPT ![w] = [NoWait EXCEPT !.at = "waiting"]]
  /\ UNCHANGED <<timer, client, after>>

UnregisterWaitEx(c, w) ==
  /\ Free(c) /\ wait[w].at # "none"
  /\ wait' = [wait EXCEPT ![w].stop = TRUE]
  /\ UNCHANGED <<timer, client, after>>

\* waitq_thread: the object is signalled or the time is up, Stop is read, ...
Waited(w) ==
  /\ wait[w].at = "waiting"
  /\ wait' = [wait EXCEPT ![w].at = IF wait[w].stop THEN "ended" ELSE "call"]
  /\ UNCHANGED <<timer, client, after>>

\* ... and there is one callback.
WaitCallback(w) ==
  /\ wait[w].at = "call"
  /\ wait' = [wait EXCEPT ![w].at = "ended"]
  /\ after' = [after EXCEPT ![w] = IF wait[w].stop THEN @ + 1 ELSE @]
  /\ UNCHANGED <<timer, client>>

Next ==
  \/ \E c \in Clients, t \in Timers : \E due, period \in Periods :
       CreateTimerQueueTimer(c, t, due, period) \/ ChangeTimerQueueTimer(c, t, due, period)
  \/ \E c \in Clients, t \in Timers, waits \in BOOLEAN : DeleteTimerQueueTimer(c, t, waits)
  \/ \E c \in Clients : WaitForThread(c)
  \/ \E t \in Timers : timerq_thread(t)
  \/ \E c \in Clients, w \in Waits : RegisterWaitForSingleObject(c, w) \/ UnregisterWaitEx(c, w)
  \/ \E w \in Waits : Waited(w) \/ WaitCallback(w)

\* Sleeps end, callbacks return, and the scheduler gives every thread its turn.
Spec ==
  /\ Init /\ [][Next]_vars
  /\ \A t \in Timers : WF_vars(timerq_thread(t))
  /\ \A c \in Clients : WF_vars(WaitForThread(c))

(***************************************************************************)
(* Properties.                                                             *)
(***************************************************************************)
\* After DeleteTimerQueueTimer has waited, no callback of the timer is running, and none
\* is still to come: the caller may free what it uses.
DeletedIsQuiet ==
  \A c \in Clients : client[c].at = "deleted" => timer[client[c].of].at = "ended"

\* Once Stop is set at most one callback other than the last begins: the one whose
\* thread had read Stop before (timerq_thread, waitq_thread).
OneCallAfterStop == \A x \in Timers \cup Waits : after[x] <= 1

\* A caller that waits for the thread of a timer it has stopped goes on, whatever the
\* period is changed to meanwhile.
DeleteReturns == \A c \in Clients : client[c].at = "deleting" ~> client[c].at = "deleted"
=============================================================================
