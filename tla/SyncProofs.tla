----------------------------- MODULE SyncProofs -----------------------------
(***************************************************************************)
(* Proofs about the run-time services of ring 3 that threads share, for    *)
(* any number of threads: timers and timeouts, the waits of the thread     *)
(* pool, thread-local storage, the work items of the thread pool, and the  *)
(* heap of ntdll, which implements the abstract Allocator.  LockProofs has *)
(* the locks and the times in the shared page.                             *)
(***************************************************************************)
EXTENDS LockProofs, WellFoundedInduction

\* The specifications of the parts without their fairness, as in LockProofs.
TimerSafe == Timer!Init /\ [][Timer!Next]_(Timer!vars)
PoolWaitSafe == PoolWait!Init /\ [][PoolWait!Next]_(PoolWait!vars)
PoolSafe == Pool!Init /\ [][Pool!Next]_(Pool!vars)
HeapSafe == Heap!Init /\ [][Heap!Next]_(Heap!vars)

LEMMA LeastOf ==
    ASSUME NEW S \in SUBSET Nat, S # {}
    PROVE  \E x \in S : \A y \in S : x <= y
<1>1. PICK x \in S : \A y \in S : <<y, x>> \notin OpToRel(<, Nat)
  BY NatLessThanWellFounded, WFMin
<1>2. ASSUME NEW y \in S PROVE ~(y < x)
  BY <1>1 DEF OpToRel
<1>3. QED
  BY <1>2

-----------------------------------------------------------------------------
(* Timers *)

TimerRec == [at : {"none", "start", "test", "call", "calling", "sleep", "last", "lastcalling", "ended"},
             due : Nat, period : Nat, stop : BOOLEAN, calls : Nat]

TimerTypes ==
    /\ timer \in [Timers -> TimerRec]
    /\ wait \in [Waits -> [at : {"none", "waiting", "call", "ended"}, stop : BOOLEAN]]
    /\ timerclient \in [Clients -> [at : {"idle"}] \cup [at : {"deleting", "deleted"}, of : Timers]]
    /\ after \in [Timers \cup Waits -> Nat]

\* Nothing has begun after Stop as long as Stop is not set; once a callback has, the thread
\* does not come back to it; a client deletes a timer that has been stopped.
TimerInv ==
    /\ TimerTypes
    /\ \A t \in Timers : /\ ~timer[t].stop => after[t] = 0
                         /\ timer[t].at = "none" => ~timer[t].stop
                         /\ timer[t].at = "call" => after[t] = 0
                         /\ after[t] <= 1
    /\ \A w \in Waits : wait[w].at # "ended" => after[w] = 0
    /\ \A w \in Waits : after[w] <= 1
    /\ \A c \in Clients : timerclient[c].at # "idle" => timer[timerclient[c].of].stop
    /\ Timer!DeletedIsQuiet

\* The two kinds have names of their own.
TimerDisjoint == Timers \cap Waits = {}

LEMMA TimerInit == ASSUME Timer!TimerAssumption PROVE Timer!Init => TimerInv
  BY DEF Timer!Init, TimerInv, TimerTypes, TimerRec, Timer!NoTimer, Timer!NoWait, Timer!DeletedIsQuiet

LEMMA TimerChanged ==
    ASSUME NEW r \in TimerRec, NEW n \in Nat, NEW m \in Nat
    PROVE  LET s == [r EXCEPT !.due = n, !.period = m] IN s \in TimerRec /\ s.at = r.at /\ (s.stop <=> r.stop)
  BY DEF TimerRec

LEMMA TimerStopped ==
    ASSUME NEW r \in TimerRec
    PROVE  LET s == [r EXCEPT !.stop = TRUE] IN s \in TimerRec /\ s.at = r.at /\ s.stop
  BY DEF TimerRec

\* A step that changes timer t and nothing else keeps the invariant when Stop stays set and
\* the thread does not go to its callback, or back from its end.
LEMMA TimerStep ==
    ASSUME TimerInv, TimerDisjoint, NEW t \in Timers, NEW r \in TimerRec,
           timer' = [timer EXCEPT ![t] = r], UNCHANGED <<wait, timerclient, after>>,
           timer[t].stop => r.stop,
           r.at = "none" => ~r.stop,
           r.at = "call" => after[t] = 0,
           timer[t].at = "ended" => r.at = "ended"
    PROVE  TimerInv'
<1>1. TimerTypes'
  BY DEF TimerInv, TimerTypes
<1>2. timer'[t] = r /\ \A u \in Timers : u # t => timer'[u] = timer[u]
  BY DEF TimerInv, TimerTypes
<1>3. \A u \in Timers : /\ ~timer'[u].stop => after[u] = 0
                        /\ timer'[u].at = "none" => ~timer'[u].stop
                        /\ timer'[u].at = "call" => after[u] = 0
                        /\ after[u] <= 1
  BY <1>2 DEF TimerInv
<1>4. \A c \in Clients : timerclient[c].at # "idle" => timerclient[c].of \in Timers
  BY DEF TimerInv, TimerTypes
<1>5. \A c \in Clients : timerclient[c].at # "idle" => timer'[timerclient[c].of].stop
  BY <1>2, <1>4 DEF TimerInv
<1>6. Timer!DeletedIsQuiet'
  BY <1>2, <1>4 DEF TimerInv, Timer!DeletedIsQuiet
<1>7. QED
  BY <1>1, <1>3, <1>5, <1>6 DEF TimerInv

LEMMA TimerThread ==
    ASSUME TimerInv, TimerDisjoint, NEW t \in Timers, Timer!timerq_thread(t)
    PROVE  TimerInv'
<1>0. timer[t] \in TimerRec /\ (timer[t].stop \/ after[t] = 0)
  BY DEF TimerInv, TimerTypes
<1>1. CASE Timer!Test(t)
  <2>1. timer[t].calls \in Nat /\ timer[t].calls + 1 \in Nat
    BY <1>0 DEF TimerRec
  <2>2. timer[t].at = "test" /\ UNCHANGED <<wait, timerclient, after>>
    BY <1>1 DEF Timer!Test
  <2>3. PICK at \in {"call", "last"}, n \in Nat :
           /\ timer' = [timer EXCEPT ![t] = [timer[t] EXCEPT !.at = at, !.calls = n]]
           /\ at = "call" => ~timer[t].stop
    <3>1. CASE timer[t].stop
      BY <1>1, <2>1, <3>1 DEF Timer!Test
    <3>2. CASE ~timer[t].stop
      BY <1>1, <2>1, <3>2 DEF Timer!Test
    <3>3. QED
      BY <3>1, <3>2
  <2>4. PICK r : r = [timer[t] EXCEPT !.at = at, !.calls = n]
    OBVIOUS
  <2>5. r \in TimerRec /\ r.at = at /\ (r.stop <=> timer[t].stop)
    <3>1. LET q == [timer[t] EXCEPT !.at = at, !.calls = n]
          IN q \in TimerRec /\ q.at = at /\ (q.stop <=> timer[t].stop)
      BY <1>0, <2>3 DEF TimerRec
    <3>2. QED
      BY <3>1, <2>4
  <2>6. QED
    BY <1>0, <2>2, <2>3, <2>4, <2>5, TimerStep
<1>2. CASE Timer!Callback(t)
  BY <1>2 DEF TimerInv, TimerTypes, TimerDisjoint, Timer!Callback, Timer!DeletedIsQuiet, TimerRec
<1>3. ASSUME NEW from \in {"start", "calling", "sleep", "last", "lastcalling"},
             NEW to \in {"test", "sleep", "last", "lastcalling", "ended"},
             Timer!Goes(t, from, to)
      PROVE  TimerInv'
  BY <1>3 DEF TimerInv, TimerTypes, TimerDisjoint, Timer!Goes, Timer!DeletedIsQuiet, TimerRec
<1>4. QED
  BY <1>1, <1>2, <1>3 DEF Timer!timerq_thread, Timer!SleepDue, Timer!Return, Timer!SleepPeriod, Timer!LastCall,
       Timer!Ends

LEMMA TimerClients ==
    ASSUME TimerInv, TimerDisjoint, Timer!TimerAssumption, NEW c \in Clients,
           \/ \E t \in Timers : \E due, period \in Periods :
                 Timer!CreateTimerQueueTimer(c, t, due, period) \/ Timer!ChangeTimerQueueTimer(c, t, due, period)
           \/ \E t \in Timers, waits \in BOOLEAN : Timer!DeleteTimerQueueTimer(c, t, waits)
           \/ Timer!WaitForThread(c)
           \/ \E w \in Waits : Timer!RegisterWaitForSingleObject(c, w) \/ Timer!UnregisterWaitEx(c, w)
    PROVE  TimerInv'
<1>0. /\ Periods \subseteq Nat
      /\ \A t \in Timers : timer[t] \in TimerRec /\ (timer[t].at = "none" => after[t] = 0 /\ ~timer[t].stop)
      /\ \A t \in Timers : timer[t].at = "call" => after[t] = 0
  BY DEF TimerInv, TimerTypes, Timer!TimerAssumption
<1>1. ASSUME NEW t \in Timers, NEW due \in Periods, NEW period \in Periods,
             Timer!CreateTimerQueueTimer(c, t, due, period)
      PROVE  TimerInv'
  <2> PICK r : r = [Timer!NoTimer EXCEPT !.at = "start", !.due = due, !.period = period]
    OBVIOUS
  <2>1. r \in TimerRec /\ r.at = "start" /\ ~r.stop
    BY <1>0 DEF TimerRec, Timer!NoTimer
  <2>2. timer[t].at = "none" /\ timer' = [timer EXCEPT ![t] = r] /\ UNCHANGED <<wait, timerclient, after>>
    BY <1>1 DEF Timer!CreateTimerQueueTimer, Timer!Exists
  <2>3. QED
    BY <1>0, <2>1, <2>2, TimerStep
<1>2. ASSUME NEW t \in Timers, NEW due \in Periods, NEW period \in Periods,
             Timer!ChangeTimerQueueTimer(c, t, due, period)
      PROVE  TimerInv'
  <2> PICK r : r = [timer[t] EXCEPT !.due = due, !.period = period]
    OBVIOUS
  <2>1. r \in TimerRec /\ r.at = timer[t].at /\ (r.stop <=> timer[t].stop)
    <3>1. timer[t] \in TimerRec /\ due \in Nat /\ period \in Nat
      BY <1>0
    <3>2. QED
      BY <3>1, TimerChanged
  <2>2. timer' = [timer EXCEPT ![t] = r] /\ UNCHANGED <<wait, timerclient, after>> /\ timer[t].at # "none"
    BY <1>2 DEF Timer!ChangeTimerQueueTimer, Timer!Exists
  <2>3. QED
    BY <1>0, <2>1, <2>2, TimerStep
<1>3. ASSUME NEW t \in Timers, NEW waits \in BOOLEAN, Timer!DeleteTimerQueueTimer(c, t, waits)
      PROVE  TimerInv'
  <2> PICK r : r = [timer[t] EXCEPT !.stop = TRUE]
    OBVIOUS
  <2>1. r \in TimerRec /\ r.at = timer[t].at /\ r.stop
    BY <1>0, TimerStopped
  <2>2. /\ timer' = [timer EXCEPT ![t] = r] /\ timer[t].at # "none"
        /\ timerclient' = [timerclient EXCEPT ![c] =
                             IF waits THEN [at |-> "deleting", of |-> t] ELSE timerclient[c]]
        /\ timerclient[c].at = "idle" /\ UNCHANGED <<wait, after>>
    BY <1>3 DEF Timer!DeleteTimerQueueTimer, Timer!Free, Timer!Exists
  <2>3. TimerTypes'
    BY <2>1, <2>2 DEF TimerInv, TimerTypes
  <2>4. /\ \A d \in Clients : d # c => timerclient'[d] = timerclient[d]
        /\ timerclient'[c].at = "idle" \/ (timerclient'[c].at = "deleting" /\ timerclient'[c].of = t)
    BY <2>2 DEF TimerInv, TimerTypes
  <2>5. timer'[t] = r /\ \A u \in Timers : u # t => timer'[u] = timer[u]
    BY <2>2 DEF TimerInv, TimerTypes
  <2>6. \A d \in Clients : timerclient[d].at # "idle" => timerclient[d].of \in Timers
    BY DEF TimerInv, TimerTypes
  <2>7. \A d \in Clients : timerclient'[d].at # "idle" => timer'[timerclient'[d].of].stop
    <3>1. \A d \in Clients : d # c /\ timerclient[d].at # "idle" => timer'[timerclient[d].of].stop
      BY <2>1, <2>5, <2>6 DEF TimerInv
    <3>2. ASSUME NEW d \in Clients, timerclient'[d].at # "idle" PROVE timer'[timerclient'[d].of].stop
      <4>1. CASE d = c
        BY <2>1, <2>4, <2>5, <3>2, <4>1
      <4>2. CASE d # c
        BY <2>4, <3>1, <3>2, <4>2
      <4>3. QED
        BY <4>1, <4>2
    <3>3. QED
      BY <3>2
  <2>8. Timer!DeletedIsQuiet'
    <3>1. \A d \in Clients : d # c /\ timerclient[d].at = "deleted" => timer'[timerclient[d].of].at = "ended"
      BY <2>1, <2>5, <2>6 DEF TimerInv, Timer!DeletedIsQuiet
    <3>2. QED
      BY <2>4, <3>1 DEF Timer!DeletedIsQuiet
  <2>9. QED
    BY <2>1, <2>2, <2>3, <2>5, <2>7, <2>8 DEF TimerInv
<1>4. CASE Timer!WaitForThread(c)
  <2>1. /\ timerclient' = [timerclient EXCEPT ![c].at = "deleted"]
        /\ timerclient[c].at = "deleting" /\ timer[timerclient[c].of].at = "ended"
        /\ UNCHANGED <<timer, wait, after>>
    BY <1>4 DEF Timer!WaitForThread
  <2>2. timerclient[c] \in [at : {"deleting", "deleted"}, of : Timers]
    BY <2>1 DEF TimerInv, TimerTypes
  <2>3. TimerTypes'
    BY <2>1, <2>2 DEF TimerInv, TimerTypes
  <2>4. /\ \A d \in Clients : d # c => timerclient'[d] = timerclient[d]
        /\ timerclient'[c].of = timerclient[c].of
    BY <2>1, <2>2 DEF TimerInv, TimerTypes
  <2>5. QED
    BY <2>1, <2>3, <2>4 DEF TimerInv, Timer!DeletedIsQuiet
<1>5. ASSUME NEW w \in Waits, Timer!RegisterWaitForSingleObject(c, w)
      PROVE  TimerInv'
  BY <1>5 DEF TimerInv, TimerTypes, TimerDisjoint, Timer!Free, Timer!RegisterWaitForSingleObject, Timer!NoWait, Timer!DeletedIsQuiet
<1>6. ASSUME NEW w \in Waits, Timer!UnregisterWaitEx(c, w)
      PROVE  TimerInv'
  <2>1. wait' = [wait EXCEPT ![w].stop = TRUE] /\ UNCHANGED <<timer, timerclient, after>>
    BY <1>6 DEF Timer!UnregisterWaitEx
  <2>2. TimerTypes'
    BY <2>1 DEF TimerInv, TimerTypes
  <2>3. \A v \in Waits : wait'[v].at = wait[v].at
    BY <2>1 DEF TimerInv, TimerTypes
  <2>4. QED
    BY <2>1, <2>2, <2>3 DEF TimerInv, Timer!DeletedIsQuiet
<1>7. QED
  BY <1>1, <1>2, <1>3, <1>4, <1>5, <1>6

LEMMA TimerNext ==
    ASSUME TimerInv, Timer!TimerAssumption, [Timer!Next]_(Timer!vars)
    PROVE  TimerInv'
<1>0. TimerDisjoint
  BY DEF TimerDisjoint, Timer!TimerAssumption
<1>1. CASE UNCHANGED Timer!vars
  BY <1>1 DEF Timer!vars, TimerInv, TimerTypes, Timer!DeletedIsQuiet
<1>2. ASSUME NEW w \in Waits, Timer!Waited(w)
      PROVE  TimerInv'
  BY <1>0, <1>2 DEF Timer!Waited, TimerInv, TimerTypes, TimerDisjoint, Timer!DeletedIsQuiet
<1>3. ASSUME NEW w \in Waits, Timer!WaitCallback(w)
      PROVE  TimerInv'
  BY <1>0, <1>3 DEF Timer!WaitCallback, TimerInv, TimerTypes, TimerDisjoint, Timer!DeletedIsQuiet
<1>4. QED
  BY <1>0, <1>1, <1>2, <1>3, TimerThread, TimerClients DEF Timer!Next

(* DeleteTimerQueueTimer that waits returns when the thread of the timer has ended, and
   the timer stays quiet: the caller may free what the callback uses. *)
THEOREM DeletedTimersAreQuiet ==
    ASSUME Timer!TimerAssumption
    PROVE  TimerSafe => []Timer!DeletedIsQuiet
<1>1. Timer!Init => TimerInv
  BY TimerInit
<1>2. TimerInv /\ [Timer!Next]_(Timer!vars) => TimerInv'
  BY TimerNext
<1>3. TimerInv => Timer!DeletedIsQuiet
  BY DEF TimerInv
<1>4. QED
  BY <1>1, <1>2, <1>3, PTL DEF TimerSafe

(* Once Stop is set, at most the callback whose thread had read Stop before begins
   (timerq_thread, waitq_thread), however the timer is changed meanwhile. *)
THEOREM OneCallbackAfterStop ==
    ASSUME Timer!TimerAssumption
    PROVE  TimerSafe => []Timer!OneCallAfterStop
<1>1. Timer!Init => TimerInv
  BY TimerInit
<1>2. TimerInv /\ [Timer!Next]_(Timer!vars) => TimerInv'
  BY TimerNext
<1>3. TimerInv => Timer!OneCallAfterStop
  BY DEF TimerInv, Timer!OneCallAfterStop
<1>4. QED
  BY <1>1, <1>2, <1>3, PTL DEF TimerSafe

-----------------------------------------------------------------------------
(* Timeouts *)

\* Rounding to whole ticks, down and up, is off by less than one.
LEMMA TicksBefore ==
    ASSUME NEW n \in Nat, NEW p \in Nat \ {0}
    PROVE  /\ n \div p \in Nat /\ (n \div p) * p \in Nat
           /\ (n \div p) * p <= n /\ n < (n \div p) * p + p
<1>1. PICK q, m : q = n \div p /\ m = n % p
  OBVIOUS
<1>2. q \in Nat /\ m \in 0..(p - 1) /\ n = q * p + m
  BY <1>1, Division
<1>3. q * p \in Nat
  BY <1>2
<1>4. q * p <= n /\ n < q * p + p
  BY <1>2, <1>3
<1>5. QED
  BY <1>1, <1>2, <1>3, <1>4

LEMMA TicksFor ==
    ASSUME NEW n \in Nat, NEW p \in Nat \ {0}
    PROVE  /\ (n + p - 1) \div p \in Nat /\ ((n + p - 1) \div p) * p \in Nat
           /\ ((n + p - 1) \div p) * p >= n /\ ((n + p - 1) \div p) * p < n + p
<1>1. PICK k : k = n + p - 1
  OBVIOUS
<1>2. k \in Nat
  BY <1>1
<1>3. /\ k \div p \in Nat /\ (k \div p) * p \in Nat
      /\ (k \div p) * p <= k /\ k < (k \div p) * p + p
  BY <1>2, TicksBefore
<1>4. PICK x : x = (k \div p) * p
  OBVIOUS
<1>5. x >= n /\ x < n + p
  BY <1>1, <1>3, <1>4
<1>6. QED
  BY <1>1, <1>3, <1>4, <1>5

LEMMA Distributed ==
    ASSUME NEW a \in Nat, NEW b \in Nat, NEW p \in Nat
    PROVE  (a + b) * p = a * p + b * p
  OBVIOUS

LEMMA MulAtLeast ==
    ASSUME NEW a \in Nat, NEW b \in Nat, NEW p \in Nat, a <= b
    PROVE  a * p <= b * p
  OBVIOUS

TimeoutRec == [at : {"idle", "waiting", "ended"}, how : {"none", "wait", "deadline", "forever", "delay"},
            asked : Nat, began : Nat, target : Int, ended : Nat]

\* The tick of a wait is at most one tick from what was asked for, on either side.
TargetOK(how, asked, began, target) ==
    /\ how = "wait" => /\ target \in Nat
                       /\ target * PER_TICK < began + asked + PER_TICK
                       /\ target * PER_TICK + PER_TICK > began + asked
    /\ how = "deadline" => /\ target \in Nat /\ target * PER_TICK >= asked
                           /\ target * PER_TICK < asked + PER_TICK \/ target * PER_TICK <= began

TimeoutInv ==
    /\ now \in Nat /\ timeout \in TimeoutRec
    /\ timeout.at # "idle" => TargetOK(timeout.how, timeout.asked, timeout.began, timeout.target)
    /\ timeout.at = "ended" /\ timeout.how \in {"wait", "deadline"} => timeout.target * PER_TICK <= timeout.ended

LEMMA TimeoutStep ==
    ASSUME TimeoutInv, NEW how \in {"wait", "deadline", "forever", "delay"}, NEW asked \in Nat,
           NEW target \in Int, TargetOK(how, asked, now, target), Timeout!Start(how, asked, target)
    PROVE  TimeoutInv'
<1>1. now' = now /\ timeout' = [at |-> "waiting", how |-> how, asked |-> asked, began |-> now,
                               target |-> target, ended |-> 0]
  BY DEF Timeout!Start
<1>2. timeout' \in TimeoutRec /\ now' \in Nat
  BY <1>1 DEF TimeoutInv, TimeoutRec
<1>3. /\ timeout'.at = "waiting" /\ timeout'.how = how /\ timeout'.asked = asked
      /\ timeout'.began = now /\ timeout'.target = target
  BY <1>1
<1>4. QED
  BY <1>2, <1>3 DEF TimeoutInv

LEMMA WaitTarget ==
    ASSUME Timeout!TimeoutsAssumption, now \in Nat, NEW value \in Int
    PROVE  LET target == Timeout!KeGetTickCount + Timeout!timeout_to_ticks(value)
               how == IF value <= 0 THEN "wait" ELSE "deadline"
               asked == IF value < 0 THEN -value ELSE value
           IN target \in Nat /\ asked \in Nat /\ TargetOK(how, asked, now, target)
<1>0. PER_TICK \in Nat \ {0}
  BY DEF Timeout!TimeoutsAssumption
<1>1. PICK p, q, w : p = PER_TICK /\ q = now \div PER_TICK /\ w = q * p
  OBVIOUS
<1>2. q \in Nat /\ w \in Nat /\ w <= now /\ now < w + p /\ Timeout!KeGetTickCount = q
  BY <1>0, <1>1, TicksBefore DEF Timeout!KeGetTickCount
<1>3. CASE value = 0
  <2>1. Timeout!timeout_to_ticks(value) = 0
    BY <1>3 DEF Timeout!timeout_to_ticks
  <2>2. TargetOK("wait", 0, now, q)
    BY <1>0, <1>1, <1>2 DEF TargetOK
  <2>3. QED
    BY <1>2, <1>3, <2>1, <2>2
<1>4. CASE value < 0
  <2>1. PICK n, k, x : n = -value /\ k = (n + p - 1) \div p /\ x = k * p
    OBVIOUS
  <2>2. n \in Nat /\ k \in Nat /\ x \in Nat /\ x >= n /\ x < n + p
    <3>1. n \in Nat /\ p \in Nat \ {0}
      BY <1>0, <1>1, <1>4, <2>1
    <3>2. QED
      BY <2>1, <3>1, TicksFor
  <2>3. Timeout!timeout_to_ticks(value) = k
    BY <1>1, <1>4, <2>1 DEF Timeout!timeout_to_ticks
  <2>4. (q + k) * p = w + x
    BY <1>0, <1>1, <1>2, <2>1, <2>2, Distributed
  <2>5. TargetOK("wait", n, now, q + k)
    <3>1. q + k \in Nat /\ (q + k) * PER_TICK = w + x /\ w + x \in Nat
      BY <1>1, <1>2, <2>2, <2>4
    <3>2. w + x < now + n + p /\ w + x + p > now + n
      BY <1>0, <1>1, <1>2, <2>2
    <3>3. QED
      BY <1>1, <3>1, <3>2 DEF TargetOK
  <2>6. QED
    BY <1>2, <1>4, <2>1, <2>2, <2>3, <2>5
<1>5. CASE value > 0 /\ value <= w
  <2>1. Timeout!timeout_to_ticks(value) = 0
    BY <1>1, <1>2, <1>5 DEF Timeout!timeout_to_ticks
  <2>2. TargetOK("deadline", value, now, q)
    BY <1>0, <1>1, <1>2, <1>5 DEF TargetOK
  <2>3. QED
    BY <1>2, <1>5, <2>1, <2>2
<1>6. CASE value > 0 /\ ~(value <= w)
  <2>1. PICK n, k, x : n = value - w /\ k = (n + p - 1) \div p /\ x = k * p
    OBVIOUS
  <2>2. n \in Nat /\ k \in Nat /\ x \in Nat /\ x >= n /\ x < n + p
    <3>1. n \in Nat /\ p \in Nat \ {0}
      BY <1>0, <1>1, <1>2, <1>6, <2>1
    <3>2. QED
      BY <2>1, <3>1, TicksFor
  <2>3. Timeout!timeout_to_ticks(value) = k
    <3>1. Timeout!timeout_to_ticks(value) = (value - w + p - 1) \div p
      BY <1>0, <1>1, <1>2, <1>6 DEF Timeout!timeout_to_ticks
    <3>2. value - w + p - 1 = n + p - 1
      BY <1>0, <1>1, <1>2, <2>1, <2>2
    <3>3. QED
      BY <2>1, <3>1, <3>2
  <2>4. (q + k) * p = w + x
    BY <1>0, <1>1, <1>2, <2>1, <2>2, Distributed
  <2>5. TargetOK("deadline", value, now, q + k)
    BY <1>0, <1>1, <1>2, <1>6, <2>1, <2>2, <2>4 DEF TargetOK
  <2>6. QED
    BY <1>2, <1>6, <2>1, <2>2, <2>3, <2>5
<1>7. QED
  BY <1>2, <1>3, <1>4, <1>5, <1>6

LEMMA NtWaitStep ==
    ASSUME TimeoutInv, Timeout!TimeoutsAssumption, NEW value \in Int, Timeout!NtWait(value)
    PROVE  TimeoutInv'
<1>1. PICK how, asked, target :
         /\ how = (IF value <= 0 THEN "wait" ELSE "deadline")
         /\ asked = (IF value < 0 THEN -value ELSE value)
         /\ target = Timeout!KeGetTickCount + Timeout!timeout_to_ticks(value)
  OBVIOUS
<1>2. target \in Nat /\ asked \in Nat /\ TargetOK(how, asked, now, target)
  BY <1>1, WaitTarget DEF TimeoutInv
<1>3. Timeout!Start(how, asked, target)
  BY <1>1 DEF Timeout!NtWait
<1>4. how \in {"wait", "deadline"}
  BY <1>1
<1>5. QED
  BY <1>2, <1>3, <1>4, TimeoutStep

LEMMA NtDelayStep ==
    ASSUME TimeoutInv, Timeout!TimeoutsAssumption, NEW interval \in Int, Timeout!NtDelayExecution(interval)
    PROVE  TimeoutInv'
<1>1. PICK units, wt :
         /\ units = (IF interval < 0 THEN -interval ELSE 0)
         /\ wt = (IF units \div PER_TICK = 0 THEN 1 ELSE units \div PER_TICK)
  OBVIOUS
<1>2. units \in Nat /\ PER_TICK \in Nat \ {0} /\ now \in Nat
  BY <1>1 DEF Timeout!TimeoutsAssumption, TimeoutInv
<1>3. Timeout!KeGetTickCount + wt \in Int
  BY <1>1, <1>2, TicksBefore DEF Timeout!KeGetTickCount
<1>4. Timeout!Start("delay", units, Timeout!KeGetTickCount + wt)
  BY <1>1 DEF Timeout!NtDelayExecution
<1>5. TargetOK("delay", units, now, Timeout!KeGetTickCount + wt)
  BY DEF TargetOK
<1>6. QED
  BY <1>2, <1>3, <1>4, <1>5, TimeoutStep

LEMMA ForeverStep ==
    ASSUME TimeoutInv, Timeout!NtWaitForever
    PROVE  TimeoutInv'
<1>1. Timeout!Start("forever", 0, -1)
  BY DEF Timeout!NtWaitForever, Timeout!Never
<1>2. TargetOK("forever", 0, now, -1)
  BY DEF TargetOK
<1>3. QED
  BY <1>1, <1>2, TimeoutStep

LEMMA EndsStep ==
    ASSUME TimeoutInv, Timeout!TimeoutsAssumption, Timeout!Ends
    PROVE  TimeoutInv'
<1>1. /\ timeout' = [timeout EXCEPT !.at = "ended", !.ended = now] /\ now' = now
      /\ timeout.at = "waiting" /\ now \div PER_TICK >= timeout.target
  BY DEF Timeout!Ends, Timeout!KeGetTickCount
<1>2. /\ timeout' \in TimeoutRec /\ timeout'.at = "ended" /\ timeout'.ended = now
      /\ timeout'.how = timeout.how /\ timeout'.asked = timeout.asked
      /\ timeout'.began = timeout.began /\ timeout'.target = timeout.target
  BY <1>1 DEF TimeoutInv, TimeoutRec
<1>3. TargetOK(timeout.how, timeout.asked, timeout.began, timeout.target)
  BY <1>1 DEF TimeoutInv
<1>4. ASSUME timeout.how \in {"wait", "deadline"} PROVE timeout.target * PER_TICK <= now
  <2>1. PICK a, b : a = timeout.target /\ b = now \div PER_TICK
    OBVIOUS
  <2>2. a \in Nat /\ PER_TICK \in Nat \ {0} /\ now \in Nat
    BY <1>3, <1>4, <2>1 DEF TargetOK, Timeout!TimeoutsAssumption, TimeoutInv
  <2>3. b \in Nat /\ b * PER_TICK <= now /\ a <= b
    BY <1>1, <2>1, <2>2, TicksBefore
  <2>4. a * PER_TICK <= b * PER_TICK
    BY <2>2, <2>3, MulAtLeast
  <2>5. a * PER_TICK \in Nat /\ b * PER_TICK \in Nat
    BY <2>2, <2>3
  <2>6. QED
    BY <2>1, <2>2, <2>3, <2>4, <2>5
<1>5. QED
  BY <1>1, <1>2, <1>3, <1>4 DEF TimeoutInv

LEMMA TimeoutNext ==
    ASSUME TimeoutInv, Timeout!TimeoutsAssumption, [Timeout!Next]_(Timeout!vars)
    PROVE  TimeoutInv'
<1>1. CASE UNCHANGED Timeout!vars
  BY <1>1 DEF Timeout!vars, TimeoutInv
<1>2. CASE Timeout!Time
  BY <1>2 DEF Timeout!Time, TimeoutInv
<1>3. CASE Timeout!Again
  <2>1. timeout' = Timeout!NoCall /\ now' = now
    BY <1>3 DEF Timeout!Again
  <2>2. timeout' \in TimeoutRec /\ timeout'.at = "idle"
    BY <2>1 DEF Timeout!NoCall, TimeoutRec
  <2>3. QED
    BY <2>1, <2>2 DEF TimeoutInv
<1>4. ASSUME NEW ms \in 0..INFINITE, Timeout!Timeout(ms)
      PROVE  TimeoutInv'
  <2>1. -(ms * PER_MS) \in Int
    BY DEF Timeout!TimeoutsAssumption
  <2>2. QED
    BY <1>4, <2>1, NtWaitStep, ForeverStep DEF Timeout!Timeout
<1>5. ASSUME NEW ms \in 0..INFINITE, Timeout!Sleep(ms)
      PROVE  TimeoutInv'
  <2>1. -(ms * PER_MS) \in Int
    BY DEF Timeout!TimeoutsAssumption
  <2>2. QED
    BY <1>5, <2>1, NtDelayStep DEF Timeout!Sleep
<1>6. ASSUME NEW value \in (-MaxInterval)..MaxInterval, Timeout!NtWait(value)
      PROVE  TimeoutInv'
  BY <1>6, NtWaitStep
<1>7. ASSUME NEW interval \in (-MaxInterval)..0, Timeout!NtDelayExecution(interval)
      PROVE  TimeoutInv'
  BY <1>7, NtDelayStep
<1>8. QED
  BY <1>1, <1>2, <1>3, <1>4, <1>5, <1>6, <1>7, EndsStep, ForeverStep DEF Timeout!Next

LEMMA TimeoutInit == Timeout!Init => TimeoutInv
<1>1. Timeout!NoCall \in TimeoutRec /\ Timeout!NoCall.at = "idle"
  BY DEF Timeout!NoCall, TimeoutRec
<1>2. QED
  BY <1>1 DEF Timeout!Init, TimeoutInv

(* However an interval falls between two ticks, a wait is never cut short by more than a
   tick, and a wait for a point in time never ends before it: timeout_to_ticks rounds up
   the ticks that are still to come, and the clock compares with the tick count. *)
THEOREM WaitsAreNotCutShort ==
    ASSUME Timeout!TimeoutsAssumption
    PROVE  Timeout!Spec => []Timeout!TimeoutNotEarly
<1>1. TimeoutInv /\ [Timeout!Next]_(Timeout!vars) => TimeoutInv'
  BY TimeoutNext
<1>2. TimeoutInv => Timeout!TimeoutNotEarly
  <2> SUFFICES ASSUME TimeoutInv, timeout.at = "ended" PROVE Timeout!TimeoutNotEarly
    BY DEF Timeout!TimeoutNotEarly
  <2>1. PICK x : x = timeout.target * PER_TICK
    OBVIOUS
  <2>2. timeout.asked \in Nat /\ timeout.began \in Nat /\ timeout.ended \in Nat /\ PER_TICK \in Nat
    BY DEF TimeoutInv, TimeoutRec, Timeout!TimeoutsAssumption
  <2>3. ASSUME timeout.how = "wait" PROVE timeout.ended - timeout.began > timeout.asked - PER_TICK
    <3>1. x \in Nat /\ x <= timeout.ended /\ x + PER_TICK > timeout.began + timeout.asked
      BY <2>1, <2>2, <2>3 DEF TimeoutInv, TargetOK
    <3>2. QED
      BY <2>2, <3>1
  <2>4. ASSUME timeout.how = "deadline" PROVE timeout.ended >= timeout.asked
    <3>1. x \in Nat /\ x <= timeout.ended /\ x >= timeout.asked
      BY <2>1, <2>2, <2>4 DEF TimeoutInv, TargetOK
    <3>2. QED
      BY <2>2, <3>1
  <2>5. QED
    BY <2>3, <2>4 DEF Timeout!TimeoutNotEarly, Timeout!Lasted
<1>3. QED
  BY <1>1, <1>2, TimeoutInit, PTL DEF Timeout!Spec

(* The tick that ends a wait is less than a tick after what was asked for, or is the tick
   at which the wait began. *)
THEOREM WaitsAreNotDrawnOut ==
    ASSUME Timeout!TimeoutsAssumption
    PROVE  Timeout!Spec => []Timeout!TimeoutNotLate
<1>1. TimeoutInv /\ [Timeout!Next]_(Timeout!vars) => TimeoutInv'
  BY TimeoutNext
<1>2. TimeoutInv => Timeout!TimeoutNotLate
  BY DEF TimeoutInv, TargetOK, Timeout!TimeoutNotLate
<1>3. QED
  BY <1>1, <1>2, TimeoutInit, PTL DEF Timeout!Spec

-----------------------------------------------------------------------------
(* Waits of the thread pool *)

PoolWaitInv ==
    /\ object \in [WaitItems -> Objects \cup {"none"}] /\ waiting \subseteq WaitItems
    /\ waitclient \in [Clients -> BOOLEAN]
    /\ monitor = [pc |-> monitor.pc, snap |-> monitor.snap, hit |-> monitor.hit]
    /\ PoolWait!SnapshotOrWake

LEMMA PoolWaitNext ==
    ASSUME PoolWaitInv, [PoolWait!Next]_(PoolWait!vars)
    PROVE  PoolWaitInv'
<1> USE DEF PoolWaitInv, PoolWait!SnapshotOrWake
<1>1. CASE UNCHANGED PoolWait!vars
  BY <1>1 DEF PoolWait!vars
<1>2. ASSUME NEW c \in Clients, NEW i \in WaitItems, NEW o \in Objects \cup {"none"},
             PoolWait!SetThreadpoolWait(c, i, o)
      PROVE  PoolWaitInv'
  <2>1. object' \in [WaitItems -> Objects \cup {"none"}] /\ waiting' \subseteq WaitItems
    BY <1>2 DEF PoolWait!SetThreadpoolWait
  <2>2. waitclient' \in [Clients -> BOOLEAN] /\ waitclient'[c] /\ monitor' = monitor
    BY <1>2 DEF PoolWait!SetThreadpoolWait
  <2>3. QED
    BY <2>1, <2>2
<1>3. ASSUME NEW c \in Clients, PoolWait!SetControl(c)
      PROVE  PoolWaitInv'
  <2>1. control' /\ waitclient' = [waitclient EXCEPT ![c] = FALSE] /\ UNCHANGED <<object, waiting, monitor>>
    BY <1>3 DEF PoolWait!SetControl
  <2>2. waitclient' \in [Clients -> BOOLEAN]
    BY <2>1
  <2>3. QED
    BY <2>1, <2>2
<1>4. ASSUME NEW o, PoolWait!SetEvent(o) \/ PoolWait!CloseHandle(o)
      PROVE  PoolWaitInv'
  BY <1>4 DEF PoolWait!SetEvent, PoolWait!CloseHandle
<1>5. CASE PoolWait!Snapshot
  BY <1>5 DEF PoolWait!Snapshot
<1>6. CASE PoolWait!WaitFails \/ PoolWait!WokenByControl
  BY <1>6 DEF PoolWait!WaitFails, PoolWait!WokenByControl, PoolWait!Loop
<1>7. CASE PoolWait!WaitBegins
  <2>1. monitor.pc = "enter" /\ monitor' = [pc |-> "wait", snap |-> monitor.snap, hit |-> monitor.hit]
        /\ UNCHANGED <<object, waiting, control, waitclient>>
    BY <1>7 DEF PoolWait!WaitBegins
  <2>2. QED
    BY <2>1
<1>8. CASE PoolWait!WokenByObject
  <2>0. PICK i : i = PoolWait!Min({j \in DOMAIN monitor.snap : monitor.snap[j] \in signalled})
    OBVIOUS
  <2>1. monitor' = [monitor EXCEPT !.pc = "check", !.hit = i] /\ UNCHANGED <<object, waiting, waitclient>>
    BY <1>8, <2>0 DEF PoolWait!WokenByObject
  <2>2. monitor' = [pc |-> "check", snap |-> monitor.snap, hit |-> i]
    BY <2>1
  <2>3. QED
    BY <2>1, <2>2
<1>9. CASE PoolWait!Check
  BY <1>9 DEF PoolWait!Check, PoolWait!Loop
<1>10. CASE PoolWait!Callback \/ PoolWait!Called
  BY <1>10 DEF PoolWait!Callback, PoolWait!Called, PoolWait!Loop
<1>11. QED
  BY <1>1, <1>2, <1>3, <1>4, <1>5, <1>6, <1>7, <1>8, <1>9, <1>10 DEF PoolWait!Next, PoolWait!Monitor

(* "one reconfiguration wake is enough to rebuild the full object snapshot": whoever arms
   items meanwhile, a monitor that waits knows every armed item, or its control event is
   signalled or about to be. *)
THEOREM MonitorKnowsOrWakes == PoolWaitSafe => []PoolWait!SnapshotOrWake
<1>1. PoolWait!Init => PoolWaitInv
  BY DEF PoolWait!Init, PoolWaitInv, PoolWait!SnapshotOrWake, PoolWait!Loop
<1>2. PoolWaitInv /\ [PoolWait!Next]_(PoolWait!vars) => PoolWaitInv'
  BY PoolWaitNext
<1>3. PoolWaitInv => PoolWait!SnapshotOrWake
  BY DEF PoolWaitInv
<1>4. QED
  BY <1>1, <1>2, <1>3, PTL DEF PoolWaitSafe

-----------------------------------------------------------------------------
(* Thread-local storage *)

LEMMA LsCardinality == \A S : Ls!Cardinality(S) = Cardinality(S)
  BY DEF Ls!Cardinality, Cardinality

LEMMA LsLeast == \A S \in SUBSET Nat : S # {} => Ls!Min(S) \in S
  BY LeastOf DEF Ls!Min

\* What thread t finds under an index, whether or not the index is in use.
Slot(t, i) == IF i \in DOMAIN slots[t] THEN slots[t][i] ELSE Ls!NULL

TlsTypes ==
    /\ bitmap \subseteq Ls!Index
    /\ lspc \in [Callers -> [op : {"idle", "alloc"}, seen : SUBSET Ls!Index, i : Ls!Index \cup {0}]]
    /\ tlsOwner \in [Ls!Index -> SUBSET Callers]
    /\ DOMAIN slots = Callers /\ slots = [t \in Callers |-> slots[t]]
    /\ DOMAIN stored = Callers /\ stored = [t \in Callers |-> stored[t]]
    /\ \A t \in Callers : DOMAIN stored[t] = Ls!Index /\ stored[t] = [i \in Ls!Index |-> stored[t][i]]

TlsInv ==
    /\ TlsTypes
    /\ \A t \in Callers : lspc[t].op = "alloc" => lspc[t].i \in Ls!Index \ lspc[t].seen
    /\ \A i \in Ls!Index : IF i \in bitmap THEN \E o \in Callers : tlsOwner[i] = {o} ELSE tlsOwner[i] = {}
    /\ \A t \in Callers, i \in Ls!Index : Slot(t, i) = stored[t][i]

LEMMA TlsInit == ASSUME Ls!LocalStorageAssumption PROVE Ls!Init => TlsInv
<1> SUFFICES ASSUME Ls!Init PROVE TlsInv
  OBVIOUS
<1>1. TlsTypes
  BY DEF Ls!Init, TlsTypes, Ls!Idle, Ls!NULL
<1>2. \A t \in Callers : lspc[t].op = "idle"
  BY DEF Ls!Init, Ls!Idle
<1>3. \A t \in Callers, i \in Ls!Index : Slot(t, i) = stored[t][i]
  BY DEF Ls!Init, Slot
<1>4. QED
  BY <1>1, <1>2, <1>3 DEF TlsInv, Ls!Init

LEMMA TlsAllocStep ==
    ASSUME TlsInv, Ls!LocalStorageAssumption, NEW t \in Callers, Ls!TlsAlloc(t)
    PROVE  TlsInv'
<1>1. UNCHANGED <<bitmap, slots, tlsOwner, stored>>
  BY DEF Ls!TlsAlloc, Ls!tlsVars
<1>2. PICK i : i = Ls!Min(Ls!Index \ bitmap)
  OBVIOUS
<1>3. i \in Ls!Index \ bitmap
  <2>1. Ls!Index \ bitmap \in SUBSET Nat /\ Ls!Index \ bitmap # {}
    <3>1. bitmap \subseteq Ls!Index /\ bitmap # Ls!Index
      BY DEF TlsInv, TlsTypes, Ls!TlsAlloc
    <3>2. Ls!Index \subseteq Nat
      BY DEF Ls!Index, Ls!LocalStorageAssumption
    <3>3. QED
      BY <3>1, <3>2
  <2>2. QED
    BY <1>2, <2>1, LsLeast
<1>4. lspc' = [lspc EXCEPT ![t] = [op |-> "alloc", seen |-> bitmap, i |-> i]]
  BY <1>2 DEF Ls!TlsAlloc, Ls!Goto
<1>5. TlsTypes'
  BY <1>1, <1>3, <1>4 DEF TlsInv, TlsTypes
<1>6. \A u \in Callers : lspc'[u].op = "alloc" => lspc'[u].i \in Ls!Index \ lspc'[u].seen
  BY <1>3, <1>4 DEF TlsInv, TlsTypes
<1>7. QED
  BY <1>1, <1>5, <1>6 DEF TlsInv, Slot

LEMMA AllocSwapStep ==
    ASSUME TlsInv, NEW t \in Callers, Ls!AllocSwap(t)
    PROVE  TlsInv'
<1>1. UNCHANGED <<slots, stored>> /\ lspc[t].op = "alloc" /\ lspc' = [lspc EXCEPT ![t] = Ls!Idle]
  BY DEF Ls!AllocSwap
<1>2. \A u \in Callers : lspc'[u].op = "alloc" => lspc'[u].i \in Ls!Index \ lspc'[u].seen
  BY <1>1 DEF TlsInv, TlsTypes, Ls!Idle
<1>3. lspc' \in [Callers -> [op : {"idle", "alloc"}, seen : SUBSET Ls!Index, i : Ls!Index \cup {0}]]
  BY <1>1 DEF TlsInv, TlsTypes, Ls!Idle
<1>4. CASE bitmap # lspc[t].seen
  <2>1. UNCHANGED <<bitmap, tlsOwner>>
    BY <1>4 DEF Ls!AllocSwap
  <2>2. QED
    BY <1>1, <1>2, <1>3, <2>1 DEF TlsInv, TlsTypes, Slot
<1>5. CASE bitmap = lspc[t].seen
  <2>1. PICK i \in Ls!Index \ bitmap : i = lspc[t].i
    BY <1>1, <1>5 DEF TlsInv
  <2>2. bitmap' = bitmap \cup {i} /\ tlsOwner' = [tlsOwner EXCEPT ![i] = tlsOwner[i] \cup {t}]
    BY <1>5, <2>1 DEF Ls!AllocSwap
  <2>3. tlsOwner[i] = {}
    BY <2>1 DEF TlsInv
  <2>4. tlsOwner'[i] = {t} /\ \A j \in Ls!Index : j # i => tlsOwner'[j] = tlsOwner[j]
    BY <2>1, <2>2, <2>3 DEF TlsInv, TlsTypes
  <2>5. TlsTypes'
    BY <1>1, <1>3, <2>1, <2>2 DEF TlsInv, TlsTypes
  <2>6. \A j \in Ls!Index :
           IF j \in bitmap' THEN \E o \in Callers : tlsOwner'[j] = {o} ELSE tlsOwner'[j] = {}
    BY <2>2, <2>4 DEF TlsInv
  <2>7. QED
    BY <1>1, <1>2, <2>5, <2>6 DEF TlsInv, Slot
<1>6. QED
  BY <1>4, <1>5

LEMMA TlsFreeStep ==
    ASSUME TlsInv, NEW t \in Callers, NEW i \in Ls!Index, Ls!TlsFree(t, i)
    PROVE  TlsInv'
<1>1. tlsOwner[i] = {t} /\ i \in bitmap
  BY DEF TlsInv, Ls!TlsFree
<1>2. /\ bitmap' = bitmap \ {i} /\ tlsOwner' = [tlsOwner EXCEPT ![i] = tlsOwner[i] \ {t}]
      /\ stored' = [stored EXCEPT ![t][i] = Ls!NULL] /\ lspc' = lspc
      /\ slots' = [slots EXCEPT ![t] = [j \in DOMAIN slots[t] |-> IF j = i THEN Ls!NULL ELSE slots[t][j]]]
  BY DEF Ls!TlsFree
<1>3. /\ \A u \in Callers : u # t => slots'[u] = slots[u] /\ stored'[u] = stored[u]
      /\ slots'[t] = [j \in DOMAIN slots[t] |-> IF j = i THEN Ls!NULL ELSE slots[t][j]]
      /\ stored'[t] = [stored[t] EXCEPT ![i] = Ls!NULL]
  BY <1>2 DEF TlsInv, TlsTypes
<1>4. TlsTypes'
  <2>1. /\ bitmap' \subseteq Ls!Index
        /\ lspc' \in [Callers -> [op : {"idle", "alloc"}, seen : SUBSET Ls!Index, i : Ls!Index \cup {0}]]
        /\ tlsOwner' \in [Ls!Index -> SUBSET Callers]
    BY <1>2 DEF TlsInv, TlsTypes
  <2>2. /\ DOMAIN slots' = Callers /\ slots' = [u \in Callers |-> slots'[u]]
        /\ DOMAIN stored' = Callers /\ stored' = [u \in Callers |-> stored'[u]]
    BY <1>2 DEF TlsInv, TlsTypes
  <2>3. ASSUME NEW u \in Callers
        PROVE  DOMAIN stored'[u] = Ls!Index /\ stored'[u] = [j \in Ls!Index |-> stored'[u][j]]
    BY <1>3 DEF TlsInv, TlsTypes
  <2>4. QED
    BY <2>1, <2>2, <2>3 DEF TlsTypes
<1>5. \A j \in Ls!Index :
         IF j \in bitmap' THEN \E o \in Callers : tlsOwner'[j] = {o} ELSE tlsOwner'[j] = {}
  BY <1>1, <1>2 DEF TlsInv, TlsTypes
<1>6. ASSUME NEW u \in Callers, NEW j \in Ls!Index PROVE Slot(u, j)' = stored'[u][j]
  <2>0. Slot(u, j) = stored[u][j]
    BY DEF TlsInv
  <2>1. CASE u # t
    BY <1>3, <2>0, <2>1 DEF Slot
  <2>2. CASE u = t /\ j = i
    BY <1>3, <2>2 DEF Slot, TlsInv, TlsTypes
  <2>3. CASE u = t /\ j # i
    BY <1>3, <2>0, <2>3 DEF Slot, TlsInv, TlsTypes
  <2>4. QED
    BY <2>1, <2>2, <2>3
<1>7. QED
  BY <1>2, <1>4, <1>5, <1>6 DEF TlsInv

LEMMA TlsSetStep ==
    ASSUME TlsInv, NEW t \in Callers, NEW i \in Ls!Index, NEW v \in Values, Ls!TlsSetValue(t, i, v)
    PROVE  TlsInv'
<1>1. UNCHANGED <<lspc, bitmap, tlsOwner>>
  BY DEF Ls!TlsSetValue
<1>2. /\ slots' = [slots EXCEPT ![t] = [j \in Ls!Index |-> IF j = i THEN v ELSE Slot(t, j)]]
      /\ stored' = [stored EXCEPT ![t][i] = v]
  BY DEF Ls!TlsSetValue, Slot
<1>3. /\ \A u \in Callers : u # t => slots'[u] = slots[u] /\ stored'[u] = stored[u]
      /\ slots'[t] = [j \in Ls!Index |-> IF j = i THEN v ELSE Slot(t, j)]
      /\ stored'[t] = [stored[t] EXCEPT ![i] = v]
  BY <1>2 DEF TlsInv, TlsTypes
<1>4. TlsTypes'
  BY <1>1, <1>2, <1>3 DEF TlsInv, TlsTypes
<1>5. ASSUME NEW u \in Callers, NEW j \in Ls!Index PROVE Slot(u, j)' = stored'[u][j]
  <2>0. Slot(u, j) = stored[u][j]
    BY DEF TlsInv
  <2>1. CASE u # t
    BY <1>3, <2>0, <2>1 DEF Slot
  <2>2. CASE u = t /\ j = i
    BY <1>3, <2>2 DEF Slot, TlsInv, TlsTypes
  <2>3. CASE u = t /\ j # i
    <3>1. Slot(t, j)' = Slot(t, j)
      BY <1>3, <2>3 DEF Slot
    <3>2. QED
      BY <1>3, <2>0, <2>3, <3>1 DEF TlsInv, TlsTypes
  <2>4. QED
    BY <2>1, <2>2, <2>3
<1>6. QED
  BY <1>1, <1>4, <1>5 DEF TlsInv

LEMMA TlsNext ==
    ASSUME TlsInv, Ls!LocalStorageAssumption, [Ls!Tls]_(Ls!vars)
    PROVE  TlsInv'
<1>1. CASE UNCHANGED Ls!vars
  BY <1>1 DEF Ls!vars, TlsInv, TlsTypes, Slot
<1>2. QED
  BY <1>1, TlsAllocStep, AllocSwapStep, TlsFreeStep, TlsSetStep DEF Ls!Tls

(* TlsAlloc gives an index to one caller until it is freed: of two threads that read the
   same bitmap only one swaps its lowest clear bit in. *)
THEOREM TlsIndexesArePrivate ==
    ASSUME Ls!LocalStorageAssumption
    PROVE  Ls!TlsSpec => []Ls!TlsIndexPrivate
<1>1. Ls!Init => TlsInv
  BY TlsInit
<1>2. TlsInv /\ [Ls!Tls]_(Ls!vars) => TlsInv'
  BY TlsNext
<1>3. TlsInv => Ls!TlsIndexPrivate
  BY FS_Singleton, FS_EmptySet, LsCardinality DEF TlsInv, Ls!TlsIndexPrivate
<1>4. QED
  BY <1>1, <1>2, <1>3, PTL DEF Ls!TlsSpec

(* A thread reads under an index in use what it stored there itself, or nothing, also when
   the index was freed and given out again meanwhile. *)
THEOREM TlsValuesAreLocal ==
    ASSUME Ls!LocalStorageAssumption
    PROVE  Ls!TlsSpec => []Ls!TlsIsLocal
<1>1. Ls!Init => TlsInv
  BY TlsInit
<1>2. TlsInv /\ [Ls!Tls]_(Ls!vars) => TlsInv'
  BY TlsNext
<1>3. TlsInv => Ls!TlsIsLocal
  BY DEF TlsInv, Slot, Ls!TlsIsLocal, Ls!TlsGetValue
<1>4. QED
  BY <1>1, <1>2, <1>3, PTL DEF Ls!TlsSpec

\* What index i holds was stored since it was claimed, or its claimer has yet to clear it.
FreshAt(i) ==
    \/ ffls[i] = Fls!NULL \/ \E u \in Callers : ffls[i] = fstored[u][i]
    \/ \E u \in Callers : fpc[u].op = "claimed" /\ fpc[u].i = i

FlsTypes ==
    /\ ftaken \subseteq Fls!Index /\ DOMAIN ffls = Fls!Index
    /\ DOMAIN fpc = Callers /\ DOMAIN fstored = Callers
    /\ \A t \in Callers : DOMAIN fstored[t] = Fls!Index
    /\ \A t \in Callers : fpc[t].op # "idle" => fpc[t].i \in Fls!Index

FlsInv == FlsTypes /\ \A i \in ftaken : FreshAt(i)

LEMMA FlsNext ==
    ASSUME FlsInv, [Fls!Fls]_(Fls!vars)
    PROVE  FlsInv'
<1>0. FlsTypes /\ \A i \in ftaken : FreshAt(i)
  BY DEF FlsInv
<1>1. CASE UNCHANGED Fls!vars
  BY <1>0, <1>1 DEF Fls!vars, FlsInv, FlsTypes, FreshAt
<1>2. ASSUME NEW t \in Callers, Fls!FlsAlloc(t) PROVE FlsInv'
  <2>1. PICK i \in Fls!Index \ ftaken :
          /\ ftaken' = ftaken \cup {i} /\ ffls' = ffls /\ fpc[t] = Fls!Idle
          /\ fpc' = [fpc EXCEPT ![t] = [op |-> "claimed", seen |-> {}, i |-> i]]
          /\ fstored' = [u \in Callers |-> [fstored[u] EXCEPT ![i] = Fls!NULL]]
    BY <1>2 DEF Fls!FlsAlloc, Fls!Goto
  <2>2. fpc'[t].op = "claimed" /\ fpc'[t].i = i /\ \A u \in Callers : u # t => fpc'[u] = fpc[u]
    BY <1>0, <2>1 DEF FlsTypes
  <2>3. \A u \in Callers, j \in Fls!Index : j # i => fstored'[u][j] = fstored[u][j]
    BY <1>0, <2>1 DEF FlsTypes
  <2>4. FlsTypes'
    BY <1>0, <2>1, <2>2 DEF FlsTypes
  <2>5. ASSUME NEW j \in ftaken, j # i PROVE FreshAt(j)'
    BY <1>0, <2>1, <2>2, <2>3, <2>5 DEF FlsTypes, FreshAt, Fls!Idle
  <2>6. FreshAt(i)'
    BY <2>2 DEF FreshAt
  <2>7. QED
    BY <2>1, <2>4, <2>5, <2>6 DEF FlsInv
<1>3. ASSUME NEW t \in Callers, Fls!FlsClear(t) PROVE FlsInv'
  <2>1. PICK i : i = fpc[t].i
    OBVIOUS
  <2>2. /\ ffls' = [ffls EXCEPT ![i] = Fls!NULL] /\ fpc' = [fpc EXCEPT ![t] = Fls!Idle]
        /\ UNCHANGED <<ftaken, fstored>> /\ i \in Fls!Index
    BY <1>0, <1>3, <2>1 DEF Fls!FlsClear, FlsTypes
  <2>3. fpc'[t].op = "idle" /\ \A u \in Callers : u # t => fpc'[u] = fpc[u]
    BY <1>0, <2>2 DEF FlsTypes, Fls!Idle
  <2>4. FlsTypes'
    BY <1>0, <2>2, <2>3 DEF FlsTypes
  <2>5. ASSUME NEW j \in ftaken PROVE FreshAt(j)'
    <3>1. CASE j = i
      BY <1>0, <2>2, <3>1 DEF FlsTypes, FreshAt
    <3>2. CASE j # i
      BY <1>0, <2>1, <2>2, <2>3, <3>2 DEF FlsTypes, FreshAt
    <3>3. QED
      BY <3>1, <3>2
  <2>6. QED
    BY <2>2, <2>4, <2>5 DEF FlsInv
<1>4. ASSUME NEW t \in Callers, NEW i \in Fls!Index, Fls!FlsFree(t, i) PROVE FlsInv'
  <2>1. /\ ftaken' = ftaken \ {i} /\ UNCHANGED <<ffls, fstored>> /\ fpc[t] = Fls!Idle
        /\ fpc' = [fpc EXCEPT ![t] = [op |-> "freed", seen |-> {}, i |-> i]]
    BY <1>4 DEF Fls!FlsFree, Fls!Goto
  <2>2. fpc'[t].i = i /\ \A u \in Callers : u # t => fpc'[u] = fpc[u]
    BY <1>0, <2>1 DEF FlsTypes
  <2>3. FlsTypes'
    BY <1>0, <2>1, <2>2 DEF FlsTypes
  <2>4. ASSUME NEW j \in ftaken PROVE FreshAt(j)'
    BY <1>0, <2>1, <2>2 DEF FreshAt, Fls!Idle
  <2>5. QED
    BY <2>1, <2>3, <2>4 DEF FlsInv
<1>5. ASSUME NEW t \in Callers, NEW i \in Fls!Index, NEW v, Fls!FlsSetValue(t, i, v) PROVE FlsInv'
  <2>1. /\ UNCHANGED <<ftaken, ffls, fstored>> /\ fpc[t] = Fls!Idle
        /\ fpc' = [fpc EXCEPT ![t] = [op |-> "store", seen |-> {v}, i |-> i]]
    BY <1>5 DEF Fls!FlsSetValue, Fls!Goto, Fls!flsVars
  <2>2. fpc'[t].i = i /\ \A u \in Callers : u # t => fpc'[u] = fpc[u]
    BY <1>0, <2>1 DEF FlsTypes
  <2>3. FlsTypes'
    BY <1>0, <2>1, <2>2 DEF FlsTypes
  <2>4. ASSUME NEW j \in ftaken PROVE FreshAt(j)'
    BY <1>0, <2>1, <2>2 DEF FreshAt, Fls!Idle
  <2>5. QED
    BY <2>1, <2>3, <2>4 DEF FlsInv
<1>6. ASSUME NEW t \in Callers, Fls!FlsStore(t) PROVE FlsInv'
  <2>1. PICK i : i = fpc[t].i
    OBVIOUS
  <2>2. PICK v : /\ ffls' = [ffls EXCEPT ![i] = v] /\ fstored' = [fstored EXCEPT ![t][i] = v]
                 /\ fpc[t].op = "store" /\ fpc' = [fpc EXCEPT ![t] = Fls!Idle] /\ ftaken' = ftaken
    BY <1>6, <2>1 DEF Fls!FlsStore
  <2>3. i \in Fls!Index
    BY <1>0, <2>1, <2>2 DEF FlsTypes
  <2>4. fpc'[t].op = "idle" /\ \A u \in Callers : u # t => fpc'[u] = fpc[u]
    BY <1>0, <2>2 DEF FlsTypes, Fls!Idle
  <2>5. /\ fstored'[t] = [fstored[t] EXCEPT ![i] = v]
        /\ \A u \in Callers : u # t => fstored'[u] = fstored[u]
    BY <1>0, <2>2 DEF FlsTypes
  <2>6. /\ fstored'[t][i] = v /\ ffls'[i] = v
        /\ \A j \in Fls!Index : j # i => ffls'[j] = ffls[j]
        /\ \A u \in Callers, j \in Fls!Index : j # i => fstored'[u][j] = fstored[u][j]
    BY <1>0, <2>2, <2>3, <2>5 DEF FlsTypes
  <2>7. FlsTypes'
    <3>1. \A u \in Callers : DOMAIN fstored'[u] = Fls!Index
      BY <1>0, <2>5 DEF FlsTypes
    <3>2. QED
      BY <1>0, <2>2, <2>4, <3>1 DEF FlsTypes
  <2>8. ASSUME NEW j \in ftaken PROVE FreshAt(j)'
    <3>1. CASE j = i
      BY <2>6, <3>1 DEF FreshAt
    <3>2. CASE j # i
      BY <1>0, <2>2, <2>4, <2>6, <3>2 DEF FlsTypes, FreshAt
    <3>3. QED
      BY <3>1, <3>2
  <2>9. QED
    BY <2>2, <2>7, <2>8 DEF FlsInv
<1>7. QED
  BY <1>1, <1>2, <1>3, <1>4, <1>5, <1>6 DEF Fls!Fls

(* For any number of threads that allocate, free and store at once: an index that FlsAlloc
   has returned holds nothing of its life before.  The store that clears it comes after the
   claim, so neither a late store of its old user nor the late clearing of FlsFree can
   leave something older behind. *)
THEOREM FlsIndexesAreFresh == Fls!FlsSpec => []Fls!FlsFresh
<1>1. Fls!Init => FlsInv
  BY DEF Fls!Init, FlsInv, FlsTypes, Fls!Idle
<1>2. FlsInv /\ [Fls!Fls]_(Fls!vars) => FlsInv'
  BY FlsNext
<1>3. FlsInv => Fls!FlsFresh
  BY DEF FlsInv, FreshAt, Fls!FlsFresh, Fls!FlsGetValue
<1>4. QED
  BY <1>1, <1>2, <1>3, PTL DEF Fls!FlsSpec

-----------------------------------------------------------------------------
(* Work of the thread pool *)

Pc(c) == poolclient[c].pc
Item(c) == poolclient[c].item
Does(w) == worker[w].pc
Runs(w) == worker[w].item

ClientRec == [pc : {"idle", "fill", "ensure", "start", "await", "swap", "link", "release"},
              item : Pool!Items \cup {0}]
WorkerRec == [pc : {"off", "loop", "wait", "take", "run"}, on : Nat, item : Pool!Items \cup {0}]

PoolTypes ==
    /\ used \subseteq Pool!Items /\ submitted \subseteq used
    /\ queue \in Seq(Pool!Items) /\ state \in 0..2 /\ sem \in Seq(Nat)
    /\ worker \in [Workers -> WorkerRec] /\ poolclient \in [Clients -> ClientRec]

Submits == {"ensure", "start", "await", "swap", "link", "release"}

\* One client starts the workers, and nothing is submitted before it has.
PoolStarted ==
    /\ \A c \in Clients : Pc(c) \in Submits => Item(c) \in used
    /\ \A c \in Clients : Pc(c) = "fill" => Item(c) \in Pool!Items
    /\ \A c \in Clients : Pc(c) = "start" => state = 1
    /\ \A c, d \in Clients : Pc(c) = "start" /\ Pc(d) = "start" => c = d
    /\ state # 2 => /\ submitted = {} /\ Len(queue) = 0
                    /\ \A c \in Clients : Pc(c) \notin {"swap", "link", "release"}
                    /\ \A w \in Workers : Does(w) \notin {"take", "run"}
                    /\ \A k \in 1..Len(sem) : sem[k] = 0
    /\ state = 2 => Len(sem) > 0

\* The places of a submission exclude each other.
PoolPlaces ==
    /\ \A c \in Clients : Pc(c) = "link" =>
          /\ Item(c) \in submitted
          /\ \A d \in Clients : Pc(d) = "link" /\ Item(d) = Item(c) => d = c
          /\ \A k \in 1..Len(queue) : queue[k] # Item(c)
          /\ \A w \in Workers : Does(w) = "run" => Runs(w) # Item(c)
    /\ \A k \in 1..Len(queue) :
          /\ queue[k] \in submitted
          /\ \A l \in 1..Len(queue) : queue[l] = queue[k] => l = k
          /\ \A w \in Workers : Does(w) = "run" => Runs(w) # queue[k]
    /\ \A w \in Workers : Does(w) = "run" =>
          /\ Runs(w) \in submitted
          /\ \A v \in Workers : Does(v) = "run" /\ Runs(v) = Runs(w) => v = w
    /\ \A i \in submitted : \/ \E c \in Clients : Pc(c) = "link" /\ Item(c) = i
                            \/ \E k \in 1..Len(queue) : queue[k] = i
                            \/ \E w \in Workers : Does(w) = "run" /\ Runs(w) = i

Taking == {w \in Workers : Does(w) = "take"}
Releasing == {c \in Clients : Pc(c) = "release"}

\* An old semaphore is never released again; the queue is as long as what the current
\* one counts, with what is on its way to it and from it.
PoolCounts ==
    /\ \A w \in Workers : Does(w) # "off" => Len(sem) > 0
    /\ \A w \in Workers : Does(w) = "wait" => worker[w].on \in 1..Len(sem)
    /\ \A k \in 1..(Len(sem) - 1) : sem[k] = 0
    /\ IsFiniteSet(Taking) /\ IsFiniteSet(Releasing)
    /\ state = 2 => Len(queue) = sem[Len(sem)] + Cardinality(Taking) + Cardinality(Releasing)

PoolInv == PoolTypes /\ PoolStarted /\ PoolPlaces /\ PoolCounts

LEMMA PoolInit == ASSUME Pool!ThreadPoolAssumption PROVE Pool!Init => PoolInv
<1> SUFFICES ASSUME Pool!Init PROVE PoolInv
  OBVIOUS
<1>1. used = {} /\ submitted = {} /\ queue = << >> /\ state = 0 /\ sem = << >>
  BY DEF Pool!Init
<1>2. \A c \in Clients : Pc(c) = "idle"
  BY DEF Pool!Init, Pool!Idle, Pc
<1>3. \A w \in Workers : Does(w) = "off"
  BY DEF Pool!Init, Pool!Off, Does
<1>4. PoolTypes
  BY <1>1 DEF Pool!Init, Pool!Idle, Pool!Off, PoolTypes, ClientRec, WorkerRec
<1>5. Len(queue) = 0 /\ Len(sem) = 0
  BY <1>1
<1>6. PoolStarted
  BY <1>1, <1>2, <1>3, <1>5 DEF PoolStarted, Submits
<1>7. PoolPlaces
  BY <1>1, <1>2, <1>3, <1>5 DEF PoolPlaces
<1>8. Taking = {} /\ Releasing = {}
  BY <1>2, <1>3 DEF Taking, Releasing
<1>9. PoolCounts
  BY <1>1, <1>3, <1>5, <1>8, FS_EmptySet DEF PoolCounts
<1>10. QED
  BY <1>4, <1>6, <1>7, <1>9 DEF PoolInv

\* Client c is at pc with item i afterwards, and the other clients are where they were.
Goes(c, pc, i) ==
    /\ poolclient' \in [Clients -> ClientRec]
    /\ Pc(c)' = pc /\ Item(c)' = i
    /\ \A d \in Clients \ {c} : Pc(d)' = Pc(d) /\ Item(d)' = Item(d)

LEMMA GotoMoves ==
    ASSUME PoolTypes, NEW c \in Clients, NEW pc, NEW i, Pool!Goto(c, pc, i),
           [pc |-> pc, item |-> i] \in ClientRec
    PROVE  Goes(c, pc, i)
<1>1. poolclient' = [poolclient EXCEPT ![c] = [pc |-> pc, item |-> i]]
  BY DEF Pool!Goto
<1>2. poolclient'[c] = [pc |-> pc, item |-> i] /\ \A d \in Clients \ {c} : poolclient'[d] = poolclient[d]
  BY <1>1 DEF PoolTypes
<1>3. poolclient' \in [Clients -> ClientRec]
  BY <1>1 DEF PoolTypes
<1>4. QED
  BY <1>2, <1>3 DEF Goes, Pc, Item

\* A client moves outside the sections under the lock.
LEMMA ClientMoves ==
    ASSUME PoolInv, NEW c \in Clients, NEW pc, NEW i, Goes(c, pc, i),
           UNCHANGED <<submitted, queue, sem, worker>>, used' \subseteq Pool!Items, used \subseteq used',
           {pc, Pc(c)} \cap {"link", "release"} = {},
           pc = "swap" => state = 2,
           pc \in Submits => i \in used,
           pc = "fill" => i \in Pool!Items,
           \/ state' = state /\ pc # "start" /\ Pc(c) # "start"
           \/ state = 0 /\ state' = 1 /\ pc = "start"
           \/ state' = 0 /\ Pc(c) = "start" /\ pc # "start"
    PROVE  PoolInv'
<1>1. PoolTypes'
  BY DEF PoolInv, PoolTypes, Goes
<1>2. \A w \in Workers : Does(w)' = Does(w) /\ Runs(w)' = Runs(w) /\ worker'[w] = worker[w]
  BY DEF Does, Runs
<1>3. (state' = 2 <=> state = 2) /\ (\A d \in Clients : Pc(d) = "start" => state = 1)
  BY DEF PoolInv, PoolStarted, PoolTypes
<1>4. PoolStarted'
  <2>1. \A d \in Clients : Pc(d)' \in Submits => Item(d)' \in used'
    BY DEF PoolInv, PoolStarted, Goes, Submits
  <2>6. \A d \in Clients : Pc(d)' = "fill" => Item(d)' \in Pool!Items
    BY DEF PoolInv, PoolStarted, Goes
  <2>2. \A d \in Clients : Pc(d)' = "start" => state' = 1
    BY <1>3 DEF PoolInv, PoolStarted, Goes
  <2>3. \A d, e \in Clients : Pc(d)' = "start" /\ Pc(e)' = "start" => d = e
    BY <1>3 DEF PoolInv, PoolStarted, Goes
  <2>4. state' # 2 => \A d \in Clients : Pc(d)' \notin {"swap", "link", "release"}
    BY <1>3 DEF PoolInv, PoolStarted, Goes
  <2>5. QED
    BY <1>2, <1>3, <2>1, <2>2, <2>3, <2>4, <2>6 DEF PoolInv, PoolStarted
<1>5. \A d \in Clients : /\ Pc(d)' = "link" <=> Pc(d) = "link"
                         /\ Pc(d)' = "release" <=> Pc(d) = "release"
                         /\ Pc(d) = "link" => Item(d)' = Item(d)
  BY DEF Goes
<1>6. PoolPlaces'
  BY <1>2, <1>5 DEF PoolInv, PoolPlaces
<1>7. Taking' = Taking /\ Releasing' = Releasing
  BY <1>2, <1>5 DEF Taking, Releasing
<1>8. PoolCounts'
  BY <1>2, <1>3, <1>7 DEF PoolInv, PoolCounts
<1>9. QED
  BY <1>1, <1>4, <1>6, <1>8 DEF PoolInv

LEMMA PoolLeast ==
    ASSUME NEW S \in SUBSET Nat, S # {}
    PROVE  Pool!Min(S) \in S
<1>1. PICK x \in S : \A y \in S : <<y, x>> \notin OpToRel(<, Nat)
  BY NatLessThanWellFounded, WFMin
<1>2. ASSUME NEW y \in S PROVE ~(y < x)
  BY <1>1 DEF OpToRel
<1>3. \A y \in S : x <= y
  BY <1>2
<1>4. QED
  BY <1>3 DEF Pool!Min

LEMMA FreeSlot ==
    ASSUME Pool!ThreadPoolAssumption, Pool!Items \ used # {}
    PROVE  Pool!Min(Pool!Items \ used) \in Pool!Items \ used
<1>1. Pool!Items \ used \in SUBSET Nat
  BY DEF Pool!Items, Pool!ThreadPoolAssumption
<1>2. QED
  BY <1>1, PoolLeast

LEMMA ClientPc == ASSUME PoolInv, NEW c \in Clients PROVE Item(c) \in Pool!Items \cup {0}
  BY DEF PoolInv, PoolTypes, ClientRec, Item

LEMMA SmallSteps ==
    ASSUME PoolInv, Pool!ThreadPoolAssumption, NEW c \in Clients,
           \/ Pool!CreateThreadpoolWork(c) \/ Pool!Fill(c)
           \/ \E i \in Pool!Items : Pool!SubmitThreadpoolWork(c, i)
           \/ Pool!EnsureReady(c) \/ Pool!EnsureClaim(c) \/ Pool!NoSemaphore(c)
           \/ Pool!EnsureAwait(c) \/ Pool!Awaited(c)
    PROVE  PoolInv'
<1>0. PoolTypes /\ used \subseteq Pool!Items /\ Item(c) \in Pool!Items \cup {0}
      /\ (Pc(c) \in Submits => Item(c) \in used) /\ (Pc(c) = "start" => state = 1)
  BY ClientPc DEF PoolInv, PoolTypes, PoolStarted
<1>1. CASE Pool!CreateThreadpoolWork(c)
  <2>1. PICK i : i = Pool!Min(Pool!Items \ used)
    OBVIOUS
  <2>2. i \in Pool!Items
    BY <1>1, <2>1, FreeSlot DEF Pool!CreateThreadpoolWork
  <2>3. /\ Pc(c) = "idle" /\ Pool!Goto(c, "fill", i)
        /\ UNCHANGED <<used, submitted, queue, state, sem, worker>>
    BY <1>1, <2>1 DEF Pool!CreateThreadpoolWork, Pool!Idle, Pc
  <2>4. Goes(c, "fill", i)
    BY <1>0, <2>2, <2>3, GotoMoves DEF ClientRec
  <2>5. QED
    BY <1>0, <2>2, <2>3, <2>4, ClientMoves DEF Submits
<1>2. CASE Pool!Fill(c)
  <2>1. /\ Pc(c) = "fill" /\ Pool!Goto(c, "idle", 0) /\ used' = used \cup {Item(c)}
        /\ UNCHANGED <<submitted, queue, state, sem, worker>>
    BY <1>2 DEF Pool!Fill, Pc, Item
  <2>2. Goes(c, "idle", 0)
    BY <1>0, <2>1, GotoMoves DEF ClientRec
  <2>3. Item(c) \in Pool!Items
    BY <2>1 DEF PoolInv, PoolStarted
  <2>4. QED
    BY <1>0, <2>1, <2>2, <2>3, ClientMoves DEF Submits
<1>3. ASSUME NEW i \in Pool!Items, Pool!SubmitThreadpoolWork(c, i) PROVE PoolInv'
  <2>1. /\ Pc(c) = "idle" /\ Pool!Goto(c, "ensure", i) /\ i \in used
        /\ UNCHANGED <<used, submitted, queue, state, sem, worker>>
    BY <1>3 DEF Pool!SubmitThreadpoolWork, Pool!Idle, Pc
  <2>2. Goes(c, "ensure", i)
    BY <1>0, <2>1, GotoMoves DEF ClientRec
  <2>3. QED
    BY <1>0, <2>1, <2>2, ClientMoves DEF Submits
<1>4. CASE Pool!EnsureReady(c)
  <2>1. /\ Pc(c) = "ensure" /\ state = 2 /\ Pool!Goto(c, "swap", Item(c))
        /\ UNCHANGED <<used, submitted, queue, state, sem, worker>>
    BY <1>4 DEF Pool!EnsureReady, Pc, Item
  <2>2. Goes(c, "swap", Item(c))
    BY <1>0, <2>1, GotoMoves DEF ClientRec
  <2>3. QED
    BY <1>0, <2>1, <2>2, ClientMoves DEF Submits
<1>5. CASE Pool!EnsureClaim(c)
  <2>1. /\ Pc(c) = "ensure" /\ state = 0 /\ state' = 1 /\ Pool!Goto(c, "start", Item(c))
        /\ UNCHANGED <<used, submitted, queue, sem, worker>>
    BY <1>5 DEF Pool!EnsureClaim, Pc, Item
  <2>2. Goes(c, "start", Item(c))
    BY <1>0, <2>1, GotoMoves DEF ClientRec
  <2>3. QED
    BY <1>0, <2>1, <2>2, ClientMoves DEF Submits
<1>6. CASE Pool!NoSemaphore(c)
  <2>1. /\ Pc(c) = "start" /\ state' = 0 /\ Pool!Goto(c, "idle", 0)
        /\ UNCHANGED <<used, submitted, queue, sem, worker>>
    BY <1>6 DEF Pool!NoSemaphore, Pc, Item
  <2>2. Goes(c, "idle", 0)
    BY <1>0, <2>1, GotoMoves DEF ClientRec
  <2>3. QED
    BY <1>0, <2>1, <2>2, ClientMoves DEF Submits
<1>7. CASE Pool!EnsureAwait(c)
  <2>1. /\ Pc(c) = "ensure" /\ Pool!Goto(c, "await", Item(c))
        /\ UNCHANGED <<used, submitted, queue, state, sem, worker>>
    BY <1>7 DEF Pool!EnsureAwait, Pc, Item
  <2>2. Goes(c, "await", Item(c))
    BY <1>0, <2>1, GotoMoves DEF ClientRec
  <2>3. QED
    BY <1>0, <2>1, <2>2, ClientMoves DEF Submits
<1>8. CASE Pool!Awaited(c)
  <2>1. Pc(c) = "await" /\ UNCHANGED <<used, submitted, queue, state, sem, worker>>
    BY <1>8 DEF Pool!Awaited, Pc
  <2>2. CASE state = 2
    <3>1. Pool!Goto(c, "swap", Item(c))
      BY <1>8, <2>2 DEF Pool!Awaited, Item
    <3>2. Goes(c, "swap", Item(c))
      BY <1>0, <3>1, GotoMoves DEF ClientRec
    <3>3. QED
      BY <1>0, <2>1, <2>2, <3>2, ClientMoves DEF Submits
  <2>3. CASE state # 2
    <3>1. Pool!Goto(c, "idle", 0)
      BY <1>8, <2>3 DEF Pool!Awaited
    <3>2. Goes(c, "idle", 0)
      BY <1>0, <3>1, GotoMoves DEF ClientRec
    <3>3. QED
      BY <1>0, <2>1, <2>3, <3>2, ClientMoves DEF Submits
  <2>4. QED
    BY <2>2, <2>3
<1>9. QED
  BY <1>1, <1>2, <1>3, <1>4, <1>5, <1>6, <1>7, <1>8

LEMMA SwapStep ==
    ASSUME PoolInv, NEW c \in Clients, Pool!Swap(c)
    PROVE  PoolInv'
<1>0. /\ PoolTypes /\ Pc(c) = "swap" /\ Item(c) \in used /\ used \subseteq Pool!Items /\ state = 2
      /\ UNCHANGED <<used, queue, state, sem, worker>>
  BY DEF PoolInv, PoolTypes, PoolStarted, Submits, Pool!Swap, Pc, Item
<1>1. CASE Item(c) \in submitted
  <2>1. Pool!Goto(c, "idle", 0) /\ submitted' = submitted
    BY <1>1 DEF Pool!Swap, Item
  <2>2. Goes(c, "idle", 0)
    BY <1>0, <2>1, GotoMoves DEF ClientRec
  <2>3. QED
    BY <1>0, <2>1, <2>2, ClientMoves DEF Submits
<1>2. CASE Item(c) \notin submitted
  <2>1. Pool!Goto(c, "link", Item(c)) /\ submitted' = submitted \cup {Item(c)}
    BY <1>2 DEF Pool!Swap, Item
  <2>2. Goes(c, "link", Item(c))
    BY <1>0, <2>1, GotoMoves DEF ClientRec
  <2>3. \A w \in Workers : Does(w)' = Does(w) /\ Runs(w)' = Runs(w) /\ worker'[w] = worker[w]
    BY <1>0 DEF Does, Runs
  <2>4. PoolTypes'
    BY <1>0, <2>1, <2>2 DEF PoolTypes, Goes
  <2>5. PoolStarted'
    BY <1>0, <2>2 DEF PoolInv, PoolStarted, Goes, Submits
  <2>6. /\ Pc(c)' = "link" /\ Item(c)' = Item(c) /\ Pc(c) # "link"
        /\ \A d \in Clients \ {c} : Pc(d)' = Pc(d) /\ Item(d)' = Item(d)
    BY <1>0, <2>2 DEF Goes
  <2>7. PoolPlaces'
    BY <1>0, <1>2, <2>1, <2>3, <2>6 DEF PoolInv, PoolPlaces
  <2>8. Taking' = Taking /\ Releasing' = Releasing
    BY <1>0, <2>3, <2>6 DEF Taking, Releasing
  <2>9. PoolCounts'
    BY <1>0, <2>3, <2>8 DEF PoolInv, PoolCounts
  <2>10. QED
    BY <2>4, <2>5, <2>7, <2>9 DEF PoolInv
<1>3. QED
  BY <1>1, <1>2

LEMMA LinkStep ==
    ASSUME PoolInv, NEW c \in Clients, Pool!Link(c)
    PROVE  PoolInv'
<1>0. /\ PoolTypes /\ Pc(c) = "link" /\ Item(c) \in used /\ used \subseteq Pool!Items /\ state = 2
      /\ UNCHANGED <<used, submitted, state, sem, worker>>
  BY DEF PoolInv, PoolTypes, PoolStarted, Submits, Pool!Link, Pc, Item
<1>1. Pool!Goto(c, "release", Item(c)) /\ queue' = Append(queue, Item(c))
  BY DEF Pool!Link, Item
<1>2. Goes(c, "release", Item(c))
  BY <1>0, <1>1, GotoMoves DEF ClientRec
<1>3. \A w \in Workers : Does(w)' = Does(w) /\ Runs(w)' = Runs(w) /\ worker'[w] = worker[w]
  BY <1>0 DEF Does, Runs
<1>4. /\ queue' \in Seq(Pool!Items) /\ Len(queue) \in Nat /\ Len(queue') = Len(queue) + 1
      /\ queue'[Len(queue) + 1] = Item(c)
      /\ \A k \in 1..Len(queue) : queue'[k] = queue[k]
  BY <1>0, <1>1 DEF PoolTypes
<1>5. PoolTypes'
  BY <1>0, <1>2, <1>4 DEF PoolTypes, Goes
<1>6. PoolStarted'
  BY <1>0, <1>2 DEF PoolInv, PoolStarted, Goes, Submits
<1>7. /\ Pc(c)' = "release"
      /\ \A d \in Clients \ {c} : Pc(d)' = Pc(d) /\ Item(d)' = Item(d)
  BY <1>2 DEF Goes
<1>8. \A k \in 1..Len(queue') : k \in 1..Len(queue) \/ (k = Len(queue) + 1 /\ queue'[k] = Item(c))
  BY <1>4
<1>9. PoolPlaces'
  <2>1. \A d \in Clients : Pc(d)' = "link" =>
          /\ Item(d)' \in submitted'
          /\ \A x \in Clients : Pc(x)' = "link" /\ Item(x)' = Item(d)' => x = d
          /\ \A k \in 1..Len(queue') : queue'[k] # Item(d)'
          /\ \A w \in Workers : Does(w)' = "run" => Runs(w)' # Item(d)'
    <3> SUFFICES ASSUME NEW d \in Clients, Pc(d)' = "link"
                 PROVE  /\ Item(d)' \in submitted'
                        /\ \A x \in Clients : Pc(x)' = "link" /\ Item(x)' = Item(d)' => x = d
                        /\ \A k \in 1..Len(queue') : queue'[k] # Item(d)'
                        /\ \A w \in Workers : Does(w)' = "run" => Runs(w)' # Item(d)'
      OBVIOUS
    <3>1. d # c /\ Pc(d) = "link" /\ Item(d)' = Item(d)
      BY <1>7
    <3>2. Item(d) # Item(c)
      BY <1>0, <3>1 DEF PoolInv, PoolPlaces
    <3>3. \A k \in 1..Len(queue') : queue'[k] # Item(d)
      BY <1>4, <1>8, <3>1, <3>2 DEF PoolInv, PoolPlaces
    <3>4. \A x \in Clients : Pc(x)' = "link" /\ Item(x)' = Item(d) => x = d
      BY <1>7, <3>1 DEF PoolInv, PoolPlaces
    <3>5. QED
      BY <1>0, <1>3, <3>1, <3>3, <3>4 DEF PoolInv, PoolPlaces
  <2>2. \A k \in 1..Len(queue') :
          /\ queue'[k] \in submitted'
          /\ \A l \in 1..Len(queue') : queue'[l] = queue'[k] => l = k
          /\ \A w \in Workers : Does(w)' = "run" => Runs(w)' # queue'[k]
    <3>1. /\ Item(c) \in submitted
          /\ \A k \in 1..Len(queue) : queue[k] # Item(c)
          /\ \A w \in Workers : Does(w)' = "run" => Runs(w)' # Item(c)
      BY <1>0, <1>3 DEF PoolInv, PoolPlaces
    <3>2. QED
      BY <1>0, <1>3, <1>4, <1>8, <3>1 DEF PoolInv, PoolPlaces
  <2>3. ASSUME NEW i \in submitted
        PROVE  \/ \E d \in Clients : Pc(d)' = "link" /\ Item(d)' = i
               \/ \E k \in 1..Len(queue') : queue'[k] = i
               \/ \E w \in Workers : Does(w)' = "run" /\ Runs(w)' = i
    <3>1. CASE i = Item(c)
      <4>1. Len(queue) + 1 \in 1..Len(queue')
        BY <1>4
      <4>2. QED
        BY <1>4, <3>1, <4>1
    <3>2. CASE \E d \in Clients \ {c} : Pc(d) = "link" /\ Item(d) = i
      BY <1>7, <3>2
    <3>3. CASE \E k \in 1..Len(queue) : queue[k] = i
      BY <1>4, <3>3
    <3>4. CASE \E w \in Workers : Does(w) = "run" /\ Runs(w) = i
      BY <1>3, <3>4
    <3>5. QED
      BY <3>1, <3>2, <3>3, <3>4 DEF PoolInv, PoolPlaces
  <2>4. QED
    BY <1>0, <1>3, <2>1, <2>2, <2>3 DEF PoolInv, PoolPlaces
<1>10. Taking' = Taking /\ Releasing' = Releasing \cup {c} /\ c \notin Releasing
  BY <1>0, <1>3, <1>7 DEF Taking, Releasing
<1>11. PoolCounts'
  <2>1. IsFiniteSet(Releasing') /\ Cardinality(Releasing') = Cardinality(Releasing) + 1
    BY <1>10, FS_AddElement DEF PoolInv, PoolCounts
  <2>2. Cardinality(Taking) \in Nat /\ Cardinality(Releasing) \in Nat /\ sem[Len(sem)] \in Nat
    BY <1>0, FS_CardinalityType DEF PoolInv, PoolCounts, PoolTypes, PoolStarted
  <2>3. Len(queue') = sem'[Len(sem')] + Cardinality(Taking') + Cardinality(Releasing')
    BY <1>0, <1>4, <1>10, <2>1, <2>2 DEF PoolInv, PoolCounts
  <2>4. QED
    BY <1>0, <1>3, <1>10, <2>1, <2>3 DEF PoolInv, PoolCounts
<1>12. QED
  BY <1>5, <1>6, <1>9, <1>11 DEF PoolInv

LEMMA ReleaseStep ==
    ASSUME PoolInv, NEW c \in Clients, Pool!Release(c)
    PROVE  PoolInv'
<1>0. /\ PoolTypes /\ Pc(c) = "release" /\ state = 2 /\ Len(sem) \in Nat /\ Len(sem) > 0
      /\ UNCHANGED <<used, submitted, queue, state, worker>>
  BY DEF PoolInv, PoolTypes, PoolStarted, Pool!Release, Pc
<1>1. Pool!Goto(c, "idle", 0) /\ sem' = [sem EXCEPT ![Len(sem)] = sem[Len(sem)] + 1]
  BY DEF Pool!Release
<1>2. Goes(c, "idle", 0)
  BY <1>0, <1>1, GotoMoves DEF ClientRec
<1>3. \A w \in Workers : Does(w)' = Does(w) /\ Runs(w)' = Runs(w) /\ worker'[w] = worker[w]
  BY <1>0 DEF Does, Runs
<1>4. /\ sem' \in Seq(Nat) /\ Len(sem') = Len(sem) /\ sem'[Len(sem)] = sem[Len(sem)] + 1
      /\ \A k \in 1..(Len(sem) - 1) : sem'[k] = sem[k]
  BY <1>0, <1>1 DEF PoolTypes
<1>5. PoolTypes'
  BY <1>0, <1>2, <1>4 DEF PoolTypes, Goes
<1>6. PoolStarted'
  BY <1>0, <1>2, <1>4 DEF PoolInv, PoolStarted, Goes, Submits
<1>7. /\ Pc(c)' = "idle"
      /\ \A d \in Clients \ {c} : Pc(d)' = Pc(d) /\ Item(d)' = Item(d)
  BY <1>2 DEF Goes
<1>8. \A d \in Clients : (Pc(d)' = "link" <=> Pc(d) = "link") /\ (Pc(d) = "link" => Item(d)' = Item(d))
  BY <1>0, <1>7
<1>9. PoolPlaces'
  BY <1>0, <1>3, <1>8 DEF PoolInv, PoolPlaces
<1>10. Taking' = Taking /\ Releasing' = Releasing \ {c} /\ c \in Releasing
  BY <1>0, <1>3, <1>7 DEF Taking, Releasing
<1>11. PoolCounts'
  <2>1. IsFiniteSet(Releasing') /\ Cardinality(Releasing') = Cardinality(Releasing) - 1
    BY <1>10, FS_RemoveElement DEF PoolInv, PoolCounts
  <2>2. Cardinality(Taking) \in Nat /\ Cardinality(Releasing) \in Nat /\ sem[Len(sem)] \in Nat
    BY <1>0, FS_CardinalityType DEF PoolInv, PoolCounts, PoolTypes
  <2>3. Len(queue') = sem'[Len(sem')] + Cardinality(Taking') + Cardinality(Releasing')
    BY <1>0, <1>4, <1>10, <2>1, <2>2 DEF PoolInv, PoolCounts
  <2>4. QED
    BY <1>0, <1>3, <1>4, <1>10, <2>1, <2>3 DEF PoolInv, PoolCounts
<1>12. QED
  BY <1>5, <1>6, <1>9, <1>11 DEF PoolInv

LEMMA EnsureStep ==
    ASSUME PoolInv, NEW c \in Clients, Pool!StartWorkers(c)
    PROVE  PoolInv'
<1>0. /\ PoolTypes /\ Pc(c) = "start" /\ state = 1 /\ Item(c) \in used /\ used \subseteq Pool!Items
      /\ UNCHANGED <<used, submitted, queue>> /\ sem' = Append(sem, 0)
  BY DEF PoolInv, PoolTypes, PoolStarted, Submits, Pool!StartWorkers, Pc, Item
<1>1. /\ submitted = {} /\ Len(queue) = 0
      /\ \A d \in Clients : Pc(d) \notin {"swap", "link", "release"}
      /\ \A w \in Workers : Does(w) \notin {"take", "run"}
      /\ \A k \in 1..Len(sem) : sem[k] = 0
  BY <1>0 DEF PoolInv, PoolStarted
<1>2. PICK made \in SUBSET {w \in Workers : worker[w] = Pool!Off} :
         /\ worker' = [w \in Workers |-> IF w \in made THEN [Pool!Off EXCEPT !.pc = "loop"] ELSE worker[w]]
         /\ \/ state' = 2 /\ Pool!Goto(c, "swap", Item(c))
            \/ state' = 0 /\ Pool!Goto(c, "idle", 0)
  BY DEF Pool!StartWorkers, Item
<1>3. worker' \in [Workers -> WorkerRec]
  <2>1. [Pool!Off EXCEPT !.pc = "loop"] \in WorkerRec
    BY DEF Pool!Off, WorkerRec
  <2>2. QED
    BY <1>0, <1>2, <2>1 DEF PoolTypes
<1>4. \A w \in Workers : \/ Does(w)' = "loop"
                         \/ Does(w)' = Does(w) /\ worker'[w] = worker[w]
  BY <1>2 DEF Does, Pool!Off
<1>5. /\ sem' \in Seq(Nat) /\ Len(sem) \in Nat /\ Len(sem') = Len(sem) + 1
      /\ \A k \in 1..Len(sem') : sem'[k] = 0
  BY <1>0, <1>1 DEF PoolTypes
<1>6. \/ state' = 2 /\ Goes(c, "swap", Item(c))
      \/ state' = 0 /\ Goes(c, "idle", 0)
  BY <1>0, <1>2, GotoMoves DEF ClientRec
<1>7. PoolTypes'
  BY <1>0, <1>3, <1>5, <1>6 DEF PoolTypes, Goes
<1>8. PoolStarted'
  <2>1. \A d \in Clients : Pc(d)' # "start" /\ Pc(d)' \notin {"link", "release"}
    BY <1>0, <1>1, <1>6 DEF PoolInv, PoolStarted, Goes
  <2>2. \A w \in Workers : Does(w)' \notin {"take", "run"}
    BY <1>1, <1>4
  <2>3. \A d \in Clients : (Pc(d)' \in Submits => Item(d)' \in used) /\ (Pc(d)' = "fill" => Item(d)' \in Pool!Items)
    BY <1>0, <1>6 DEF PoolInv, PoolStarted, Goes, Submits
  <2>4. state' # 2 => \A d \in Clients : Pc(d)' # "swap"
    BY <1>1, <1>6 DEF Goes
  <2>5. QED
    BY <1>0, <1>1, <1>5, <1>6, <2>1, <2>2, <2>3, <2>4 DEF PoolStarted
<1>9. (\A d \in Clients : Pc(d)' \notin {"link", "release"}) /\ (\A w \in Workers : Does(w)' \notin {"take", "run"})
  BY <1>1, <1>4, <1>6 DEF Goes
<1>10. PoolPlaces'
  BY <1>0, <1>1, <1>9 DEF PoolPlaces
<1>11. Taking' = {} /\ Releasing' = {}
  BY <1>9 DEF Taking, Releasing
<1>12. PoolCounts'
  <2>1. \A w \in Workers : Does(w)' = "wait" => worker'[w].on \in 1..Len(sem')
    BY <1>4, <1>5 DEF PoolInv, PoolCounts
  <2>2. Len(queue') = sem'[Len(sem')] + Cardinality(Taking') + Cardinality(Releasing')
    BY <1>0, <1>1, <1>5, <1>11, FS_EmptySet
  <2>3. \A k \in 1..(Len(sem') - 1) : sem'[k] = 0
    BY <1>5
  <2>4. QED
    BY <1>5, <1>11, <2>1, <2>2, <2>3, FS_EmptySet DEF PoolCounts
<1>13. QED
  BY <1>7, <1>8, <1>10, <1>12 DEF PoolInv

\* Worker w is at pc afterwards, and the other workers are where they were.
Moves(w, pc) ==
    /\ worker' \in [Workers -> WorkerRec] /\ Does(w)' = pc
    /\ \A v \in Workers \ {w} : worker'[v] = worker[v] /\ Does(v)' = Does(v) /\ Runs(v)' = Runs(v)

LEMMA WorkerMoves ==
    ASSUME PoolTypes, NEW w \in Workers, NEW r \in WorkerRec, worker' = [worker EXCEPT ![w] = r]
    PROVE  Moves(w, r.pc) /\ worker'[w] = r
  BY DEF PoolTypes, Moves, Does, Runs

LEMMA ClientsStay ==
    ASSUME UNCHANGED poolclient
    PROVE  \A c \in Clients : Pc(c)' = Pc(c) /\ Item(c)' = Item(c)
  BY DEF Pc, Item

LEMMA WaitOnStep ==
    ASSUME PoolInv, NEW w \in Workers, Pool!WaitOn(w)
    PROVE  PoolInv'
<1>0. /\ PoolTypes /\ Does(w) = "loop" /\ Len(sem) \in Nat /\ Len(sem) > 0
      /\ UNCHANGED <<used, submitted, queue, state, sem, poolclient>>
  BY DEF PoolInv, PoolTypes, PoolCounts, Pool!WaitOn, Does
<1>1. PICK r : r = [worker[w] EXCEPT !.pc = "wait", !.on = Len(sem)]
  OBVIOUS
<1>2. r \in WorkerRec /\ r.pc = "wait" /\ r.on = Len(sem)
  BY <1>0, <1>1 DEF PoolTypes, WorkerRec
<1>3. worker' = [worker EXCEPT ![w] = r]
  BY <1>1 DEF Pool!WaitOn
<1>4. Moves(w, "wait") /\ worker'[w].on = Len(sem)
  BY <1>0, <1>2, <1>3, WorkerMoves
<1>5. \A c \in Clients : Pc(c)' = Pc(c) /\ Item(c)' = Item(c)
  BY <1>0, ClientsStay
<1>6. PoolTypes'
  BY <1>0, <1>4 DEF PoolTypes, Moves
<1>7. PoolStarted'
  BY <1>0, <1>4, <1>5 DEF PoolInv, PoolStarted, Moves
<1>8. PoolPlaces'
  BY <1>0, <1>4, <1>5 DEF PoolInv, PoolPlaces, Moves
<1>9. Taking' = Taking /\ Releasing' = Releasing
  BY <1>0, <1>4, <1>5 DEF Taking, Releasing, Moves
<1>10. PoolCounts'
  BY <1>0, <1>4, <1>9 DEF PoolInv, PoolCounts, Moves
<1>11. QED
  BY <1>6, <1>7, <1>8, <1>10 DEF PoolInv

LEMMA WakeStep ==
    ASSUME PoolInv, NEW w \in Workers, Pool!Wake(w)
    PROVE  PoolInv'
<1>0. /\ PoolTypes /\ Does(w) = "wait" /\ worker[w].on \in 1..Len(sem) /\ sem[worker[w].on] > 0
      /\ UNCHANGED <<used, submitted, queue, state, poolclient>>
  BY DEF PoolInv, PoolTypes, PoolCounts, Pool!Wake, Does
<1>1. state = 2 /\ Len(sem) \in Nat /\ worker[w].on = Len(sem)
  BY <1>0 DEF PoolInv, PoolStarted, PoolCounts, PoolTypes
<1>2. PICK r : r = [worker[w] EXCEPT !.pc = "take"]
  OBVIOUS
<1>3. r \in WorkerRec /\ r.pc = "take"
  BY <1>0, <1>2 DEF PoolTypes, WorkerRec
<1>4. worker' = [worker EXCEPT ![w] = r] /\ sem' = [sem EXCEPT ![Len(sem)] = sem[Len(sem)] - 1]
  BY <1>1, <1>2 DEF Pool!Wake
<1>5. Moves(w, "take")
  BY <1>0, <1>3, <1>4, WorkerMoves
<1>6. /\ sem' \in Seq(Nat) /\ Len(sem') = Len(sem) /\ sem'[Len(sem)] = sem[Len(sem)] - 1
      /\ \A k \in 1..(Len(sem) - 1) : sem'[k] = sem[k]
  BY <1>0, <1>1, <1>4 DEF PoolTypes
<1>7. \A c \in Clients : Pc(c)' = Pc(c) /\ Item(c)' = Item(c)
  BY <1>0, ClientsStay
<1>8. PoolTypes'
  BY <1>0, <1>5, <1>6 DEF PoolTypes, Moves
<1>9. PoolStarted'
  BY <1>0, <1>1, <1>6, <1>7 DEF PoolInv, PoolStarted
<1>10. PoolPlaces'
  BY <1>0, <1>5, <1>7 DEF PoolInv, PoolPlaces, Moves
<1>11. Taking' = Taking \cup {w} /\ w \notin Taking /\ Releasing' = Releasing
  BY <1>0, <1>5, <1>7 DEF Taking, Releasing, Moves
<1>12. PoolCounts'
  <2>1. IsFiniteSet(Taking') /\ Cardinality(Taking') = Cardinality(Taking) + 1
    BY <1>11, FS_AddElement DEF PoolInv, PoolCounts
  <2>2. Cardinality(Taking) \in Nat /\ Cardinality(Releasing) \in Nat /\ sem[Len(sem)] \in Nat
    BY <1>0, <1>1, FS_CardinalityType DEF PoolInv, PoolCounts, PoolTypes
  <2>3. Len(queue') = sem'[Len(sem')] + Cardinality(Taking') + Cardinality(Releasing')
    BY <1>0, <1>1, <1>6, <1>11, <2>1, <2>2 DEF PoolInv, PoolCounts
  <2>4. QED
    BY <1>0, <1>1, <1>5, <1>6, <1>11, <2>1, <2>3 DEF PoolInv, PoolCounts, Moves
<1>13. QED
  BY <1>8, <1>9, <1>10, <1>12 DEF PoolInv

LEMMA TakeStep ==
    ASSUME PoolInv, NEW w \in Workers, Pool!Take(w)
    PROVE  PoolInv'
<1>0. /\ PoolTypes /\ Does(w) = "take" /\ state = 2 /\ Len(queue) \in Nat
      /\ UNCHANGED <<used, submitted, state, sem, poolclient>>
  BY DEF PoolInv, PoolTypes, PoolStarted, Pool!Take, Does
<1>1. /\ Cardinality(Taking) \in Nat \ {0} /\ Cardinality(Releasing) \in Nat /\ sem[Len(sem)] \in Nat
      /\ IsFiniteSet(Taking) /\ w \in Taking
  <2>1. w \in Taking /\ IsFiniteSet(Taking) /\ IsFiniteSet(Releasing)
    BY <1>0 DEF Taking, PoolInv, PoolCounts
  <2>2. Cardinality(Taking) # 0
    BY <2>1, FS_EmptySet
  <2>3. sem[Len(sem)] \in Nat
    BY <1>0 DEF PoolInv, PoolTypes, PoolStarted
  <2>4. QED
    BY <2>1, <2>2, <2>3, FS_CardinalityType
<1>2. Len(queue) > 0
  BY <1>0, <1>1 DEF PoolInv, PoolCounts
<1>3. PICK i : i = queue[1]
  OBVIOUS
<1>4. i \in Pool!Items /\ queue # << >> /\ Head(queue) = i
  BY <1>0, <1>2, <1>3 DEF PoolTypes
<1>5. PICK r : r = [worker[w] EXCEPT !.pc = "run", !.item = i]
  OBVIOUS
<1>6. r \in WorkerRec /\ r.pc = "run" /\ r.item = i
  BY <1>0, <1>4, <1>5 DEF PoolTypes, WorkerRec
<1>7. worker' = [worker EXCEPT ![w] = r] /\ queue' = Tail(queue)
  BY <1>4, <1>5 DEF Pool!Take
<1>8. Moves(w, "run") /\ Runs(w)' = i
  BY <1>0, <1>6, <1>7, WorkerMoves DEF Runs
<1>9. /\ queue' \in Seq(Pool!Items) /\ Len(queue') = Len(queue) - 1
      /\ \A k \in 1..(Len(queue) - 1) : queue'[k] = queue[k + 1]
  BY <1>0, <1>2, <1>4, <1>7 DEF PoolTypes
<1>10. \A c \in Clients : Pc(c)' = Pc(c) /\ Item(c)' = Item(c)
  BY <1>0, ClientsStay
<1>11. PoolTypes'
  BY <1>0, <1>8, <1>9 DEF PoolTypes, Moves
<1>12. PoolStarted'
  BY <1>0, <1>10 DEF PoolInv, PoolStarted
<1>13. \A k \in 1..Len(queue') :
          k + 1 \in 1..Len(queue) /\ k + 1 # 1 /\ queue'[k] = queue[k + 1] /\ queue[k + 1] # i
  <2>1. \A k \in 1..Len(queue') : k + 1 \in 1..Len(queue) /\ k + 1 # 1 /\ queue'[k] = queue[k + 1]
    <3>1. Len(queue) \in Nat
      BY <1>0 DEF PoolTypes
    <3>2. PICK n \in Nat : n = Len(queue)
      BY <3>1
    <3>3. \A k \in 1..(n - 1) : k + 1 \in 1..n /\ k + 1 # 1
      BY <3>2
    <3>4. Len(queue') = n - 1 /\ \A k \in 1..(n - 1) : queue'[k] = queue[k + 1]
      BY <1>9, <3>2
    <3>5. QED
      BY <3>2, <3>3, <3>4
  <2>2. 1 \in 1..Len(queue)
    BY <1>0, <1>2
  <2>3. QED
    BY <1>3, <2>1, <2>2 DEF PoolInv, PoolPlaces
<1>14. /\ i \in submitted /\ 1 \in 1..Len(queue)
       /\ \A v \in Workers : Does(v) = "run" => Runs(v) # i
       /\ \A c \in Clients : Pc(c) = "link" => Item(c) # i
  <2>1. 1 \in 1..Len(queue)
    BY <1>0, <1>2
  <2>2. QED
    BY <1>3, <2>1 DEF PoolInv, PoolPlaces
<1>15. \A v \in Workers : Does(v)' = "run" =>
          \/ v = w /\ Runs(v)' = i
          \/ v # w /\ Does(v) = "run" /\ Runs(v)' = Runs(v)
  BY <1>8 DEF Moves
<1>16. PoolPlaces'
  <2>1. \A c \in Clients : Pc(c)' = "link" =>
          /\ Item(c)' \in submitted
          /\ \A d \in Clients : Pc(d)' = "link" /\ Item(d)' = Item(c)' => d = c
          /\ \A k \in 1..Len(queue') : queue'[k] # Item(c)'
          /\ \A v \in Workers : Does(v)' = "run" => Runs(v)' # Item(c)'
    BY <1>10, <1>13, <1>14, <1>15 DEF PoolInv, PoolPlaces
  <2>2. \A k \in 1..Len(queue') :
          /\ queue'[k] \in submitted
          /\ \A v \in Workers : Does(v)' = "run" => Runs(v)' # queue'[k]
    BY <1>13, <1>15 DEF PoolInv, PoolPlaces
  <2>3. \A k, l \in 1..Len(queue') : queue'[l] = queue'[k] => l = k
    <3>1. \A k, l \in 1..Len(queue') : queue'[l] = queue'[k] => l + 1 = k + 1
      BY <1>13 DEF PoolInv, PoolPlaces
    <3>2. QED
      BY <3>1
  <2>4. \A v \in Workers : Does(v)' = "run" =>
          /\ Runs(v)' \in submitted
          /\ \A u \in Workers : Does(u)' = "run" /\ Runs(u)' = Runs(v)' => u = v
    BY <1>14, <1>15 DEF PoolInv, PoolPlaces
  <2>5. ASSUME NEW j \in submitted
        PROVE  \/ \E c \in Clients : Pc(c)' = "link" /\ Item(c)' = j
               \/ \E k \in 1..Len(queue') : queue'[k] = j
               \/ \E v \in Workers : Does(v)' = "run" /\ Runs(v)' = j
    <3>1. CASE j = i
      BY <1>8, <3>1 DEF Moves
    <3>2. CASE \E c \in Clients : Pc(c) = "link" /\ Item(c) = j
      BY <1>10, <3>2
    <3>3. CASE j # i /\ \E k \in 1..Len(queue) : queue[k] = j
      <4>1. PICK k \in 1..Len(queue) : queue[k] = j
        BY <3>3
      <4>2. k - 1 \in 1..Len(queue') /\ (k - 1) + 1 = k /\ queue'[k - 1] = queue[(k - 1) + 1]
        BY <1>0, <1>3, <1>9, <3>3, <4>1
      <4>3. QED
        BY <4>1, <4>2
    <3>4. CASE \E v \in Workers : Does(v) = "run" /\ Runs(v) = j
      BY <1>0, <1>8, <3>4 DEF Moves
    <3>5. QED
      BY <3>1, <3>2, <3>3, <3>4 DEF PoolInv, PoolPlaces
  <2>6. QED
    BY <1>0, <2>1, <2>2, <2>3, <2>4, <2>5 DEF PoolPlaces
<1>17. Taking' = Taking \ {w} /\ Releasing' = Releasing
  BY <1>0, <1>8, <1>10 DEF Taking, Releasing, Moves
<1>18. PoolCounts'
  <2>1. IsFiniteSet(Taking') /\ Cardinality(Taking') = Cardinality(Taking) - 1
    BY <1>1, <1>17, FS_RemoveElement
  <2>2. Len(queue') = sem'[Len(sem')] + Cardinality(Taking') + Cardinality(Releasing')
    <3>1. Len(queue) = sem[Len(sem)] + Cardinality(Taking) + Cardinality(Releasing)
      BY <1>0 DEF PoolInv, PoolCounts
    <3>2. PICK a, b, m, q : a = Cardinality(Taking) /\ b = Cardinality(Releasing) /\ m = sem[Len(sem)] /\ q = Len(queue)
      OBVIOUS
    <3>3. q - 1 = m + (a - 1) + b
      BY <1>0, <1>1, <3>1, <3>2
    <3>4. QED
      BY <1>0, <1>9, <1>17, <2>1, <3>2, <3>3
  <2>3. QED
    BY <1>0, <1>8, <1>17, <2>1, <2>2 DEF PoolInv, PoolCounts, Moves
<1>19. QED
  BY <1>11, <1>12, <1>16, <1>18 DEF PoolInv

LEMMA DoneStep ==
    ASSUME PoolInv, NEW w \in Workers, Pool!Done(w)
    PROVE  PoolInv'
<1>0. /\ PoolTypes /\ Does(w) = "run" /\ state = 2 /\ submitted' = submitted \ {Runs(w)}
      /\ UNCHANGED <<used, queue, state, sem, poolclient>>
  BY DEF PoolInv, PoolTypes, PoolStarted, Pool!Done, Does, Runs
<1>1. PICK r : r = [Pool!Off EXCEPT !.pc = "loop"]
  OBVIOUS
<1>2. r \in WorkerRec /\ r.pc = "loop"
  BY <1>1 DEF Pool!Off, WorkerRec
<1>3. worker' = [worker EXCEPT ![w] = r]
  BY <1>1 DEF Pool!Done
<1>4. Moves(w, "loop")
  BY <1>0, <1>2, <1>3, WorkerMoves
<1>5. \A c \in Clients : Pc(c)' = Pc(c) /\ Item(c)' = Item(c)
  BY <1>0, ClientsStay
<1>6. PoolTypes'
  BY <1>0, <1>4 DEF PoolTypes, Moves
<1>7. PoolStarted'
  BY <1>0, <1>5 DEF PoolInv, PoolStarted
<1>8. \A v \in Workers : Does(v)' = "run" <=> v # w /\ Does(v) = "run"
  BY <1>0, <1>4 DEF Moves
<1>9. PoolPlaces'
  <2>1. \A v \in Workers : Does(v)' = "run" => Runs(v)' = Runs(v) /\ Runs(v) # Runs(w)
    BY <1>0, <1>4, <1>8 DEF PoolInv, PoolPlaces, Moves
  <2>2. /\ \A c \in Clients : Pc(c) = "link" => Item(c) # Runs(w)
        /\ \A k \in 1..Len(queue) : queue[k] # Runs(w)
    BY <1>0 DEF PoolInv, PoolPlaces
  <2>3. \A c \in Clients : Pc(c)' = "link" =>
          /\ Item(c)' \in submitted'
          /\ \A d \in Clients : Pc(d)' = "link" /\ Item(d)' = Item(c)' => d = c
          /\ \A k \in 1..Len(queue') : queue'[k] # Item(c)'
          /\ \A v \in Workers : Does(v)' = "run" => Runs(v)' # Item(c)'
    BY <1>0, <1>5, <1>8, <2>1, <2>2 DEF PoolInv, PoolPlaces
  <2>4. \A k \in 1..Len(queue') :
          /\ queue'[k] \in submitted'
          /\ \A l \in 1..Len(queue') : queue'[l] = queue'[k] => l = k
          /\ \A v \in Workers : Does(v)' = "run" => Runs(v)' # queue'[k]
    BY <1>0, <1>8, <2>1, <2>2 DEF PoolInv, PoolPlaces
  <2>5. \A v \in Workers : Does(v)' = "run" =>
          /\ Runs(v)' \in submitted'
          /\ \A u \in Workers : Does(u)' = "run" /\ Runs(u)' = Runs(v)' => u = v
    BY <1>0, <1>8, <2>1 DEF PoolInv, PoolPlaces
  <2>6. ASSUME NEW j \in submitted'
        PROVE  \/ \E c \in Clients : Pc(c)' = "link" /\ Item(c)' = j
               \/ \E k \in 1..Len(queue') : queue'[k] = j
               \/ \E v \in Workers : Does(v)' = "run" /\ Runs(v)' = j
    <3>1. j \in submitted /\ j # Runs(w)
      BY <1>0
    <3>2. \/ \E c \in Clients : Pc(c) = "link" /\ Item(c) = j
          \/ \E k \in 1..Len(queue) : queue[k] = j
          \/ \E v \in Workers : Does(v) = "run" /\ Runs(v) = j
      BY <3>1 DEF PoolInv, PoolPlaces
    <3>3. ASSUME NEW v \in Workers, Does(v) = "run", Runs(v) = j PROVE Does(v)' = "run" /\ Runs(v)' = j
      BY <1>4, <3>1, <3>3 DEF Moves
    <3>4. QED
      BY <1>0, <1>5, <3>2, <3>3
  <2>7. QED
    BY <2>3, <2>4, <2>5, <2>6 DEF PoolPlaces
<1>10. Taking' = Taking /\ Releasing' = Releasing
  BY <1>0, <1>4, <1>5 DEF Taking, Releasing, Moves
<1>11. PoolCounts'
  BY <1>0, <1>4, <1>10 DEF PoolInv, PoolCounts, Moves
<1>12. QED
  BY <1>6, <1>7, <1>9, <1>11 DEF PoolInv

LEMMA PoolNext ==
    ASSUME PoolInv, Pool!ThreadPoolAssumption, [Pool!Next]_(Pool!vars)
    PROVE  PoolInv'
<1>1. CASE UNCHANGED Pool!vars
  <2>1. UNCHANGED <<used, submitted, queue, state, sem, worker, poolclient>>
    BY <1>1 DEF Pool!vars
  <2>2. PoolTypes' /\ PoolStarted' /\ PoolPlaces'
    <3>1. PoolTypes'
      BY <2>1 DEF PoolInv, PoolTypes
    <3>2. PoolStarted'
      BY <2>1 DEF PoolInv, PoolStarted, Pc, Item, Does, Runs
    <3>3. PoolPlaces'
      BY <2>1 DEF PoolInv, PoolPlaces, Pc, Item, Does, Runs
    <3>4. QED
      BY <3>1, <3>2, <3>3
  <2>3. Taking' = Taking /\ Releasing' = Releasing
    BY <2>1 DEF Taking, Releasing, Does, Pc
  <2>4. PoolCounts'
    BY <2>1, <2>3 DEF PoolInv, PoolCounts, Does
  <2>5. QED
    BY <2>2, <2>4 DEF PoolInv
<1>2. QED
  BY <1>1, SmallSteps, SwapStep, LinkStep, ReleaseStep, EnsureStep, WaitOnStep, WakeStep, TakeStep, DoneStep
     DEF Pool!Next, Pool!ClientStep, Pool!WorkerStep

LEMMA PoolCardinality == \A S : Pool!Cardinality(S) = Cardinality(S)
  BY DEF Pool!Cardinality, Cardinality

(* A work item that was submitted is in one place, once: with the client that links it, in
   the queue, or with one worker; and its flag says so.  However many clients submit it at
   the same time, the compare-and-swap lets one through (SubmitThreadpoolWork). *)
THEOREM WorkIsInOnePlace ==
    ASSUME Pool!ThreadPoolAssumption
    PROVE  PoolSafe => []Pool!OnePlace
<1>1. PoolInv /\ [Pool!Next]_(Pool!vars) => PoolInv'
  BY PoolNext
<1>2. PoolInv => Pool!OnePlace
  <2> SUFFICES ASSUME PoolInv, NEW i \in Pool!Items
               PROVE  Cardinality(Pool!Linking(i)) + Cardinality(Pool!Queued(i)) + Cardinality(Pool!Running(i))
                        = IF i \in submitted THEN 1 ELSE 0
    BY PoolCardinality DEF Pool!OnePlace
  <2>1. /\ Pool!Linking(i) = {c \in Clients : Pc(c) = "link" /\ Item(c) = i}
        /\ Pool!Running(i) = {w \in Workers : Does(w) = "run" /\ Runs(w) = i}
        /\ Pool!Queued(i) = {k \in 1..Len(queue) : queue[k] = i}
    BY DEF Pool!Linking, Pool!Running, Pool!Queued, Pc, Item, Does, Runs, PoolInv, PoolTypes
  <2>2. Cardinality({}) = 0 /\ \A x : Cardinality({x}) = 1
    BY FS_EmptySet, FS_Singleton
  <2>3. CASE i \notin submitted
    <3>1. Pool!Linking(i) = {} /\ Pool!Running(i) = {} /\ Pool!Queued(i) = {}
      BY <2>1, <2>3 DEF PoolInv, PoolPlaces
    <3>2. QED
      BY <2>2, <2>3, <3>1
  <2>4. CASE i \in submitted /\ \E c \in Clients : Pc(c) = "link" /\ Item(c) = i
    <3>1. PICK c \in Clients : Pc(c) = "link" /\ Item(c) = i
      BY <2>4
    <3>2. Pool!Linking(i) = {c} /\ Pool!Running(i) = {} /\ Pool!Queued(i) = {}
      <4>1. Pool!Linking(i) = {c}
        BY <2>1, <3>1 DEF PoolInv, PoolPlaces
      <4>2. Pool!Running(i) = {}
        BY <2>1, <3>1 DEF PoolInv, PoolPlaces
      <4>3. Pool!Queued(i) = {}
        BY <2>1, <3>1 DEF PoolInv, PoolPlaces
      <4>4. QED
        BY <4>1, <4>2, <4>3
    <3>3. Cardinality(Pool!Linking(i)) = 1 /\ Cardinality(Pool!Running(i)) = 0 /\ Cardinality(Pool!Queued(i)) = 0
      BY <2>2, <3>2
    <3>4. QED
      BY <2>4, <3>3
  <2>5. CASE i \in submitted /\ \E k \in 1..Len(queue) : queue[k] = i
    <3>1. PICK k \in 1..Len(queue) : queue[k] = i
      BY <2>5
    <3>2. Pool!Linking(i) = {} /\ Pool!Running(i) = {} /\ Pool!Queued(i) = {k}
      <4>1. Pool!Linking(i) = {}
        BY <2>1, <3>1 DEF PoolInv, PoolPlaces
      <4>2. Pool!Running(i) = {}
        BY <2>1, <3>1 DEF PoolInv, PoolPlaces
      <4>3. \A l \in 1..Len(queue) : queue[l] = i => l = k
        BY <3>1 DEF PoolInv, PoolPlaces
      <4>4. Pool!Queued(i) = {k}
        BY <2>1, <3>1, <4>3
      <4>5. QED
        BY <4>1, <4>2, <4>4
    <3>3. Cardinality(Pool!Linking(i)) = 0 /\ Cardinality(Pool!Running(i)) = 0 /\ Cardinality(Pool!Queued(i)) = 1
      BY <2>2, <3>2
    <3>4. QED
      BY <2>5, <3>3
  <2>6. CASE i \in submitted /\ \E w \in Workers : Does(w) = "run" /\ Runs(w) = i
    <3>1. PICK w \in Workers : Does(w) = "run" /\ Runs(w) = i
      BY <2>6
    <3>2. Pool!Linking(i) = {} /\ Pool!Running(i) = {w} /\ Pool!Queued(i) = {}
      <4>1. Pool!Linking(i) = {} /\ Pool!Queued(i) = {}
        BY <2>1, <3>1 DEF PoolInv, PoolPlaces
      <4>2. \A v \in Workers : Does(v) = "run" /\ Runs(v) = i => v = w
        BY <3>1 DEF PoolInv, PoolPlaces
      <4>3. Pool!Running(i) = {w}
        BY <2>1, <3>1, <4>2
      <4>4. QED
        BY <4>1, <4>3
    <3>3. Cardinality(Pool!Linking(i)) = 0 /\ Cardinality(Pool!Running(i)) = 1 /\ Cardinality(Pool!Queued(i)) = 0
      BY <2>2, <3>2
    <3>4. QED
      BY <2>6, <3>3
  <2>7. QED
    BY <2>3, <2>4, <2>5, <2>6 DEF PoolInv, PoolPlaces
<1>3. QED
  BY <1>1, <1>2, PoolInit, PTL DEF PoolSafe

(* No wake-up is lost: what the current semaphore counts, with the workers it has woken and
   the clients that are about to release it, is the length of the queue, also after attempts
   to start the workers that failed and left semaphores behind. *)
THEOREM NoWorkIsForgotten ==
    ASSUME Pool!ThreadPoolAssumption
    PROVE  PoolSafe => []Pool!WakeupsMatch
<1>1. PoolInv /\ [Pool!Next]_(Pool!vars) => PoolInv'
  BY PoolNext
<1>2. PoolInv => Pool!WakeupsMatch
  <2> SUFFICES ASSUME PoolInv, queue # << >> PROVE Pool!WakeupsMatch
    BY DEF Pool!WakeupsMatch
  <2>1. Len(queue) # 0
    BY DEF PoolInv, PoolTypes
  <2>2. state = 2
    BY <2>1 DEF PoolInv, PoolStarted
  <2>3. Len(queue) = sem[Len(sem)] + Cardinality(Taking) + Cardinality(Releasing)
    BY <2>2 DEF PoolInv, PoolCounts
  <2>4. Pool!Last(sem) = sem[Len(sem)]
    BY DEF Pool!Last
  <2>5. QED
    BY <2>3, <2>4, PoolCardinality DEF Pool!WakeupsMatch, Taking, Releasing, Does, Pc
<1>3. QED
  BY <1>1, <1>2, PoolInit, PTL DEF PoolSafe

\* Who is to mark a slot has not been given it, and nobody was given one that is not marked.
SlotInv ==
    /\ DOMAIN given = Pool!Items
    /\ \A i \in Pool!Items : given[i] # {} => i \in used
    /\ \A c \in Clients : Pc(c) = "fill" =>
          Item(c) \in Pool!Items /\ \A x \in given[Item(c)] : x[1] # c
    /\ Pool!SlotsPrivate

\* A step by which nobody comes to fill a slot.
LEMMA SlotsStay ==
    ASSUME SlotInv, UNCHANGED <<used, given>>,
           \A d \in Clients : Pc(d)' = "fill" => Pc(d) = "fill" /\ Item(d)' = Item(d)
    PROVE  SlotInv'
  BY DEF SlotInv, Pool!SlotsPrivate

LEMMA GotoElsewhere ==
    ASSUME PoolTypes, NEW c \in Clients, NEW pc, NEW i, pc # "fill", Pool!Goto(c, pc, i)
    PROVE  \A d \in Clients : Pc(d)' = "fill" => Pc(d) = "fill" /\ Item(d)' = Item(d)
  BY DEF PoolTypes, Pool!Goto, Pc, Item

LEMMA SlotNext ==
    ASSUME PoolInv, SlotInv, Pool!ThreadPoolAssumption, [Pool!Next]_(Pool!vars)
    PROVE  SlotInv'
<1>0. PoolTypes
  BY DEF PoolInv
<1>1. CASE UNCHANGED Pool!vars
  BY <1>1 DEF Pool!vars, SlotInv, Pc, Item, Pool!SlotsPrivate
<1>2. ASSUME NEW c \in Clients, Pool!CreateThreadpoolWork(c) PROVE SlotInv'
  <2>1. PICK i : i = Pool!Min(Pool!Items \ used)
    OBVIOUS
  <2>2. i \in Pool!Items \ used
    BY <1>2, <2>1, FreeSlot DEF Pool!CreateThreadpoolWork
  <2>3. Pool!Goto(c, "fill", i) /\ UNCHANGED <<used, given>> /\ given[i] = {}
    BY <1>2, <2>1, <2>2 DEF Pool!CreateThreadpoolWork, SlotInv
  <2>4. Goes(c, "fill", i)
    BY <1>0, <2>2, <2>3, GotoMoves DEF ClientRec
  <2>5. QED
    BY <2>2, <2>3, <2>4 DEF SlotInv, Goes, Pool!SlotsPrivate
<1>3. ASSUME NEW c \in Clients, Pool!Fill(c) PROVE SlotInv'
  <2>1. PICK i : i = Item(c)
    OBVIOUS
  <2>2. /\ Pc(c) = "fill" /\ used' = used \cup {i} /\ Pool!Goto(c, "idle", 0)
        /\ given' = [given EXCEPT ![i] = given[i] \cup {<<c, Pool!Cardinality(given[i])>>}]
    BY <1>3, <2>1 DEF Pool!Fill, Pc, Item
  <2>3. Goes(c, "idle", 0)
    BY <1>0, <2>2, GotoMoves DEF ClientRec
  <2>4. i \in Pool!Items /\ \A x \in given[i] : x[1] # c
    BY <2>1, <2>2 DEF SlotInv
  <2>5. PICK p : p = <<c, Pool!Cardinality(given[i])>> /\ p[1] = c
    <3>1. \A n : <<c, n>>[1] = c
      OBVIOUS
    <3>2. QED
      BY <3>1
  <2>6. /\ given'[i] = given[i] \cup {p}
        /\ \A j \in Pool!Items : j # i => given'[j] = given[j]
        /\ DOMAIN given' = Pool!Items
    BY <2>2, <2>4, <2>5 DEF SlotInv
  <2>7. Pool!SlotsPrivate'
    BY <2>4, <2>5, <2>6 DEF SlotInv, Pool!SlotsPrivate
  <2>8. ASSUME NEW d \in Clients, Pc(d)' = "fill"
        PROVE  Item(d)' \in Pool!Items /\ \A x \in given'[Item(d)'] : x[1] # d
    <3>1. d # c /\ Pc(d) = "fill" /\ Item(d)' = Item(d)
      BY <2>3, <2>8 DEF Goes
    <3>2. Item(d) \in Pool!Items /\ \A x \in given[Item(d)] : x[1] # d
      BY <3>1 DEF SlotInv
    <3>3. QED
      BY <2>5, <2>6, <3>1, <3>2
  <2>9. QED
    BY <2>2, <2>6, <2>7, <2>8 DEF SlotInv
<1>4. ASSUME NEW c \in Clients,
             \/ \E i \in Pool!Items : Pool!SubmitThreadpoolWork(c, i)
             \/ Pool!EnsureReady(c) \/ Pool!EnsureClaim(c) \/ Pool!NoSemaphore(c) \/ Pool!StartWorkers(c)
             \/ Pool!EnsureAwait(c) \/ Pool!Awaited(c) \/ Pool!Swap(c) \/ Pool!Link(c) \/ Pool!Release(c)
      PROVE  SlotInv'
  <2>1. UNCHANGED <<used, given>>
    BY <1>4 DEF Pool!SubmitThreadpoolWork, Pool!EnsureReady, Pool!EnsureClaim, Pool!NoSemaphore,
         Pool!StartWorkers, Pool!EnsureAwait, Pool!Awaited, Pool!Swap, Pool!Link, Pool!Release
  <2>2. \E pc, i : pc # "fill" /\ Pool!Goto(c, pc, i)
    <3>1. CASE Pool!Awaited(c)
      BY <3>1 DEF Pool!Awaited
    <3>2. CASE Pool!StartWorkers(c)
      BY <3>2 DEF Pool!StartWorkers
    <3>3. CASE Pool!Swap(c)
      BY <3>3 DEF Pool!Swap
    <3>4. QED
      BY <1>4, <3>1, <3>2, <3>3 DEF Pool!SubmitThreadpoolWork, Pool!EnsureReady, Pool!EnsureClaim, Pool!NoSemaphore,
         Pool!EnsureAwait, Pool!Link, Pool!Release
  <2>3. QED
    BY <1>0, <2>1, <2>2, GotoElsewhere, SlotsStay
<1>5. ASSUME NEW w \in Workers, Pool!WorkerStep(w) PROVE SlotInv'
  <2>1. UNCHANGED <<used, given, poolclient>>
    BY <1>5 DEF Pool!WorkerStep, Pool!WaitOn, Pool!Wake, Pool!Take, Pool!Done
  <2>2. QED
    BY <2>1, SlotsStay DEF Pc, Item
<1>6. QED
  BY <1>1, <1>2, <1>3, <1>4, <1>5 DEF Pool!Next, Pool!ClientStep

(* However many threads look for slots and mark them without a lock, two calls of
   CreateThreadpoolWork that were given one slot are calls of two threads: a thread that
   has one finds it marked.  (Two threads whose calls overlap can be given the same.) *)
THEOREM WorkItemsArePrivate ==
    ASSUME Pool!ThreadPoolAssumption
    PROVE  PoolSafe => []Pool!SlotsPrivate
<1>1. Pool!Init => SlotInv
  BY DEF Pool!Init, Pool!Idle, SlotInv, Pc, Pool!SlotsPrivate
<1>2. PoolInv /\ [Pool!Next]_(Pool!vars) => PoolInv'
  BY PoolNext
<1>3. PoolInv /\ SlotInv /\ [Pool!Next]_(Pool!vars) => SlotInv'
  BY SlotNext
<1>4. SlotInv => Pool!SlotsPrivate
  BY DEF SlotInv
<1>5. QED
  BY <1>1, <1>2, <1>3, <1>4, PoolInit, PTL DEF PoolSafe

-----------------------------------------------------------------------------
(* The heap of ntdll *)

\* Two blocks, the header of the second included, do not overlap.
Apart(e, f) == e.addr + e.len < f.addr \/ f.addr + f.len < e.addr

\* A payload below the cursor, with its header.
Placed(b) == b.addr > 0 /\ b.len > 0 /\ b.addr + b.len <= cursor

HeapRec == [pc : {"idle", "spin", "in", "found"}, op : {"none", "alloc", "free"}, size : Nat,
            old : Heap!Owned \cup {Heap!None}, seen : Heap!Block]

HeapTypes ==
    /\ freelist \in Seq(Heap!Block) /\ live \subseteq Heap!Owned
    /\ cursor \in Nat \ {0} /\ committed \in Nat /\ cursor <= committed /\ segend = committed
    /\ heaplock \in BOOLEAN
    /\ heapcall \in [Callers -> HeapRec]

\* No two payloads overlap, in use or not.
AllApart ==
    /\ \A b \in live : Placed(b)
    /\ \A i \in 1..Len(freelist) : Placed(freelist[i])
    /\ \A b, c \in live : b # c => Apart(b, c)
    /\ \A b \in live, i \in 1..Len(freelist) : Apart(b, freelist[i])
    /\ \A i, j \in 1..Len(freelist) : i # j => Apart(freelist[i], freelist[j])

Inside(t) == heapcall[t].pc \in {"in", "found"}

\* One thread has the lock, and what its search has found is still on the list; who gives
\* a block back has it, and nobody else gives back the same.
CallsOK ==
    /\ \A t \in Callers : Inside(t) => heaplock
    /\ \A t, u \in Callers : Inside(t) /\ Inside(u) => t = u
    /\ \A t \in Callers : heapcall[t].pc # "idle" =>
          /\ heapcall[t].op = "alloc" => heapcall[t].size > 0
          /\ heapcall[t].op = "free" => heapcall[t].old # Heap!None
    /\ \A t \in Callers : heapcall[t].pc = "found" =>
          /\ heapcall[t].op = "alloc"
          /\ heapcall[t].seen # Heap!None =>
                \E i \in 1..Len(freelist) : freelist[i] = heapcall[t].seen
    /\ \A t \in Callers : heapcall[t].old # Heap!None => heapcall[t].old \in live
    /\ \A t, u \in Callers :
          heapcall[t].old # Heap!None /\ heapcall[t].old = heapcall[u].old => t = u

HeapInv == HeapTypes /\ AllApart /\ CallsOK

LEMMA IdleIs ==
    /\ Heap!Idle \in HeapRec /\ Heap!Idle.pc = "idle" /\ Heap!Idle.old = Heap!None
    /\ Heap!Idle.seen = Heap!None
<1>1. Heap!None \in Heap!Block
  BY DEF Heap!None, Heap!Block
<1>2. Heap!Idle = [pc |-> "idle", op |-> "none", size |-> 0, old |-> Heap!None, seen |-> Heap!None]
  BY DEF Heap!Idle
<1>3. QED
  BY <1>1, <1>2 DEF HeapRec

LEMMA HeapInit == ASSUME Heap!RtlHeapAssumption PROVE Heap!Init => HeapInv
<1> SUFFICES ASSUME Heap!Init PROVE HeapInv
  OBVIOUS
<1>1. heapcall = [t \in Callers |-> Heap!Idle] /\ freelist = << >> /\ live = {}
  BY DEF Heap!Init
<1>2. HeapTypes
  <2>1. heapcall \in [Callers -> HeapRec]
    BY <1>1, IdleIs
  <2>2. freelist \in Seq(Heap!Block)
    BY <1>1
  <2>3. heaplock \in BOOLEAN
    BY DEF Heap!Init
  <2>4. cursor = 1 /\ segend = 1 /\ committed = 1
    BY DEF Heap!Init
  <2>5. live \subseteq Heap!Owned
    BY <1>1
  <2>6. QED
    BY <2>1, <2>2, <2>3, <2>4, <2>5 DEF HeapTypes
<1>3. Len(freelist) = 0
  BY <1>1
<1>4. AllApart
  BY <1>1, <1>3 DEF AllApart
<1>5. CallsOK
  BY <1>1, IdleIs DEF CallsOK, Inside
<1>6. QED
  BY <1>2, <1>4, <1>5 DEF HeapInv

\* A block is given out: it overlaps nothing, and the segment holds it.
Gives(b) ==
    /\ live' = live \cup {b} /\ b \in Heap!Owned
    /\ \A c \in live : Apart(b, c)
    /\ b.addr > 0 /\ b.len > 0 /\ b.addr + b.len <= committed'

\* A block at a of n units is in use or on the free list.
HasBlock(a, n) ==
    \/ \E b \in live : b.addr = a /\ b.len = n
    \/ \E i \in 1..Len(freelist) : freelist[i].addr = a /\ freelist[i].len = n

\* No block disappears.
Kept == \A a, n : HasBlock(a, n) => HasBlock(a, n)'

\* What the callers see of a step.
Seen ==
    /\ committed <= committed'
    /\ \/ live' = live
       \/ \E b : Gives(b)
       \/ \E b \in live : live' = live \ {b}

LEMMA HeapCall ==
    ASSUME HeapInv, NEW t \in Callers, Heap!Call(t), Heap!RtlHeapAssumption
    PROVE  HeapInv' /\ Seen
<1>1. UNCHANGED <<freelist, cursor, segend, committed, heaplock, live>> /\ heapcall[t] = Heap!Idle
  BY DEF Heap!Call
<1>2. PICK r \in HeapRec :
         /\ heapcall' = [heapcall EXCEPT ![t] = r]
         /\ r.pc = "spin"
         /\ r.op = "alloc" => r.size > 0
         /\ r.op = "free" => r.old # Heap!None
         /\ r.old # Heap!None => r.old \in live /\ \A u \in Callers : heapcall[u].old # r.old
  <2>0. \A size \in Sizes : Heap!Round(size) \in Nat /\ Heap!Round(size) > 0
    BY DEF Heap!Round, Heap!RtlHeapAssumption
  <2>1. \A b \in live : b # Heap!None /\ b \in Heap!Owned
    BY DEF HeapInv, HeapTypes, AllApart, Placed, Heap!None
  <2>2. CASE \E size \in Sizes :
          heapcall' = [heapcall EXCEPT ![t] =
             [Heap!Idle EXCEPT !.pc = "spin", !.op = "alloc", !.size = Heap!Round(size)]]
    <3>1. PICK size \in Sizes : heapcall' = [heapcall EXCEPT ![t] =
             [Heap!Idle EXCEPT !.pc = "spin", !.op = "alloc", !.size = Heap!Round(size)]]
      BY <2>2
    <3>2. PICK r : r = [Heap!Idle EXCEPT !.pc = "spin", !.op = "alloc", !.size = Heap!Round(size)]
      OBVIOUS
    <3>3. r \in HeapRec /\ r.pc = "spin" /\ r.op = "alloc" /\ r.size = Heap!Round(size) /\ r.old = Heap!None
      BY <2>0, <3>2, IdleIs DEF HeapRec
    <3>4. QED
      BY <2>0, <3>1, <3>2, <3>3
  <2>3. CASE \E b \in live \ Heap!Busy :
          heapcall' = [heapcall EXCEPT ![t] = [Heap!Idle EXCEPT !.pc = "spin", !.op = "free", !.old = b]]
    <3>1. PICK b \in live \ Heap!Busy :
             heapcall' = [heapcall EXCEPT ![t] = [Heap!Idle EXCEPT !.pc = "spin", !.op = "free", !.old = b]]
      BY <2>3
    <3>2. PICK r : r = [Heap!Idle EXCEPT !.pc = "spin", !.op = "free", !.old = b]
      OBVIOUS
    <3>3. r \in HeapRec /\ r.pc = "spin" /\ r.op = "free" /\ r.old = b
      BY <2>1, <3>2, IdleIs DEF HeapRec
    <3>4. b \in live /\ b # Heap!None /\ \A u \in Callers : heapcall[u].old # b
      BY <2>1, <3>1 DEF Heap!Busy
    <3>5. QED
      BY <3>1, <3>2, <3>3, <3>4
  <2>4. CASE \E b \in live \ Heap!Busy, size \in Sizes :
          heapcall' = [heapcall EXCEPT ![t] =
             [Heap!Idle EXCEPT !.pc = "spin", !.op = "alloc", !.size = Heap!Round(size), !.old = b]]
    <3>1. PICK b \in live \ Heap!Busy, size \in Sizes :
             heapcall' = [heapcall EXCEPT ![t] =
               [Heap!Idle EXCEPT !.pc = "spin", !.op = "alloc", !.size = Heap!Round(size), !.old = b]]
      BY <2>4
    <3>2. PICK r : r = [Heap!Idle EXCEPT !.pc = "spin", !.op = "alloc", !.size = Heap!Round(size), !.old = b]
      OBVIOUS
    <3>3. r \in HeapRec /\ r.pc = "spin" /\ r.op = "alloc" /\ r.size = Heap!Round(size) /\ r.old = b
      BY <2>0, <2>1, <3>2, IdleIs DEF HeapRec
    <3>4. b \in live /\ b # Heap!None /\ \A u \in Callers : heapcall[u].old # b
      BY <2>1, <3>1 DEF Heap!Busy
    <3>5. QED
      BY <2>0, <3>1, <3>2, <3>3, <3>4
  <2>5. QED
    BY <2>2, <2>3, <2>4 DEF Heap!Call
<1>3. HeapTypes'
  BY <1>1, <1>2 DEF HeapInv, HeapTypes
<1>4. AllApart'
  BY <1>1 DEF HeapInv, AllApart, Placed
<1>5. heapcall'[t] = r /\ \A u \in Callers : u # t => heapcall'[u] = heapcall[u]
  BY <1>2 DEF HeapInv, HeapTypes
<1>6. CallsOK'
  BY <1>1, <1>2, <1>5 DEF HeapInv, CallsOK, Inside
<1>7. QED
  BY <1>1, <1>3, <1>4, <1>6 DEF HeapInv, HeapTypes, Seen

LEMMA HeapLock ==
    ASSUME HeapInv, NEW t \in Callers, Heap!heap_lock(t)
    PROVE  HeapInv' /\ Seen
<1>1. /\ UNCHANGED <<freelist, cursor, segend, committed, live>> /\ heapcall[t].pc = "spin"
      /\ ~heaplock /\ heaplock' = TRUE
  BY DEF Heap!heap_lock
<1>2. PICK r : r = [heapcall[t] EXCEPT !.pc = "in"]
  OBVIOUS
<1>3. heapcall' = [heapcall EXCEPT ![t] = r] /\ heapcall[t] \in HeapRec
  BY <1>2 DEF Heap!heap_lock, HeapInv, HeapTypes
<1>4. /\ r \in HeapRec /\ r.pc = "in" /\ r.op = heapcall[t].op /\ r.size = heapcall[t].size
      /\ r.old = heapcall[t].old
  BY <1>2, <1>3 DEF HeapRec
<1>5. HeapTypes'
  BY <1>1, <1>3, <1>4 DEF HeapInv, HeapTypes
<1>6. AllApart'
  BY <1>1 DEF HeapInv, AllApart, Placed
<1>7. heapcall'[t] = r /\ \A u \in Callers : u # t => heapcall'[u] = heapcall[u]
  BY <1>3 DEF HeapInv, HeapTypes
<1>8. CallsOK'
  BY <1>1, <1>4, <1>7 DEF HeapInv, CallsOK, Inside
<1>9. QED
  BY <1>1, <1>5, <1>6, <1>8 DEF HeapInv, HeapTypes, Seen

LEMMA HeapLeast ==
    ASSUME NEW S \in SUBSET Nat, S # {}
    PROVE  Heap!Min(S) \in S
<1>1. PICK x \in S : \A y \in S : <<y, x>> \notin OpToRel(<, Nat)
  BY NatLessThanWellFounded, WFMin
<1>2. ASSUME NEW y \in S PROVE ~(y < x)
  BY <1>1 DEF OpToRel
<1>3. \A y \in S : x <= y
  BY <1>2
<1>4. QED
  BY <1>3 DEF Heap!Min

LEMMA HeapSearch ==
    ASSUME HeapInv, NEW t \in Callers, Heap!Search(t)
    PROVE  HeapInv' /\ Seen
<1>1. /\ UNCHANGED <<freelist, cursor, segend, committed, heaplock, live>>
      /\ heapcall[t].pc = "in" /\ heapcall[t].op = "alloc"
  BY DEF Heap!Search
<1>2. PICK fits : fits = {i \in DOMAIN freelist : freelist[i].len >= heapcall[t].size}
  OBVIOUS
<1>3. PICK b : b = IF fits = {} THEN Heap!None ELSE freelist[Heap!Min(fits)]
  OBVIOUS
<1>4. b \in Heap!Block /\ (b # Heap!None => \E i \in 1..Len(freelist) : freelist[i] = b)
  <2>1. DOMAIN freelist = 1..Len(freelist) /\ \A i \in 1..Len(freelist) : freelist[i] \in Heap!Block
    BY DEF HeapInv, HeapTypes
  <2>2. fits \in SUBSET Nat /\ fits \subseteq 1..Len(freelist)
    BY <1>2, <2>1
  <2>3. CASE fits = {}
    BY <1>3, <2>3, IdleIs DEF Heap!None, Heap!Block
  <2>4. CASE fits # {}
    <3>1. Heap!Min(fits) \in fits
      BY <2>2, <2>4, HeapLeast
    <3>2. QED
      BY <1>3, <2>1, <2>2, <2>4, <3>1
  <2>5. QED
    BY <2>3, <2>4
<1>5. PICK r : r = [heapcall[t] EXCEPT !.pc = "found", !.seen = b]
  OBVIOUS
<1>6. heapcall' = [heapcall EXCEPT ![t] = r] /\ heapcall[t] \in HeapRec
  BY <1>2, <1>3, <1>5 DEF Heap!Search, HeapInv, HeapTypes
<1>7. /\ r \in HeapRec /\ r.pc = "found" /\ r.op = heapcall[t].op /\ r.size = heapcall[t].size
      /\ r.old = heapcall[t].old /\ r.seen = b
  BY <1>4, <1>5, <1>6 DEF HeapRec
<1>8. HeapTypes'
  BY <1>1, <1>6, <1>7 DEF HeapInv, HeapTypes
<1>9. AllApart'
  BY <1>1 DEF HeapInv, AllApart, Placed
<1>10. heapcall'[t] = r /\ \A u \in Callers : u # t => heapcall'[u] = heapcall[u]
  BY <1>6 DEF HeapInv, HeapTypes
<1>11. CallsOK'
  BY <1>1, <1>4, <1>7, <1>10 DEF HeapInv, CallsOK, Inside
<1>12. QED
  BY <1>1, <1>8, <1>9, <1>11 DEF HeapInv, HeapTypes, Seen

\* The call of t gives the lock back; what it has still to free is what it had.
Leaves(t, r) ==
    /\ r \in HeapRec /\ heapcall' = [heapcall EXCEPT ![t] = r] /\ heaplock' = FALSE
    /\ r.pc \in {"idle", "spin"}
    /\ r.pc = "spin" => r.op = "free" /\ r.old # Heap!None
    /\ r.old \in {Heap!None, heapcall[t].old}

LEMMA AfterLeaves ==
    ASSUME HeapInv, NEW t \in Callers, NEW ok \in BOOLEAN,
           heapcall' = [heapcall EXCEPT ![t] = Heap!After(t, ok)], heaplock' = FALSE
    PROVE  Leaves(t, Heap!After(t, ok))
<1>1. CASE ok /\ heapcall[t].old # Heap!None
  <2>1. PICK r : r = [Heap!Idle EXCEPT !.pc = "spin", !.op = "free", !.old = heapcall[t].old]
    OBVIOUS
  <2>2. heapcall[t] \in HeapRec
    BY DEF HeapInv, HeapTypes
  <2>3. r \in HeapRec /\ r.pc = "spin" /\ r.op = "free" /\ r.old = heapcall[t].old
    BY <2>1, <2>2, IdleIs DEF HeapRec
  <2>4. QED
    BY <1>1, <2>1, <2>3 DEF Leaves, Heap!After
<1>2. CASE ~(ok /\ heapcall[t].old # Heap!None)
  BY <1>2, IdleIs DEF Leaves, Heap!After
<1>3. QED
  BY <1>1, <1>2

LEMMA CallLeaves ==
    ASSUME HeapInv, NEW t \in Callers, NEW r, Inside(t), Leaves(t, r),
           \A u \in Callers : u # t /\ heapcall[u].old # Heap!None => heapcall[u].old \in live',
           r.old # Heap!None => r.old \in live'
    PROVE  CallsOK' /\ heapcall' \in [Callers -> HeapRec] /\ heaplock' \in BOOLEAN
<1>1. heapcall'[t] = r /\ \A u \in Callers : u # t => heapcall'[u] = heapcall[u]
  BY DEF Leaves, HeapInv, HeapTypes
<1>2. \A u \in Callers : ~Inside(u)'
  BY <1>1 DEF Leaves, HeapInv, CallsOK, Inside
<1>3. \A u \in Callers : heapcall'[u].pc # "found"
  BY <1>2 DEF Inside
<1>4. CallsOK'
  BY <1>1, <1>2, <1>3 DEF Leaves, HeapInv, CallsOK
<1>5. QED
  BY <1>4 DEF Leaves, HeapInv, HeapTypes

LEMMA HeapFull ==
    ASSUME HeapInv, NEW t \in Callers, Heap!OutOfMemory(t)
    PROVE  HeapInv' /\ Seen
<1>1. UNCHANGED <<freelist, cursor, segend, committed, live>> /\ Inside(t)
  BY DEF Heap!OutOfMemory, Inside
<1>2. Leaves(t, Heap!After(t, FALSE))
  BY AfterLeaves DEF Heap!OutOfMemory
<1>3. CallsOK' /\ heapcall' \in [Callers -> HeapRec] /\ heaplock' \in BOOLEAN
  BY <1>1, <1>2, CallLeaves DEF HeapInv, CallsOK, Leaves
<1>4. HeapTypes'
  BY <1>1, <1>3 DEF HeapInv, HeapTypes
<1>5. AllApart'
  BY <1>1 DEF HeapInv, AllApart, Placed
<1>6. QED
  BY <1>1, <1>3, <1>4, <1>5 DEF HeapInv, HeapTypes, Seen

\* A block that begins at the cursor or later overlaps nothing.
LEMMA NewBlock ==
    ASSUME HeapInv, NEW t \in Callers, NEW b \in Heap!Owned, Inside(t), NEW r, Leaves(t, r),
           b.addr > cursor, b.len > 0, b.addr + b.len = cursor',
           cursor' <= committed', committed' \in Nat, segend' = committed', committed <= committed',
           live' = live \cup {b}, freelist' = freelist
    PROVE  HeapInv' /\ Seen
<1>0. b.addr \in Nat /\ b.len \in Nat /\ cursor \in Nat \ {0} /\ cursor < cursor' /\ cursor' \in Nat
  BY DEF Heap!Owned, HeapInv, HeapTypes
<1>1. CallsOK' /\ heapcall' \in [Callers -> HeapRec] /\ heaplock' \in BOOLEAN
  BY CallLeaves DEF HeapInv, CallsOK, Leaves
<1>2. HeapTypes'
  BY <1>0, <1>1 DEF HeapInv, HeapTypes
<1>3. /\ \A c \in live : c.addr \in Nat /\ c.len \in Nat
      /\ \A i \in 1..Len(freelist) : freelist[i].addr \in Nat /\ freelist[i].len \in Nat
  <2>1. live \subseteq Heap!Owned /\ \A i \in 1..Len(freelist) : freelist[i] \in Heap!Block
    BY DEF HeapInv, HeapTypes
  <2>2. \A c \in Heap!Owned : c.addr \in Nat /\ c.len \in Nat
    BY DEF Heap!Owned
  <2>3. \A c \in Heap!Block : c.addr \in Nat /\ c.len \in Nat
    BY DEF Heap!Block
  <2>4. QED
    BY <2>1, <2>2, <2>3
<1>4. (\A c \in live : Apart(b, c) /\ Apart(c, b)) /\ (\A i \in 1..Len(freelist) : Apart(b, freelist[i]))
  <2>1. \A a, n \in Nat : a + n <= cursor => a + n < b.addr
    BY <1>0
  <2>2. \A c \in live : c.addr + c.len <= cursor
    BY DEF HeapInv, AllApart, Placed
  <2>3. \A i \in 1..Len(freelist) : freelist[i].addr + freelist[i].len <= cursor
    BY DEF HeapInv, AllApart, Placed
  <2>4. \A c \in live : c.addr + c.len < b.addr
    BY <1>3, <2>1, <2>2
  <2>5. \A i \in 1..Len(freelist) : freelist[i].addr + freelist[i].len < b.addr
    BY <1>3, <2>1, <2>3
  <2>6. QED
    BY <2>4, <2>5 DEF Apart
<1>5. (\A c \in live' : Placed(c)') /\ (\A i \in 1..Len(freelist) : Placed(freelist[i])')
  BY <1>0, <1>3 DEF HeapInv, AllApart, Placed
<1>6. AllApart'
  <2>1. \A c, d \in live' : c # d => Apart(c, d)
    BY <1>4 DEF HeapInv, AllApart
  <2>2. \A c \in live', i \in 1..Len(freelist) : Apart(c, freelist[i])
    BY <1>4 DEF HeapInv, AllApart
  <2>3. \A i, j \in 1..Len(freelist) : i # j => Apart(freelist[i], freelist[j])
    BY DEF HeapInv, AllApart
  <2>4. QED
    BY <1>5, <2>1, <2>2, <2>3 DEF AllApart, Apart
<1>7. Gives(b)
  BY <1>0, <1>4 DEF Gives
<1>8. QED
  BY <1>1, <1>2, <1>6, <1>7 DEF HeapInv, Seen

LEMMA GivenIs ==
    ASSUME NEW t \in Callers, NEW a \in Nat, NEW n \in Nat
    PROVE  /\ Heap!Given([addr |-> a, len |-> n], t) \in Heap!Owned
           /\ Heap!Given([addr |-> a, len |-> n], t).addr = a
           /\ Heap!Given([addr |-> a, len |-> n], t).len = n
  BY DEF Heap!Given, Heap!Owned

LEMMA HeapBump ==
    ASSUME HeapInv, NEW t \in Callers, Heap!Bump(t)
    PROVE  HeapInv' /\ Seen
<1>0. /\ heapcall[t] \in HeapRec /\ cursor \in Nat \ {0} /\ committed \in Nat /\ segend = committed
      /\ heapcall[t].pc = "found"
  BY DEF HeapInv, HeapTypes, Heap!Bump
<1>1. PICK n : n = heapcall[t].size
  OBVIOUS
<1>2. n \in Nat /\ n > 0
  BY <1>0, <1>1 DEF HeapRec, HeapInv, CallsOK
<1>3. /\ committed - cursor >= n + 1 /\ cursor' = cursor + 1 + n
      /\ live' = live \cup {Heap!Given([addr |-> cursor + 1, len |-> n], t)}
      /\ UNCHANGED <<freelist, segend, committed>> /\ Inside(t)
  BY <1>0, <1>1 DEF Heap!Bump, Heap!Cut, Inside
<1>4. PICK b : b = Heap!Given([addr |-> cursor + 1, len |-> n], t)
  OBVIOUS
<1>5. b \in Heap!Owned /\ b.addr = cursor + 1 /\ b.len = n
  <2>1. cursor + 1 \in Nat
    BY <1>0
  <2>2. QED
    BY <1>2, <1>4, <2>1, GivenIs
<1>6. Leaves(t, Heap!After(t, TRUE))
  BY AfterLeaves DEF Heap!Bump
<1>7. /\ b.addr > cursor /\ b.len > 0 /\ b.addr + b.len = cursor' /\ cursor' <= committed'
      /\ committed' \in Nat /\ segend' = committed' /\ committed <= committed'
  BY <1>0, <1>2, <1>3, <1>5
<1>8. QED
  BY <1>3, <1>4, <1>5, <1>6, <1>7, NewBlock

LEMMA GrownIsEnough ==
    ASSUME Heap!RtlHeapAssumption, NEW n \in Nat
    PROVE  Heap!Grown(n) \in Nat /\ Heap!Grown(n) >= n
  BY TicksFor DEF Heap!Grown, Heap!RtlHeapAssumption

LEMMA HeapGrow ==
    ASSUME HeapInv, Heap!RtlHeapAssumption, NEW t \in Callers, Heap!heap_grow(t)
    PROVE  HeapInv' /\ Seen
<1>0. /\ heapcall[t] \in HeapRec /\ cursor \in Nat \ {0} /\ committed \in Nat /\ cursor <= committed
      /\ heapcall[t].pc = "found"
  BY DEF HeapInv, HeapTypes, Heap!heap_grow
<1>1. PICK n, g : n = heapcall[t].size /\ g = Heap!Grown(n + 1)
  OBVIOUS
<1>2. n \in Nat /\ n > 0
  BY <1>0, <1>1 DEF HeapRec, HeapInv, CallsOK
<1>3. g \in Nat /\ g >= n + 1
  <2>1. n + 1 \in Nat
    BY <1>2
  <2>2. QED
    BY <1>1, <2>1, GrownIsEnough
<1>4. /\ committed' = committed + g /\ segend' = committed + g /\ cursor' = committed + 1 + n
      /\ live' = live \cup {Heap!Given([addr |-> committed + 1, len |-> n], t)}
      /\ UNCHANGED freelist /\ Inside(t)
  BY <1>1 DEF Heap!heap_grow, Heap!Cut, Inside
<1>5. PICK b : b = Heap!Given([addr |-> committed + 1, len |-> n], t)
  OBVIOUS
<1>6. b \in Heap!Owned /\ b.addr = committed + 1 /\ b.len = n
  <2>1. committed + 1 \in Nat
    BY <1>0
  <2>2. QED
    BY <1>2, <1>5, <2>1, GivenIs
<1>7. Leaves(t, Heap!After(t, TRUE))
  BY AfterLeaves DEF Heap!heap_grow
<1>8. /\ b.addr > cursor /\ b.len > 0 /\ b.addr + b.len = cursor' /\ cursor' <= committed'
      /\ committed' \in Nat /\ segend' = committed' /\ committed <= committed'
  BY <1>0, <1>2, <1>3, <1>4, <1>6
<1>9. QED
  BY <1>4, <1>5, <1>6, <1>7, <1>8, NewBlock

\* Where an element of a list is found before element m is taken out.
From(k, m) == IF k < m THEN k ELSE k + 1

LEMMA OneLess ==
    ASSUME NEW S, NEW ns \in Seq(S), NEW m \in 1..Len(ns)
    PROVE  /\ Heap!RemoveAt(ns, m) \in Seq(S) /\ Len(Heap!RemoveAt(ns, m)) = Len(ns) - 1
           /\ \A k \in 1..(Len(ns) - 1) :
                /\ From(k, m) \in 1..Len(ns) /\ From(k, m) # m
                /\ Heap!RemoveAt(ns, m)[k] = ns[From(k, m)]
<1>1. PICK a, b : a = SubSeq(ns, 1, m - 1) /\ b = SubSeq(ns, m + 1, Len(ns))
  OBVIOUS
<1>2. a \in Seq(S) /\ Len(a) = m - 1 /\ \A k \in 1..(m - 1) : a[k] = ns[k]
  BY <1>1
<1>3. /\ b \in Seq(S) /\ Len(b) = Len(ns) - m
      /\ \A k \in 1..(Len(ns) - m) : b[k] = ns[k + m]
  BY <1>1
<1>4. Heap!RemoveAt(ns, m) = a \o b
  BY <1>1 DEF Heap!RemoveAt
<1>5. a \o b \in Seq(S) /\ Len(a \o b) = Len(ns) - 1
  <2>0. a \in Seq(S) /\ b \in Seq(S)
    BY <1>2, <1>3
  <2>1. a \o b \in Seq(S) /\ Len(a \o b) = Len(a) + Len(b)
    BY <2>0
  <2>2. Len(ns) \in Nat
    OBVIOUS
  <2>3. (m - 1) + (Len(ns) - m) = Len(ns) - 1
    BY <2>2
  <2>4. Len(a) + Len(b) = (m - 1) + (Len(ns) - m)
    BY <1>2, <1>3
  <2>5. QED
    BY <2>1, <2>3, <2>4
<1>6. ASSUME NEW k \in 1..(Len(ns) - 1)
      PROVE  From(k, m) \in 1..Len(ns) /\ From(k, m) # m /\ (a \o b)[k] = ns[From(k, m)]
  <2>1. CASE k < m
    <3>1. k \in 1..Len(a) /\ k \in 1..(m - 1)
      BY <1>2, <2>1
    <3>2. (a \o b)[k] = a[k]
      BY <1>2, <1>3, <3>1
    <3>3. QED
      BY <1>2, <2>1, <3>1, <3>2 DEF From
  <2>2. CASE ~(k < m)
    <3>1. k - (m - 1) \in 1..(Len(ns) - m) /\ ~(k \in 1..Len(a)) /\ k \in 1..(Len(a) + Len(b))
      BY <1>2, <1>3, <2>2
    <3>2. (a \o b)[k] = b[k - Len(a)]
      BY <1>2, <1>3, <3>1
    <3>3. b[k - (m - 1)] = ns[(k - (m - 1)) + m]
      BY <1>3, <3>1
    <3>4. (k - (m - 1)) + m = k + 1
      OBVIOUS
    <3>5. QED
      BY <1>2, <2>2, <3>2, <3>3, <3>4 DEF From
  <2>3. QED
    BY <2>1, <2>2
<1>7. QED
  BY <1>4, <1>5, <1>6

LEMMA HeapTake ==
    ASSUME HeapInv, NEW t \in Callers, Heap!TakeFree(t)
    PROVE  HeapInv' /\ Seen /\ Kept
<1>0. /\ heapcall[t] \in HeapRec /\ heapcall[t].pc = "found" /\ heapcall[t].seen # Heap!None
      /\ UNCHANGED <<cursor, segend, committed>> /\ Inside(t)
      /\ freelist \in Seq(Heap!Block) /\ Len(freelist) \in Nat
      /\ DOMAIN freelist = 1..Len(freelist)
  BY DEF HeapInv, HeapTypes, Heap!TakeFree, Inside
<1>1. PICK at : at = {i \in DOMAIN freelist : freelist[i] = heapcall[t].seen}
  OBVIOUS
<1>2. at \subseteq 1..Len(freelist) /\ at \in SUBSET Nat /\ at # {}
  BY <1>0, <1>1 DEF HeapInv, CallsOK
<1>3. PICK m : m = Heap!Min(at)
  OBVIOUS
<1>4. m \in 1..Len(freelist) /\ freelist[m] = heapcall[t].seen
  <2>1. m \in at
    BY <1>2, <1>3, HeapLeast
  <2>2. QED
    BY <1>1, <1>2, <2>1
<1>5. /\ freelist' = Heap!RemoveAt(freelist, m)
      /\ live' = live \cup {Heap!Given(freelist[m], t)}
  BY <1>1, <1>2, <1>3, <1>4 DEF Heap!TakeFree
<1>6. /\ freelist' \in Seq(Heap!Block) /\ Len(freelist') = Len(freelist) - 1
      /\ \A k \in 1..Len(freelist') :
           From(k, m) \in 1..Len(freelist) /\ From(k, m) # m /\ freelist'[k] = freelist[From(k, m)]
  <2>1. /\ Heap!RemoveAt(freelist, m) \in Seq(Heap!Block)
        /\ Len(Heap!RemoveAt(freelist, m)) = Len(freelist) - 1
        /\ \A k \in 1..(Len(freelist) - 1) :
             /\ From(k, m) \in 1..Len(freelist) /\ From(k, m) # m
             /\ Heap!RemoveAt(freelist, m)[k] = freelist[From(k, m)]
    BY <1>0, <1>4, OneLess
  <2>2. QED
    BY <1>5, <2>1
<1>7. PICK b : b = Heap!Given(freelist[m], t)
  OBVIOUS
<1>8. b \in Heap!Owned /\ b.addr = freelist[m].addr /\ b.len = freelist[m].len
  <2>1. freelist[m] \in Heap!Block
    BY <1>0, <1>4
  <2>2. QED
    BY <1>7, <2>1 DEF Heap!Given, Heap!Owned, Heap!Block
<1>9. Leaves(t, Heap!After(t, TRUE))
  BY AfterLeaves DEF Heap!TakeFree
<1>10. CallsOK' /\ heapcall' \in [Callers -> HeapRec] /\ heaplock' \in BOOLEAN
  BY <1>0, <1>5, <1>9, CallLeaves DEF HeapInv, CallsOK, Leaves
<1>11. HeapTypes'
  BY <1>0, <1>5, <1>6, <1>7, <1>8, <1>10 DEF HeapInv, HeapTypes
<1>12. /\ Placed(b) /\ \A c \in live : Apart(b, c) /\ Apart(c, b)
       /\ \A i \in 1..Len(freelist) : i # m => Apart(b, freelist[i])
  BY <1>4, <1>8 DEF HeapInv, AllApart, Placed, Apart
<1>13. AllApart'
  <2>1. \A c \in live' : Placed(c)'
    BY <1>0, <1>5, <1>7, <1>12 DEF HeapInv, AllApart, Placed
  <2>2. \A i \in 1..Len(freelist') : Placed(freelist[i])'
    <3>1. \A i \in 1..Len(freelist) : Placed(freelist[i])
      BY DEF HeapInv, AllApart
    <3>2. \A i \in 1..Len(freelist') : Placed(freelist'[i])
      BY <1>6, <3>1
    <3>3. QED
      BY <1>0, <3>2 DEF Placed
  <2>3. \A c, d \in live' : c # d => Apart(c, d)
    BY <1>5, <1>7, <1>12 DEF HeapInv, AllApart
  <2>4. \A c \in live', i \in 1..Len(freelist') : Apart(c, freelist'[i])
    BY <1>5, <1>6, <1>7, <1>12 DEF HeapInv, AllApart
  <2>5. \A i, j \in 1..Len(freelist') : i # j => From(i, m) # From(j, m)
    BY <1>4, <1>6 DEF From
  <2>6. \A i, j \in 1..Len(freelist') : i # j => Apart(freelist'[i], freelist'[j])
    BY <1>6, <2>5 DEF HeapInv, AllApart
  <2>7. QED
    BY <2>1, <2>2, <2>3, <2>4, <2>6 DEF AllApart, Apart
<1>14. Gives(b)
  BY <1>0, <1>5, <1>7, <1>8, <1>12 DEF Gives, Placed, HeapInv, HeapTypes, Heap!Owned
<1>15. ASSUME NEW a, NEW n, HasBlock(a, n) PROVE HasBlock(a, n)'
  <2>1. CASE \E c \in live : c.addr = a /\ c.len = n
    BY <1>5, <2>1 DEF HasBlock
  <2>2. ASSUME NEW i \in 1..Len(freelist), freelist[i].addr = a /\ freelist[i].len = n
        PROVE  HasBlock(a, n)'
    <3>1. CASE i = m
      BY <1>5, <1>7, <1>8, <2>2, <3>1 DEF HasBlock
    <3>2. CASE i # m
      <4>1. PICK k : k = IF i < m THEN i ELSE i - 1
        OBVIOUS
      <4>2. k \in 1..Len(freelist') /\ From(k, m) = i
        BY <1>0, <1>4, <1>6, <3>2, <4>1 DEF From
      <4>3. freelist'[k] = freelist[i]
        BY <1>6, <4>2
      <4>4. QED
        BY <2>2, <4>2, <4>3 DEF HasBlock
    <3>3. QED
      BY <3>1, <3>2
  <2>3. QED
    BY <1>15, <2>1, <2>2 DEF HasBlock
<1>16. QED
  BY <1>0, <1>10, <1>11, <1>13, <1>14, <1>15 DEF HeapInv, HeapTypes, Seen, Kept

LEMMA PutFirst ==
    ASSUME NEW S, NEW ns \in Seq(S), NEW e \in S
    PROVE  /\ <<e>> \o ns \in Seq(S) /\ Len(<<e>> \o ns) = Len(ns) + 1
           /\ (<<e>> \o ns)[1] = e
           /\ \A k \in 2..(Len(ns) + 1) : k - 1 \in 1..Len(ns) /\ (<<e>> \o ns)[k] = ns[k - 1]
  OBVIOUS

LEMMA HeapFree ==
    ASSUME HeapInv, NEW t \in Callers, Heap!RtlFreeHeap(t)
    PROVE  HeapInv' /\ Seen /\ Kept
<1>0. /\ heapcall[t] \in HeapRec /\ heapcall[t].pc = "in" /\ heapcall[t].op = "free" /\ Inside(t)
      /\ UNCHANGED <<cursor, segend, committed>>
      /\ freelist \in Seq(Heap!Block) /\ Len(freelist) \in Nat
  BY DEF HeapInv, HeapTypes, Heap!RtlFreeHeap, Inside
<1>1. PICK b, p : b = heapcall[t].old /\ p = Heap!Plain(b)
  OBVIOUS
<1>2. b # Heap!None /\ b \in live
  BY <1>0, <1>1 DEF HeapInv, CallsOK
<1>3. b \in Heap!Owned
  BY <1>2 DEF HeapInv, HeapTypes
<1>4. p \in Heap!Block /\ p.addr = b.addr /\ p.len = b.len
  BY <1>1, <1>3 DEF Heap!Plain, Heap!Owned, Heap!Block
<1>5. freelist' = <<p>> \o freelist /\ live' = live \ {b}
  BY <1>1 DEF Heap!RtlFreeHeap
<1>6. /\ freelist' \in Seq(Heap!Block) /\ Len(freelist') = Len(freelist) + 1
      /\ freelist'[1] = p
      /\ \A k \in 2..Len(freelist') : k - 1 \in 1..Len(freelist) /\ freelist'[k] = freelist[k - 1]
  BY <1>0, <1>4, <1>5, PutFirst
<1>7. Leaves(t, Heap!Idle)
  BY IdleIs DEF Leaves, Heap!RtlFreeHeap
<1>8. \A u \in Callers : u # t /\ heapcall[u].old # Heap!None => heapcall[u].old \in live'
  BY <1>1, <1>2, <1>5 DEF HeapInv, CallsOK
<1>9. CallsOK' /\ heapcall' \in [Callers -> HeapRec] /\ heaplock' \in BOOLEAN
  BY <1>0, <1>7, <1>8, IdleIs, CallLeaves
<1>10. HeapTypes'
  BY <1>0, <1>5, <1>6, <1>9 DEF HeapInv, HeapTypes
<1>11. Placed(p) /\ (\A c \in live' : Apart(c, p)) /\ \A i \in 1..Len(freelist) : Apart(p, freelist[i])
  <2>1. Placed(b) /\ (\A c \in live : c # b => Apart(c, b)) /\ \A i \in 1..Len(freelist) : Apart(b, freelist[i])
    BY <1>2 DEF HeapInv, AllApart
  <2>2. QED
    BY <1>4, <1>5, <2>1 DEF Placed, Apart
<1>12. \A i, j \in 1..Len(freelist) : i # j => Apart(freelist[i], freelist[j])
  BY DEF HeapInv, AllApart
<1>13. AllApart'
  <2>0. \A i \in 1..Len(freelist') : i = 1 \/ i \in 2..Len(freelist')
    BY <1>0, <1>6
  <2>1. \A c \in live' : Placed(c)'
    BY <1>0, <1>5 DEF HeapInv, AllApart, Placed
  <2>2. \A i \in 1..Len(freelist') : Placed(freelist[i])'
    <3>1. \A i \in 1..Len(freelist) : Placed(freelist[i])
      BY DEF HeapInv, AllApart
    <3>2. \A i \in 1..Len(freelist') : Placed(freelist'[i])
      BY <1>6, <1>11, <2>0, <3>1
    <3>3. QED
      BY <1>0, <3>2 DEF Placed
  <2>3. \A c, d \in live' : c # d => Apart(c, d)
    BY <1>5 DEF HeapInv, AllApart
  <2>4. \A c \in live', i \in 1..Len(freelist') : Apart(c, freelist'[i])
    <3>1. \A c \in live', i \in 1..Len(freelist) : Apart(c, freelist[i])
      BY <1>5 DEF HeapInv, AllApart
    <3>2. QED
      BY <1>6, <1>11, <2>0, <3>1
  <2>5. \A i \in 2..Len(freelist') : Apart(p, freelist'[i]) /\ Apart(freelist'[i], p)
    BY <1>6, <1>11 DEF Apart
  <2>6. \A i, j \in 2..Len(freelist') : i # j => Apart(freelist'[i], freelist'[j])
    <3>1. ASSUME NEW i \in 2..Len(freelist'), NEW j \in 2..Len(freelist'), i # j
          PROVE  Apart(freelist'[i], freelist'[j])
      <4>1. i - 1 # j - 1
        BY <3>1
      <4>2. QED
        BY <1>6, <1>12, <4>1
    <3>2. QED
      BY <3>1
  <2>7. \A i, j \in 1..Len(freelist') : i # j => Apart(freelist'[i], freelist'[j])
    BY <1>6, <2>0, <2>5, <2>6
  <2>8. QED
    BY <2>1, <2>2, <2>3, <2>4, <2>7 DEF AllApart, Apart
<1>14. ASSUME NEW a, NEW n, HasBlock(a, n) PROVE HasBlock(a, n)'
  <2>0. 1 \in 1..Len(freelist')
    BY <1>0, <1>6
  <2>1. ASSUME NEW c \in live, c.addr = a /\ c.len = n PROVE HasBlock(a, n)'
    <3>1. CASE c = b
      BY <1>4, <1>6, <2>0, <2>1, <3>1 DEF HasBlock
    <3>2. CASE c # b
      BY <1>5, <2>1, <3>2 DEF HasBlock
    <3>3. QED
      BY <3>1, <3>2
  <2>2. ASSUME NEW i \in 1..Len(freelist), freelist[i].addr = a /\ freelist[i].len = n
        PROVE  HasBlock(a, n)'
    <3>1. i + 1 \in 2..Len(freelist') /\ i + 1 \in 1..Len(freelist') /\ (i + 1) - 1 = i
      BY <1>0, <1>6
    <3>2. freelist'[i + 1] = freelist[i]
      BY <1>6, <3>1
    <3>3. QED
      BY <2>2, <3>1, <3>2 DEF HasBlock
  <2>3. QED
    BY <1>14, <2>1, <2>2 DEF HasBlock
<1>15. QED
  BY <1>0, <1>2, <1>5, <1>9, <1>10, <1>13, <1>14 DEF HeapInv, HeapTypes, Seen, Kept

LEMMA HeapNext ==
    ASSUME HeapInv, Heap!RtlHeapAssumption, [Heap!Next]_(Heap!vars)
    PROVE  HeapInv' /\ Seen
<1>1. CASE Heap!Next
  <2>1. PICK t \in Callers : Heap!Call(t) \/ Heap!Step(t)
    BY <1>1 DEF Heap!Next
  <2>2. QED
    BY <2>1, HeapCall, HeapLock, HeapSearch, HeapTake, HeapBump, HeapGrow, HeapFull, HeapFree DEF Heap!Step
<1>2. CASE UNCHANGED Heap!vars
  <2>1. UNCHANGED <<freelist, cursor, segend, committed, heaplock, heapcall, live>>
    BY <1>2 DEF Heap!vars
  <2>2. HeapTypes'
    BY <2>1 DEF HeapInv, HeapTypes
  <2>3. AllApart'
    BY <2>1 DEF HeapInv, AllApart, Placed
  <2>4. CallsOK'
    BY <2>1 DEF HeapInv, CallsOK, Inside
  <2>5. QED
    BY <2>1, <2>2, <2>3, <2>4 DEF HeapInv, HeapTypes, Seen
<1>3. QED
  BY <1>1, <1>2

LEMMA HeapAlways == ASSUME Heap!RtlHeapAssumption PROVE HeapSafe => []HeapInv
<1>1. Heap!Init => HeapInv
  BY HeapInit
<1>2. HeapInv /\ [Heap!Next]_(Heap!vars) => HeapInv'
  BY HeapNext
<1>3. QED
  BY <1>1, <1>2, PTL DEF HeapSafe

\* A new block whose header is where the cursor or the committed memory was, and the
\* cursor after it.
Cuts(from) == \E c, n \in Nat : c = from /\ HasBlock(c + 1, n)' /\ cursor' = c + 1 + n

\* What a step does to the memory that was cut off.
LEMMA HeapKeeps ==
    ASSUME HeapInv, Heap!RtlHeapAssumption, [Heap!Next]_(Heap!vars)
    PROVE  /\ Kept
           /\ \/ UNCHANGED <<cursor, committed>>
              \/ UNCHANGED committed /\ Cuts(cursor)
              \/ committed' >= committed + SEGMENT /\ Cuts(committed)
<1>1. ASSUME UNCHANGED <<freelist, live>> PROVE Kept
  BY <1>1 DEF Kept, HasBlock
<1>2. ASSUME UNCHANGED freelist, NEW b, live' = live \cup {b}
      PROVE  Kept /\ HasBlock(b.addr, b.len)'
  <2>1. \A c \in live : c \in live'
    BY <1>2
  <2>2. Kept
    BY <1>2, <2>1 DEF Kept, HasBlock
  <2>3. b \in live'
    BY <1>2
  <2>4. QED
    BY <2>2, <2>3 DEF HasBlock
<1>3. CASE UNCHANGED Heap!vars
  BY <1>1, <1>3 DEF Heap!vars
<1>4. ASSUME NEW t \in Callers,
             Heap!Call(t) \/ Heap!heap_lock(t) \/ Heap!Search(t) \/ Heap!OutOfMemory(t)
      PROVE  Kept /\ UNCHANGED <<cursor, committed>>
  BY <1>1, <1>4 DEF Heap!Call, Heap!heap_lock, Heap!Search, Heap!OutOfMemory
<1>5. ASSUME NEW t \in Callers, Heap!TakeFree(t) \/ Heap!RtlFreeHeap(t)
      PROVE  Kept /\ UNCHANGED <<cursor, committed>>
  BY <1>5, HeapTake, HeapFree DEF Heap!TakeFree, Heap!RtlFreeHeap
<1>6. \A t \in Callers : heapcall[t].size \in Nat
  BY DEF HeapInv, HeapTypes, HeapRec
<1>7. cursor + 1 \in Nat /\ committed + 1 \in Nat /\ committed \in Nat /\ cursor \in Nat
  BY DEF HeapInv, HeapTypes
<1>8. ASSUME NEW t \in Callers, Heap!Bump(t)
      PROVE  Kept /\ UNCHANGED committed /\ Cuts(cursor)
  <2>1. PICK n \in Nat : n = heapcall[t].size
    BY <1>6
  <2>2. PICK b : b = Heap!Given([addr |-> cursor + 1, len |-> n], t)
    OBVIOUS
  <2>3. b.addr = cursor + 1 /\ b.len = n
    BY <1>7, <2>2, GivenIs
  <2>4. /\ UNCHANGED <<freelist, committed>> /\ live' = live \cup {b}
        /\ cursor' = cursor + 1 + n
    BY <1>8, <2>1, <2>2 DEF Heap!Bump, Heap!Cut
  <2>5. Cuts(cursor)
    <3>1. HasBlock(b.addr, b.len)'
      BY <1>2, <2>4
    <3>2. PICK c \in Nat : c = cursor
      BY <1>7
    <3>3. HasBlock(c + 1, n)'
      BY <2>3, <3>1, <3>2
    <3>4. QED
      BY <2>4, <3>2, <3>3 DEF Cuts
  <2>6. QED
    BY <1>2, <2>4, <2>5
<1>9. ASSUME NEW t \in Callers, Heap!heap_grow(t)
      PROVE  Kept /\ committed' >= committed + SEGMENT /\ Cuts(committed)
  <2>1. PICK n \in Nat : n = heapcall[t].size
    BY <1>6
  <2>2. PICK b : b = Heap!Given([addr |-> committed + 1, len |-> n], t)
    OBVIOUS
  <2>3. b.addr = committed + 1 /\ b.len = n
    BY <1>7, <2>2, GivenIs
  <2>4. /\ UNCHANGED freelist /\ committed' = committed + Heap!Grown(n + 1)
        /\ live' = live \cup {b} /\ cursor' = committed + 1 + n
    BY <1>9, <2>1, <2>2 DEF Heap!heap_grow, Heap!Cut
  <2>5. Heap!Grown(n + 1) \in Nat /\ Heap!Grown(n + 1) >= SEGMENT
    <3>1. SEGMENT \in Nat \ {0} /\ n + 1 \in Nat
      BY DEF Heap!RtlHeapAssumption
    <3>2. PICK q : q = ((n + 1) + SEGMENT - 1) \div SEGMENT
      OBVIOUS
    <3>3. q \in Nat /\ q >= 1
      BY <3>1, <3>2
    <3>4. q * SEGMENT >= SEGMENT
      BY <3>1, <3>3
    <3>5. QED
      BY <3>1, <3>2, <3>3, <3>4, GrownIsEnough DEF Heap!Grown
  <2>6. Cuts(committed)
    <3>1. HasBlock(b.addr, b.len)'
      BY <1>2, <2>4
    <3>2. PICK c \in Nat : c = committed
      BY <1>7
    <3>3. HasBlock(c + 1, n)'
      BY <2>3, <3>1, <3>2
    <3>4. QED
      BY <2>4, <3>2, <3>3 DEF Cuts
  <2>7. QED
    BY <1>2, <1>7, <2>4, <2>5, <2>6 DEF Heap!RtlHeapAssumption
<1>10. CASE Heap!Next
  <2>1. PICK t \in Callers : Heap!Call(t) \/ Heap!Step(t)
    BY <1>10 DEF Heap!Next
  <2>2. QED
    BY <2>1, <1>4, <1>5, <1>8, <1>9 DEF Heap!Step
<1>11. QED
  BY <1>3, <1>10 DEF Heap!vars

\* Every unit of the first segment below the cursor belongs to a block.
Covered ==
    committed <= 1 + SEGMENT =>
      \A u \in 1..(cursor - 1) : \E a, n \in Nat : HasBlock(a, n) /\ u \in (a - 1)..(a + n - 1)

LEMMA CoveredNext ==
    ASSUME HeapInv, Heap!RtlHeapAssumption, Covered, [Heap!Next]_(Heap!vars)
    PROVE  Covered'
<1>0. /\ SEGMENT \in Nat \ {0} /\ cursor \in Nat \ {0} /\ committed \in Nat /\ cursor <= committed
  BY DEF HeapInv, HeapTypes, Heap!RtlHeapAssumption
<1>1. Kept
  BY HeapKeeps
<1> SUFFICES ASSUME committed' <= 1 + SEGMENT, NEW u \in 1..(cursor' - 1)
             PROVE  \E a, n \in Nat : HasBlock(a, n)' /\ u \in (a - 1)..(a + n - 1)
  BY DEF Covered
<1>2. ASSUME committed <= 1 + SEGMENT, u \in 1..(cursor - 1)
      PROVE  \E a, n \in Nat : HasBlock(a, n)' /\ u \in (a - 1)..(a + n - 1)
  BY <1>1, <1>2 DEF Covered, Kept
<1>3. ASSUME NEW from \in Nat, Cuts(from), u >= from
      PROVE  \E a, n \in Nat : HasBlock(a, n)' /\ u \in (a - 1)..(a + n - 1)
  <2>1. PICK c \in Nat, n \in Nat : c = from /\ HasBlock(c + 1, n)' /\ cursor' = c + 1 + n
    BY <1>3 DEF Cuts
  <2>0. c + 1 \in Nat
    OBVIOUS
  <2>2. u \in ((c + 1) - 1)..((c + 1) + n - 1)
    BY <1>3, <2>1
  <2>3. QED
    BY <2>0, <2>1, <2>2
<1>4. CASE UNCHANGED <<cursor, committed>>
  BY <1>2, <1>4
<1>5. CASE UNCHANGED committed /\ Cuts(cursor)
  <2>1. u >= cursor \/ u \in 1..(cursor - 1)
    BY <1>0
  <2>2. QED
    BY <1>0, <1>2, <1>3, <1>5, <2>1
<1>6. CASE committed' >= committed + SEGMENT /\ Cuts(committed)
  <2>1. committed' \in Nat
    BY HeapNext DEF HeapInv, HeapTypes
  <2>2. committed <= 1 /\ u >= committed
    BY <1>0, <1>6, <2>1
  <2>3. QED
    BY <1>0, <1>3, <1>6, <2>2
<1>7. QED
  BY <1>4, <1>5, <1>6, HeapKeeps

\* The same of the members of Blocks, each of which is apart from the others.
LEMMA CoveredOnce ==
    ASSUME HeapInv, Covered
    PROVE  Heap!NothingLost
<1>1. /\ live \subseteq Heap!Owned /\ freelist \in Seq(Heap!Block) /\ Len(freelist) \in Nat
      /\ DOMAIN freelist = 1..Len(freelist)
  BY DEF HeapInv, HeapTypes
<1>2. \A b \in Heap!Blocks :
        /\ b \in Heap!Block
        /\ \/ \E c \in live : b = Heap!Plain(c)
           \/ \E i \in 1..Len(freelist) : b = freelist[i]
  <2>1. \A c \in Heap!Owned : Heap!Plain(c) \in Heap!Block
    BY DEF Heap!Plain, Heap!Owned, Heap!Block
  <2>2. \A b \in Heap!ToSet(freelist) : \E i \in 1..Len(freelist) : b = freelist[i]
    BY <1>1 DEF Heap!ToSet
  <2>3. QED
    BY <1>1, <2>1, <2>2 DEF Heap!Blocks
<1>3. \A a, n : HasBlock(a, n) => \E b \in Heap!Blocks : b.addr = a /\ b.len = n
  <2>1. \A c \in live : Heap!Plain(c) \in Heap!Blocks /\ Heap!Plain(c).addr = c.addr /\ Heap!Plain(c).len = c.len
    BY DEF Heap!Plain, Heap!Blocks
  <2>2. \A i \in 1..Len(freelist) : freelist[i] \in Heap!Blocks
    BY <1>1 DEF Heap!Blocks, Heap!ToSet
  <2>3. QED
    BY <2>1, <2>2 DEF HasBlock
<1>4. ASSUME NEW b \in Heap!Blocks, NEW c \in Heap!Blocks, b # c PROVE Apart(b, c)
  <2>1. \A d, e \in live : Heap!Plain(d) # Heap!Plain(e) => Apart(Heap!Plain(d), Heap!Plain(e))
    BY DEF HeapInv, AllApart, Apart, Heap!Plain
  <2>2. \A d \in live, i \in 1..Len(freelist) :
           Apart(Heap!Plain(d), freelist[i]) /\ Apart(freelist[i], Heap!Plain(d))
    BY DEF HeapInv, AllApart, Apart, Heap!Plain
  <2>3. \A i, j \in 1..Len(freelist) : freelist[i] # freelist[j] => Apart(freelist[i], freelist[j])
    BY DEF HeapInv, AllApart
  <2>4. QED
    BY <1>2, <1>4, <2>1, <2>2, <2>3
<1>5. \A b, c \in Heap!Block : Apart(b, c) => Heap!Extent(b) \cap Heap!Extent(c) = {}
  BY DEF Heap!Block, Apart, Heap!Extent
<1> SUFFICES ASSUME committed <= 1 + SEGMENT, NEW u \in 1..(cursor - 1)
             PROVE  \E b \in Heap!Blocks :
                      u \in Heap!Extent(b) /\ \A c \in Heap!Blocks : u \in Heap!Extent(c) => c = b
  BY DEF Heap!NothingLost
<1>6. PICK b \in Heap!Blocks : u \in Heap!Extent(b)
  <2>1. PICK a \in Nat, n \in Nat : HasBlock(a, n) /\ u \in (a - 1)..(a + n - 1)
    BY DEF Covered
  <2>2. QED
    BY <1>3, <2>1 DEF Heap!Extent
<1>7. QED
  BY <1>2, <1>4, <1>5, <1>6

LEMMA HeapKept ==
    ASSUME Heap!RtlHeapAssumption PROVE HeapSafe => [](Heap!TypeOK /\ Heap!NothingLost)
<1>1. Heap!Init => HeapInv /\ Covered
  <2>1. Heap!Init => cursor = 1
    BY DEF Heap!Init
  <2>2. cursor = 1 => 1..(cursor - 1) = {}
    OBVIOUS
  <2>3. QED
    BY <2>1, <2>2, HeapInit DEF Covered
<1>2. HeapInv /\ Covered /\ [Heap!Next]_(Heap!vars) => (HeapInv /\ Covered)'
  BY HeapNext, CoveredNext
<1>3. HeapInv => Heap!TypeOK
  BY DEF HeapInv, HeapTypes, HeapRec, Heap!TypeOK
<1>4. QED
  BY <1>1, <1>2, <1>3, CoveredOnce, PTL DEF HeapSafe

LEMMA AbstractCardinality == ASSUME NEW S PROVE Heap!Abstract!Cardinality(S) = Cardinality(S)
  BY DEF Heap!Abstract!Cardinality, Cardinality

LEMMA HeapStepAllocates ==
    ASSUME HeapInv, HeapInv', Seen
    PROVE  Heap!Abstract!Next
<1>1. committed \in Nat /\ committed' \in Nat /\ committed <= committed'
  BY DEF Seen, HeapInv, HeapTypes
<1>2. Heap!Abstract!Grow
  <2>0. \A c, d \in Nat : c <= d => 1 + (c - 1) <= 1 + (d - 1)
    OBVIOUS
  <2>1. 1 + (committed - 1) <= 1 + (committed' - 1)
    BY <1>1, <2>0
  <2>2. QED
    BY <2>1 DEF Heap!Abstract!Grow, Heap!Abstract!Within
<1>3. Cardinality({}) = 0 /\ \A b : Cardinality({b}) = 1
  BY FS_EmptySet, FS_Singleton
<1>4. CASE live' = live
  <2>1. live' \ live = {} /\ live \ live' = {}
    BY <1>4
  <2>2. QED
    BY <1>2, <1>3, <2>1, AbstractCardinality DEF Heap!Abstract!Next
<1>5. CASE \E b : Gives(b)
  <2>1. PICK b : Gives(b)
    BY <1>5
  <2>2. b \notin live
    <3>1. b.addr \in Nat /\ b.len \in Nat /\ b.len > 0 /\ \A c \in live : Apart(b, c)
      BY <2>1 DEF Gives, Heap!Owned
    <3>2. ~Apart(b, b)
      BY <3>1 DEF Apart
    <3>3. QED
      BY <3>1, <3>2
  <2>3. live' \ live = {b} /\ live \ live' = {} /\ live \cap live' = live
    BY <2>1, <2>2 DEF Gives
  <2>4. Heap!Abstract!Sound(b)
    <3>1. \A f \in live \cap live' : Heap!Abstract!Apart(b, f)
      <4>1. \A e, f \in Heap!Owned : Apart(e, f) => Heap!Abstract!Apart(e, f)
        BY DEF Heap!Owned, Apart, Heap!Abstract!Apart
      <4>2. live \subseteq Heap!Owned /\ b \in Heap!Owned /\ \A c \in live : Apart(b, c)
        BY <2>1 DEF Gives, HeapInv, HeapTypes
      <4>3. QED
        BY <2>3, <4>1, <4>2
    <3>2. 1 <= b.addr /\ b.addr + b.len <= 1 + (committed' - 1)
      BY <1>1, <2>1 DEF Gives, Heap!Owned
    <3>3. QED
      BY <3>1, <3>2 DEF Heap!Abstract!Sound, Heap!Abstract!Within
  <2>5. QED
    BY <1>2, <1>3, <2>3, <2>4, AbstractCardinality DEF Heap!Abstract!Next
<1>6. CASE \E b \in live : live' = live \ {b}
  <2>1. PICK b \in live : live' = live \ {b}
    BY <1>6
  <2>2. live' \ live = {} /\ live \ live' = {b}
    BY <2>1
  <2>3. Heap!Abstract!Cardinality(live' \ live) = 0 /\ Heap!Abstract!Cardinality(live \ live') = 1
    BY <1>3, <2>2, AbstractCardinality
  <2>4. QED
    BY <1>2, <2>2, <2>3 DEF Heap!Abstract!Next
<1>7. QED
  BY <1>4, <1>5, <1>6 DEF Seen

LEMMA HeapAllocates ==
    ASSUME Heap!RtlHeapAssumption PROVE HeapSafe => Heap!HeapImplementsAllocator
<1>1. Heap!Init => Heap!Abstract!Init
  BY DEF Heap!Init, Heap!Abstract!Init
<1>2. HeapInv /\ [Heap!Next]_(Heap!vars)
        => [Heap!Abstract!Next]_<<live, {[addr |-> 1, len |-> committed - 1]}>>
  BY HeapNext, HeapStepAllocates
<1>3. QED
  BY <1>1, <1>2, HeapAlways, PTL DEF HeapSafe, Heap!HeapImplementsAllocator, Heap!Abstract!Spec

-----------------------------------------------------------------------------
(* The services side by side *)

\* What TLS leaves of the arrays of FLS, and the vectors of slots.
SlotTypes ==
    /\ taken = {} /\ fls = [i \in Ls!Index |-> Ls!NULL]
    /\ \A t \in Callers : DOMAIN slots[t] \in {{}, Ls!Index}

LEMMA SlotTypesNext ==
    ASSUME TlsInv, SlotTypes, [Ls!Tls]_(Ls!vars)
    PROVE  SlotTypes'
<1>1. DOMAIN slots = Callers
  BY DEF TlsInv, TlsTypes
<1>2. CASE UNCHANGED Ls!vars
  BY <1>2 DEF Ls!vars, SlotTypes
<1>3. ASSUME NEW t \in Callers, Ls!TlsAlloc(t) \/ Ls!AllocSwap(t) PROVE SlotTypes'
  BY <1>3 DEF Ls!TlsAlloc, Ls!AllocSwap, Ls!tlsVars, Ls!flsVars, SlotTypes
<1>4. ASSUME NEW t \in Callers, NEW i \in Ls!Index, Ls!TlsFree(t, i) PROVE SlotTypes'
  <2>1. PICK f : f = [j \in DOMAIN slots[t] |-> IF j = i THEN Ls!NULL ELSE slots[t][j]]
    OBVIOUS
  <2>2. slots' = [slots EXCEPT ![t] = f] /\ taken' = taken /\ fls' = fls
    BY <1>1, <1>4, <2>1 DEF Ls!TlsFree, Ls!flsVars
  <2>3. DOMAIN f \in {{}, Ls!Index}
    BY <2>1 DEF SlotTypes
  <2>4. QED
    BY <1>1, <2>2, <2>3 DEF SlotTypes
<1>5. ASSUME NEW t \in Callers, NEW i \in Ls!Index, NEW v, Ls!TlsSetValue(t, i, v) PROVE SlotTypes'
  <2>1. PICK f : f = [j \in Ls!Index |-> IF j = i THEN v ELSE IF j \in DOMAIN slots[t] THEN slots[t][j]
                                                             ELSE Ls!NULL]
    OBVIOUS
  <2>2. slots' = [slots EXCEPT ![t] = f] /\ taken' = taken /\ fls' = fls
    BY <1>1, <1>5, <2>1 DEF Ls!TlsSetValue, Ls!flsVars
  <2>3. DOMAIN f \in {{}, Ls!Index}
    BY <2>1
  <2>4. QED
    BY <1>1, <2>2, <2>3 DEF SlotTypes
<1>6. QED
  BY <1>2, <1>3, <1>4, <1>5 DEF Ls!Tls

LEMMA TlsTyped == ASSUME Ls!LocalStorageAssumption PROVE Ls!TlsSpec => []Ls!TypeOK
<1>1. Ls!Init => TlsInv /\ SlotTypes
  <2>1. Ls!Init => SlotTypes
    BY DEF Ls!Init, SlotTypes
  <2>2. QED
    BY <2>1, TlsInit
<1>2. TlsInv /\ SlotTypes /\ [Ls!Tls]_(Ls!vars) => (TlsInv /\ SlotTypes)'
  BY TlsNext, SlotTypesNext
<1>3. TlsInv /\ SlotTypes => Ls!TypeOK
  <2> SUFFICES ASSUME TlsInv, SlotTypes PROVE Ls!TypeOK
    OBVIOUS
  <2>1. \A t \in Callers : lspc[t].op # "idle" => lspc[t].i \in Ls!Index
    BY DEF TlsInv, TlsTypes
  <2>2. fls \in [Ls!Index -> Values \cup {Ls!NULL}]
    BY DEF SlotTypes
  <2>3. QED
    BY <2>1, <2>2 DEF TlsInv, TlsTypes, SlotTypes, Ls!TypeOK
<1>4. QED
  BY <1>1, <1>2, <1>3, PTL DEF Ls!TlsSpec

LEMMA PoolTyped == ASSUME Pool!ThreadPoolAssumption PROVE PoolSafe => []Pool!TypeOK
<1> DEFINE Tries == Len(sem) <= MaxTries
<1>1. Pool!Init => PoolInv /\ Tries
  BY PoolInit DEF Pool!Init, Pool!ThreadPoolAssumption
<1>2. ASSUME PoolInv, Tries, [Pool!Next]_(Pool!vars) PROVE Tries'
  <2>1. sem \in Seq(Nat)
    BY <1>2 DEF PoolInv, PoolTypes
  <2>2. ASSUME NEW c, Pool!StartWorkers(c) PROVE Tries'
    <3>1. sem' = Append(sem, 0) /\ Len(sem) < MaxTries
      BY <2>2 DEF Pool!StartWorkers
    <3>2. QED
      BY <2>1, <3>1 DEF Pool!ThreadPoolAssumption
  <2>3. ASSUME NEW c, Pool!Release(c) PROVE Tries'
    BY <1>2, <2>1, <2>3 DEF Pool!Release
  <2>4. ASSUME NEW w, Pool!Wake(w) PROVE Tries'
    BY <1>2, <2>1, <2>4 DEF Pool!Wake
  <2>5. CASE UNCHANGED sem
    BY <1>2, <2>5
  <2>6. QED
    BY <1>2, <2>2, <2>3, <2>4, <2>5
       DEF Pool!Next, Pool!ClientStep, Pool!WorkerStep, Pool!vars, Pool!CreateThreadpoolWork,
           Pool!SubmitThreadpoolWork, Pool!Fill, Pool!EnsureReady, Pool!EnsureClaim,
           Pool!NoSemaphore, Pool!EnsureAwait, Pool!Awaited, Pool!Swap, Pool!Link, Pool!WaitOn,
           Pool!Take, Pool!Done
<1>3. PoolInv /\ Tries => Pool!TypeOK
  BY DEF PoolInv, PoolTypes, Pool!TypeOK
<1>4. PoolInv /\ Tries /\ [Pool!Next]_(Pool!vars) => (PoolInv /\ Tries)'
  BY <1>2, PoolNext
<1>5. QED
  BY <1>1, <1>3, <1>4, PTL DEF PoolSafe

\* The snapshot of the monitor is of items; what has been decided on was armed, and is not
\* armed again without being late; what was called since it was set is not armed any more.
MonitorTypes ==
    /\ control \in BOOLEAN /\ signalled \subseteq Objects
    /\ monitor = [pc |-> monitor.pc, snap |-> monitor.snap, hit |-> monitor.hit]
    /\ monitor.pc \in {"loop", "enter", "wait", "check", "call", "run"}
    /\ DOMAIN monitor.snap \subseteq WaitItems
    /\ monitor.pc \in {"check", "call", "run"} => monitor.hit \in WaitItems
    /\ calls \in [WaitItems -> {<< >>} \cup {<<o>> : o \in Objects}]

CallsKept ==
    /\ \A i \in waiting : object[i] # "none" /\ calls[i] = << >>
    /\ \A i \in late : PoolWait!Decided(i)
    /\ monitor.pc = "call" /\ monitor.hit \notin late =>
          LET i == monitor.hit
          IN i \notin waiting /\ object[i] = monitor.snap[i] /\ object[i] # "none" /\ calls[i] = << >>
    /\ PoolWait!CalledOnceWhenArmed

MonitorOK == MonitorTypes /\ CallsKept

LEMMA LoopIs ==
    LET l == PoolWait!Loop
    IN l = [pc |-> l.pc, snap |-> l.snap, hit |-> l.hit] /\ l.pc = "loop" /\ DOMAIN l.snap = {}
<1>1. DOMAIN << >> = {}
  OBVIOUS
<1>2. QED
  BY <1>1 DEF PoolWait!Loop

\* A step of the monitor that changes neither items nor calls, and does not leave "call".
LEMMA MonitorMoves ==
    ASSUME MonitorOK, monitor.pc # "call", monitor'.pc # "call", UNCHANGED <<object, calls, late>>,
           waiting' \subseteq waiting, MonitorTypes'
    PROVE  MonitorOK'
<1>1. late = {}
  BY DEF MonitorOK, CallsKept, PoolWait!Decided
<1>2. QED
  BY <1>1 DEF MonitorOK, CallsKept, PoolWait!CalledOnceWhenArmed

LEMMA SetStep ==
    ASSUME PoolWaitInv, MonitorOK, NEW c \in Clients, NEW i \in WaitItems,
           NEW o \in Objects \cup {"none"}, PoolWait!SetThreadpoolWait(c, i, o)
    PROVE  MonitorOK'
<1>1. /\ object' = [object EXCEPT ![i] = o] /\ calls' = [calls EXCEPT ![i] = << >>]
      /\ waiting' = IF o = "none" THEN waiting \ {i} ELSE waiting \cup {i}
      /\ late' = IF PoolWait!Decided(i) THEN {i} ELSE late
      /\ UNCHANGED <<monitor, control, signalled>>
  BY DEF PoolWait!SetThreadpoolWait
<1>2. MonitorTypes /\ CallsKept /\ object \in [WaitItems -> Objects \cup {"none"}]
  BY DEF MonitorOK, PoolWaitInv
<1>3. MonitorTypes'
  BY <1>1, <1>2 DEF MonitorTypes
<1>4. object'[i] = o /\ calls'[i] = << >>
      /\ \A j \in WaitItems : j # i => object'[j] = object[j] /\ calls'[j] = calls[j]
  BY <1>1, <1>2 DEF MonitorTypes
<1>5. \A j \in waiting' : object'[j] # "none" /\ calls'[j] = << >>
  BY <1>1, <1>2, <1>4 DEF CallsKept, PoolWaitInv
<1>6. \A j \in late' : PoolWait!Decided(j)
  BY <1>1, <1>2 DEF CallsKept
<1>7. \A j \in late' : PoolWait!Decided(j)'
  BY <1>1, <1>6 DEF PoolWait!Decided
<1>8. ASSUME monitor.pc = "call", monitor.hit \notin late'
      PROVE  LET j == monitor.hit
             IN j \notin waiting' /\ object'[j] = monitor.snap[j] /\ object'[j] # "none" /\ calls'[j] = << >>
  <2>1. monitor.hit # i /\ monitor.hit \notin late
    BY <1>1, <1>2, <1>8 DEF PoolWait!Decided, CallsKept
  <2>2. monitor.hit \in WaitItems
    BY <1>2, <1>8 DEF MonitorTypes
  <2>3. QED
    BY <1>1, <1>2, <1>4, <1>8, <2>1, <2>2 DEF CallsKept
<1>9. PoolWait!CalledOnceWhenArmed'
  BY <1>2, <1>4, <1>7 DEF CallsKept, PoolWait!CalledOnceWhenArmed
<1>10. QED
  BY <1>1, <1>3, <1>5, <1>7, <1>8, <1>9 DEF MonitorOK, CallsKept

LEMMA CheckStep ==
    ASSUME PoolWaitInv, MonitorOK, PoolWait!Check
    PROVE  MonitorOK'
<1>1. PICK i : i = monitor.hit
  OBVIOUS
<1>2. MonitorTypes /\ CallsKept /\ monitor.pc = "check" /\ i \in WaitItems
      /\ UNCHANGED <<object, calls, late, control, signalled>>
  BY <1>1 DEF MonitorOK, MonitorTypes, PoolWait!Check, PoolWait!ghosts
<1>3. late = {}
  BY <1>2 DEF CallsKept, PoolWait!Decided
<1>4. CASE i \in waiting /\ object[i] = monitor.snap[i]
  <2>1. waiting' = waiting \ {i} /\ monitor' = [monitor EXCEPT !.pc = "call"]
    BY <1>1, <1>4 DEF PoolWait!Check
  <2>2. monitor' = [pc |-> "call", snap |-> monitor.snap, hit |-> i]
    BY <1>1, <1>2, <2>1 DEF MonitorTypes
  <2>3. MonitorTypes'
    BY <1>2, <2>2 DEF MonitorTypes
  <2>4. object[i] # "none" /\ calls[i] = << >>
    BY <1>2, <1>4 DEF CallsKept
  <2>5. QED
    BY <1>2, <1>3, <1>4, <2>1, <2>2, <2>3, <2>4 DEF MonitorOK, CallsKept, PoolWait!CalledOnceWhenArmed
<1>5. CASE ~(i \in waiting /\ object[i] = monitor.snap[i])
  <2>1. waiting' = waiting /\ monitor' = PoolWait!Loop
    BY <1>1, <1>5 DEF PoolWait!Check
  <2>2. MonitorTypes'
    BY <1>2, <2>1, LoopIs DEF MonitorTypes
  <2>3. QED
    BY <1>2, <2>1, <2>2, LoopIs, MonitorMoves
<1>6. QED
  BY <1>4, <1>5

LEMMA CallbackStep ==
    ASSUME PoolWaitInv, MonitorOK, PoolWait!Callback
    PROVE  MonitorOK'
<1>1. PICK i : i = monitor.hit
  OBVIOUS
<1>2. /\ MonitorTypes /\ CallsKept /\ monitor.pc = "call" /\ i \in WaitItems
      /\ UNCHANGED <<object, waiting, control, signalled>> /\ late' = {}
      /\ monitor' = [monitor EXCEPT !.pc = "run"]
      /\ object \in [WaitItems -> Objects \cup {"none"}]
  BY <1>1 DEF MonitorOK, MonitorTypes, PoolWait!Callback, PoolWaitInv
<1>3. monitor' = [pc |-> "run", snap |-> monitor.snap, hit |-> i]
  BY <1>1, <1>2 DEF MonitorTypes
<1>4. CASE i \in late
  <2>1. calls' = calls
    BY <1>1, <1>4 DEF PoolWait!Callback
  <2>2. MonitorTypes'
    BY <1>2, <1>3, <2>1 DEF MonitorTypes
  <2>3. QED
    BY <1>2, <1>3, <2>1, <2>2 DEF MonitorOK, CallsKept, PoolWait!CalledOnceWhenArmed
<1>5. CASE i \notin late
  <2>1. i \notin waiting /\ object[i] = monitor.snap[i] /\ object[i] # "none" /\ calls[i] = << >>
    BY <1>1, <1>2, <1>5 DEF CallsKept
  <2>2. calls' = [calls EXCEPT ![i] = Append(<< >>, object[i])]
    BY <1>1, <1>5, <2>1 DEF PoolWait!Callback
  <2>3. Append(<< >>, object[i]) = <<object[i]>>
    OBVIOUS
  <2>4. calls'[i] = <<object[i]>> /\ \A j \in WaitItems : j # i => calls'[j] = calls[j]
    BY <1>2, <2>2, <2>3 DEF MonitorTypes
  <2>5. MonitorTypes'
    BY <1>2, <1>3, <2>1, <2>2, <2>3 DEF MonitorTypes
  <2>6. \A j \in waiting : object[j] # "none" /\ calls'[j] = << >>
    BY <1>2, <2>1, <2>4 DEF CallsKept, PoolWaitInv
  <2>7. PoolWait!CalledOnceWhenArmed'
    BY <1>2, <2>1, <2>4 DEF CallsKept, PoolWait!CalledOnceWhenArmed
  <2>8. QED
    BY <1>2, <1>3, <2>5, <2>6, <2>7 DEF MonitorOK, CallsKept
<1>6. QED
  BY <1>4, <1>5

LEMMA MonitorNext ==
    ASSUME PoolWaitInv, MonitorOK, PoolWait!ThreadpoolWaitAssumption, [PoolWait!Next]_(PoolWait!vars)
    PROVE  MonitorOK'
<1>0. MonitorTypes
  BY DEF MonitorOK
<1>1. ASSUME monitor' = PoolWait!Loop, monitor.pc # "call", control' \in BOOLEAN,
             UNCHANGED <<object, waiting, signalled, calls, late>>
      PROVE  MonitorOK'
  <2>1. MonitorTypes'
    BY <1>0, <1>1, LoopIs DEF MonitorTypes
  <2>2. QED
    BY <1>1, <2>1, LoopIs, MonitorMoves
<1>2. ASSUME UNCHANGED <<monitor, object, waiting, calls, late>>, control' \in BOOLEAN, signalled' \subseteq Objects
      PROVE  MonitorOK'
  BY <1>0, <1>2 DEF MonitorOK, MonitorTypes, CallsKept, PoolWait!Decided, PoolWait!CalledOnceWhenArmed
<1>3. CASE UNCHANGED PoolWait!vars
  BY <1>0, <1>2, <1>3 DEF PoolWait!vars, MonitorTypes
<1>4. ASSUME NEW c \in Clients, PoolWait!SetControl(c) PROVE MonitorOK'
  BY <1>0, <1>2, <1>4 DEF PoolWait!SetControl, PoolWait!ghosts, MonitorTypes
<1>5. ASSUME NEW o \in Objects, PoolWait!SetEvent(o) \/ PoolWait!CloseHandle(o) PROVE MonitorOK'
  BY <1>0, <1>2, <1>5 DEF PoolWait!SetEvent, PoolWait!CloseHandle, PoolWait!ghosts, MonitorTypes
<1>6. CASE PoolWait!Snapshot
  <2>1. monitor.pc = "loop" /\ UNCHANGED <<object, waiting, control, signalled, calls, late>>
        /\ monitor' = [pc |-> "enter", snap |-> [i \in waiting |-> object[i]], hit |-> 0]
    BY <1>6 DEF PoolWait!Snapshot, PoolWait!ghosts
  <2>2. DOMAIN monitor'.snap = waiting
    BY <2>1
  <2>3. MonitorTypes'
    BY <1>0, <2>1, <2>2 DEF MonitorTypes, PoolWaitInv
  <2>4. QED
    BY <2>1, <2>3, MonitorMoves
<1>7. CASE PoolWait!WaitFails \/ PoolWait!WokenByControl \/ PoolWait!Called
  BY <1>0, <1>1, <1>7
     DEF PoolWait!WaitFails, PoolWait!WokenByControl, PoolWait!Called, PoolWait!ghosts, MonitorTypes
<1>8. CASE PoolWait!WaitBegins
  <2>1. monitor.pc = "enter" /\ UNCHANGED <<object, waiting, control, signalled, calls, late>>
        /\ monitor' = [monitor EXCEPT !.pc = "wait"]
    BY <1>8 DEF PoolWait!WaitBegins, PoolWait!ghosts
  <2>2. monitor' = [pc |-> "wait", snap |-> monitor.snap, hit |-> monitor.hit]
    BY <1>0, <2>1 DEF MonitorTypes
  <2>3. MonitorTypes'
    BY <1>0, <2>1, <2>2 DEF MonitorTypes
  <2>4. QED
    BY <2>1, <2>2, <2>3, MonitorMoves
<1>9. CASE PoolWait!WokenByObject
  <2>1. PICK hits : hits = {i \in DOMAIN monitor.snap : monitor.snap[i] \in signalled}
    OBVIOUS
  <2>2. hits # {} /\ hits \subseteq WaitItems /\ hits \in SUBSET Nat
    BY <1>0, <1>9, <2>1 DEF PoolWait!WokenByObject, PoolWait!ThreadpoolWaitAssumption, MonitorTypes
  <2>3. PoolWait!Min(hits) \in hits
    <3>1. \E x \in hits : \A y \in hits : x <= y
      BY <2>2, LeastOf
    <3>2. QED
      BY <3>1 DEF PoolWait!Min
  <2>4. /\ signalled' \subseteq signalled /\ monitor.pc = "wait"
        /\ UNCHANGED <<object, waiting, control, calls, late>>
        /\ monitor' = [monitor EXCEPT !.pc = "check", !.hit = PoolWait!Min(hits)]
    BY <1>9, <2>1 DEF PoolWait!WokenByObject, PoolWait!ghosts
  <2>5. monitor' = [pc |-> "check", snap |-> monitor.snap, hit |-> PoolWait!Min(hits)]
    BY <1>0, <2>4 DEF MonitorTypes
  <2>6. MonitorTypes'
    BY <1>0, <2>2, <2>3, <2>4, <2>5 DEF MonitorTypes
  <2>7. QED
    BY <2>4, <2>5, <2>6, MonitorMoves
<1>10. QED
  BY <1>3, <1>4, <1>5, <1>6, <1>7, <1>8, <1>9, SetStep, CheckStep, CallbackStep
     DEF PoolWait!Next, PoolWait!Monitor, PoolWait!ThreadpoolWaitAssumption

LEMMA MonitorAlways ==
    ASSUME PoolWait!ThreadpoolWaitAssumption PROVE PoolWaitSafe => [](PoolWaitInv /\ MonitorOK)
<1>1. PoolWait!Init => PoolWaitInv /\ MonitorOK
  <2>1. PoolWait!Init => PoolWaitInv
    BY DEF PoolWait!Init, PoolWaitInv, PoolWait!SnapshotOrWake, PoolWait!Loop
  <2>2. PoolWait!Init => MonitorTypes
    BY LoopIs DEF PoolWait!Init, MonitorTypes
  <2>3. PoolWait!Init => CallsKept
    BY LoopIs DEF PoolWait!Init, CallsKept, PoolWait!CalledOnceWhenArmed
  <2>4. QED
    BY <2>1, <2>2, <2>3 DEF MonitorOK
<1>2. PoolWaitInv /\ MonitorOK /\ [PoolWait!Next]_(PoolWait!vars) => (PoolWaitInv /\ MonitorOK)'
  BY PoolWaitNext, MonitorNext
<1>3. QED
  BY <1>1, <1>2, PTL DEF PoolWaitSafe

LEMMA PoolWaitTyped ==
    ASSUME PoolWait!ThreadpoolWaitAssumption PROVE PoolWaitSafe => []PoolWait!TypeOK
<1>1. PoolWaitInv /\ MonitorOK => PoolWait!TypeOK
  BY DEF PoolWaitInv, MonitorOK, MonitorTypes, PoolWait!TypeOK
<1>2. QED
  BY <1>1, MonitorAlways, PTL

(* For any items, objects and clients: between two calls of SetThreadpoolWait for an item
   it is called back at most once, for the object it was armed for, and not at all if it was
   disarmed, but for one callback the monitor had given back the lock to make.  What is
   decided on is disarmed in the same section of the lock, so a second signal, a stale
   snapshot or an object armed meanwhile brings no other. *)
THEOREM ItemsAreOneShot ==
    ASSUME PoolWait!ThreadpoolWaitAssumption PROVE PoolWaitSafe => []PoolWait!CalledOnceWhenArmed
<1>1. PoolWaitInv /\ MonitorOK => PoolWait!CalledOnceWhenArmed
  BY DEF MonitorOK, CallsKept
<1>2. QED
  BY <1>1, MonitorAlways, PTL

\* A pool in which some clients create work items is one in which all do.
LEMMA PoolSteps == ASSUME Few!Next \/ Creates, Few!ThreadPoolAssumption PROVE Pool!Next
<1>1. CASE Creates
  BY <1>1 DEF Creates, Pool!Next, Pool!ClientStep
<1>2. CASE Few!Next
  <2>1. ASSUME NEW c \in Clients, Few!CreateThreadpoolWork(c) PROVE Pool!CreateThreadpoolWork(c)
    BY <2>1 DEF Few!CreateThreadpoolWork, Pool!CreateThreadpoolWork, Few!Goto, Pool!Goto, Few!Idle,
         Pool!Idle, Few!Items, Pool!Items, Few!Min, Pool!Min
  <2>2. ASSUME NEW c \in Clients, Few!ClientStep(c) PROVE Pool!ClientStep(c)
    BY <2>2 DEF Few!ClientStep, Pool!ClientStep, Few!Goto, Pool!Goto, Few!Off, Pool!Off,
         Few!Cardinality, Pool!Cardinality,
         Few!Fill, Few!EnsureReady, Few!EnsureClaim, Few!NoSemaphore, Few!StartWorkers,
         Few!EnsureAwait, Few!Awaited, Few!Swap, Few!Link, Few!Release,
         Pool!Fill, Pool!EnsureReady, Pool!EnsureClaim, Pool!NoSemaphore, Pool!StartWorkers,
         Pool!EnsureAwait, Pool!Awaited, Pool!Swap, Pool!Link, Pool!Release
  <2>3. QED
    BY <1>2, <2>1, <2>2 DEF Few!Next, Pool!Next, Few!Items, Pool!Items,
         Few!SubmitThreadpoolWork, Pool!SubmitThreadpoolWork, Few!Goto, Pool!Goto, Few!Idle,
         Pool!Idle, Few!WorkerStep, Pool!WorkerStep, Few!WaitOn, Pool!WaitOn, Few!Wake, Pool!Wake,
         Few!Take, Pool!Take, Few!Done, Pool!Done, Few!Off, Pool!Off
<1>3. QED
  BY <1>1, <1>2

\* A step of the whole is a step of one service, or leaves it alone.
LEMMA ServiceSteps ==
    ASSUME [Next]_vars
    PROVE  /\ [Pool!Next]_(Pool!vars) /\ [PoolWait!Next]_(PoolWait!vars) /\ [Ls!Tls]_(Ls!vars)
           /\ [Fls!Fls]_(Fls!vars) /\ [Timer!Next]_(Timer!vars)
<1> USE DEF pool, poolwait, tls, fiber, timers
<1>1. CASE UNCHANGED services
  BY <1>1 DEF services, Pool!vars, PoolWait!vars, Ls!vars, Fls!vars, Timer!vars
<1>2. CASE Services
  <2>1. Pool!Next \/ UNCHANGED Pool!vars
    BY <1>2, PoolSteps, SyncAssumption DEF Services, Pool!vars
  <2>2. PoolWait!Next \/ UNCHANGED PoolWait!vars
    BY <1>2 DEF Services, PoolWait!vars
  <2>3. Ls!Tls \/ UNCHANGED Ls!vars
    BY <1>2 DEF Services, Ls!vars
  <2>4. Fls!Fls \/ UNCHANGED Fls!vars
    BY <1>2 DEF Services, Fls!vars
  <2>5. Timer!Next \/ UNCHANGED Timer!vars
    BY <1>2 DEF Services, Timer!vars
  <2>6. QED
    BY <2>1, <2>2, <2>3, <2>4, <2>5
<1>3. QED
  BY <1>1, <1>2 DEF Next, vars

LEMMA ClockSteps ==
    ASSUME [Next]_vars PROVE [Time!Next]_(Time!vars) /\ [Timeout!Next]_(Timeout!vars)
<1>1. CASE UNCHANGED clock
  BY <1>1 DEF clock, times, timeouts, Time!vars, Timeout!vars
<1>2. CASE Clock
  BY <1>2 DEF Clock, times, timeouts, Time!vars, Timeout!vars
<1>3. QED
  BY <1>1, <1>2 DEF Next, vars

LEMMA ServicesRun ==
    Spec => /\ PoolSafe /\ PoolWaitSafe /\ Ls!TlsSpec /\ Fls!FlsSpec /\ TimerSafe
            /\ TimeSafe /\ Timeout!Spec /\ HeapSafe
<1>1. Init => /\ Pool!Init /\ PoolWait!Init /\ Ls!Init /\ Fls!Init /\ Timer!Init
              /\ Time!Init /\ Timeout!Init /\ Heap!Init
  BY DEF Init
<1>2. QED
  BY <1>1, LockSteps, ServiceSteps, ClockSteps, PTL
     DEF Spec, PoolSafe, PoolWaitSafe, Ls!TlsSpec, Fls!FlsSpec, TimerSafe, TimeSafe, Timeout!Spec,
         HeapSafe

LEMMA PoolAssumed == Pool!ThreadPoolAssumption
  BY SyncAssumption DEF Pool!ThreadPoolAssumption, Few!ThreadPoolAssumption

\* For any number of threads: a thread is never given a work item it has, whoever creates
\* others without a lock (CreateThreadpoolWork); nobody is given a TLS index another has,
\* or reads what another stored under it (TlsAlloc, TlsFree, TlsGetValue); and an FLS
\* index holds nothing from before it was allocated (FlsAlloc, FlsFree, FlsSetValue).
THEOREM SlotsArePrivate == Spec => []SlotsPrivate
<1> USE SyncAssumption, PoolAssumed
<1>1. QED
  BY WorkItemsArePrivate, TlsTyped, TlsIndexesArePrivate, TlsValuesAreLocal,
     FlsIndexesAreFresh, ServicesRun, PTL DEF SlotsPrivate

\* For any number of threads, clients, workers and items: memory that was cut off the first
\* segment of ntdll's heap belongs to one block, in use or free (RtlFreeHeap,
\* RtlAllocateHeap); a work item that was submitted is in one place, once, and what is queued has a wake-up (SubmitThreadpoolWork); and the monitor of
\* the waits knows what is armed or is about to be woken (SetThreadpoolWait).
THEOREM NothingIsLost == Spec => []NothingLost
<1> USE SyncAssumption, PoolAssumed
<1>1. QED
  BY HeapKept, PoolTyped, WorkIsInOnePlace, NoWorkIsForgotten, PoolWaitTyped, MonitorKnowsOrWakes,
     ServicesRun, PTL DEF NothingLost

\* For any items, objects and clients: arming an item brings at most one callback, for its
\* object, and disarming it none but one already on its way
\* (threadpool_wait_monitor_start, SetThreadpoolWait).
THEOREM ArmedAreCalledOnce == Spec => []ArmedCalledOnce
<1> USE SyncAssumption
<1>1. QED
  BY ItemsAreOneShot, ServicesRun, PTL DEF ArmedCalledOnce

\* Whatever the threads of the heap of ntdll do between two accesses, the extents that
\* RtlAllocateHeap has given out are apart, lie in committed memory, and change only when
\* they are given out or back: the heap implements Allocator (heap_lock, RtlFreeHeap).
THEOREM HeapIsAllocator == Spec => HeapImplementsAllocator
<1> USE SyncAssumption
<1>1. QED
  BY HeapAllocates, ServicesRun, PTL DEF HeapImplementsAllocator

\* For any timers, threads, periods and lengths of a tick: nothing runs after a delete that
\* waited and at most one callback begins after Stop (DeleteTimerQueueTimer, timerq_thread),
\* a time that was read was shown during the call (read_ksystem_time), and a wait times
\* out not more than a tick early or late (timeout_to_ticks).
THEOREM TimesAreRight == Spec => []TimesRight
<1> USE SyncAssumption
<1>1. QED
  BY DeletedTimersAreQuiet, OneCallbackAfterStop, TimeTyped, TimesAreNotTorn,
     WaitsAreNotCutShort, WaitsAreNotDrawnOut, ServicesRun, PTL DEF TimesRight
=============================================================================
