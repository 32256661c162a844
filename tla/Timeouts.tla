------------------------------ MODULE Timeouts ------------------------------
(***************************************************************************)
(* From an interval to a number of clock ticks and back to time: Sleep and *)
(* the waits of kernel32 turn milliseconds into 100 ns units, the kernel   *)
(* turns those into ticks, and the call ends at a tick.  Time goes on in   *)
(* units; the tick count is all that the kernel sees of it.                *)
(***************************************************************************)
EXTENDS Integers

CONSTANTS PER_TICK,     \* 100 ns units to a tick (100000)
          PER_MS,       \* 100 ns units to a millisecond (10000)
          INFINITE,     \* the largest DWORD
          MaxTime,      \* bound on time, in units
          MaxInterval   \* bound on the intervals given to the kernel, in units

TimeoutsAssumption ==
  /\ PER_TICK \in Nat \ {0} /\ PER_MS \in Nat \ {0} /\ INFINITE \in Nat \ {0}
  /\ MaxTime \in Nat /\ MaxInterval \in Nat

VARIABLES now,     \* time since boot, in units
          call     \* the call in progress, or the last one: what was asked, when, and the
                   \* tick at which it ends

vars == <<now, call>>

KeGetTickCount == now \div PER_TICK

Never == -1   \* ~(UINT64)0

NoCall == [at |-> "idle", how |-> "none", asked |-> 0, began |-> 0, target |-> 0, ended |-> 0]

Init == now = 0 /\ call = NoCall

Time == now < MaxTime /\ now' = now + 1 /\ UNCHANGED call

\* Negative values are intervals, positive ones deadlines on the clock since boot.
timeout_to_ticks(value) ==
  IF value = 0 THEN 0
  ELSE IF value < 0 THEN (-value + PER_TICK - 1) \div PER_TICK
  ELSE IF value <= KeGetTickCount * PER_TICK THEN 0
  ELSE (value - KeGetTickCount * PER_TICK + PER_TICK - 1) \div PER_TICK

Start(how, asked, target) ==
  /\ call.at = "idle"
  /\ call' = [at |-> "waiting", how |-> how, asked |-> asked, began |-> now,
              target |-> target, ended |-> 0]
  /\ UNCHANGED now

\* KeWaitForMultipleObjects on objects that are never signalled: the deadline.
NtWait(value) ==
  Start(IF value <= 0 THEN "wait" ELSE "deadline",
        IF value < 0 THEN -value ELSE value,
        KeGetTickCount + timeout_to_ticks(value))

NtWaitForever == Start("forever", 0, Never)

\* WaitForSingleObject and WaitForMultipleObjects of kernel32.
Timeout(ms) == IF ms = INFINITE THEN NtWaitForever ELSE NtWait(-(ms * PER_MS))

\* Rounded down, and at least one tick; a deadline counts as no interval.
NtDelayExecution(interval) ==
  LET units == IF interval < 0 THEN -interval ELSE 0
      wait == IF units \div PER_TICK = 0 THEN 1 ELSE units \div PER_TICK
  IN Start("delay", units, KeGetTickCount + wait)

Sleep(ms) == NtDelayExecution(-(ms * PER_MS))

\* The first look at the clock that finds the target reached, at the tick itself or
\* later: KeClockTick for a wait that sleeps, the loop of NtDelayExecution.
Ends ==
  /\ call.at = "waiting" /\ call.target # Never /\ KeGetTickCount >= call.target
  /\ call' = [call EXCEPT !.at = "ended", !.ended = now]
  /\ UNCHANGED now

Again == call.at = "ended" /\ call' = NoCall /\ UNCHANGED now

Next ==
  \/ Time \/ Ends \/ Again \/ NtWaitForever
  \/ \E value \in (-MaxInterval)..MaxInterval : NtWait(value)
  \/ \E interval \in (-MaxInterval)..0 : NtDelayExecution(interval)
  \/ \E ms \in 0..INFINITE : Timeout(ms) \/ (ms # INFINITE /\ Sleep(ms))

Spec == Init /\ [][Next]_vars

(***************************************************************************)
(* Properties.                                                             *)
(***************************************************************************)
Lasted == call.ended - call.began

\* A wait of some length never times out more than one tick short of it; a wait for a
\* point in time never before it (timeout_to_ticks rounds up, KeClockTick compares).
TimeoutNotEarly ==
  call.at = "ended" =>
    /\ call.how = "wait" => Lasted > call.asked - PER_TICK
    /\ call.how = "deadline" => call.ended >= call.asked

\* The tick that ends a wait is less than one tick after what was asked for, or is the
\* present one.
TimeoutNotLate ==
  call.at # "idle" =>
    /\ call.how = "wait" => call.target * PER_TICK < call.began + call.asked + PER_TICK
    /\ call.how = "deadline" => \/ call.target * PER_TICK < call.asked + PER_TICK
                                \/ call.target * PER_TICK <= call.began

\* "block the caller for the (relative, negative, 100 ns units) interval": a delay is
\* not more than one tick, the resolution that is stated, short of it.
DelayLasts == call.at = "ended" /\ call.how = "delay" => Lasted > call.asked - PER_TICK
=============================================================================
