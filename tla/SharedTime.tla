----------------------------- MODULE SharedTime -----------------------------
(***************************************************************************)
(* KUSER_SHARED_DATA: the clock interrupt writes two 64-bit times into a   *)
(* page as KSYSTEM_TIMEs (High1, Low, High2), and threads read them word   *)
(* by word without a lock (read_ksystem_time).  There is one CPU, so the   *)
(* whole of KeUpdateSharedData falls between two reads of a thread, and    *)
(* any number of ticks may fall there when the thread is preempted.        *)
(***************************************************************************)
EXTENDS Naturals

CONSTANTS Threads,
          WORD,       \* values of a 32-bit word
          HUNDRED_NS_PER_TICK,
          MaxTicks    \* the run ends before a time wraps around as a whole

TimeAssumption ==
  /\ WORD \in Nat \ {0, 1} /\ HUNDRED_NS_PER_TICK \in Nat \ {0} /\ MaxTicks \in Nat
  /\ MaxTicks * HUNDRED_NS_PER_TICK < WORD * WORD

VARIABLES ticks,      \* KeGetTickCount
          page,       \* the two KSYSTEM_TIMEs
          reader      \* read_ksystem_time in each thread: step, field and what was read

vars == <<ticks, page, reader>>

Fields == {"TickCount", "SystemTime"}
Scale(field) == IF field = "TickCount" THEN 1 ELSE HUNDRED_NS_PER_TICK

Idle == [at |-> "idle", field |-> "TickCount", high1 |-> 0, low |-> 0, began |-> 0, result |-> 0]

Written(n) ==
  [f \in Fields |-> [high1 |-> (n * Scale(f)) \div WORD, low |-> (n * Scale(f)) % WORD,
                     high2 |-> (n * Scale(f)) \div WORD]]

\* KeInitializeSharedData.
Init ==
  /\ ticks = 0 /\ page = Written(0)
  /\ reader = [t \in Threads |-> Idle]

\* Called from the clock interrupt with the new tick count.
KeUpdateSharedData ==
  /\ ticks < MaxTicks /\ ticks' = ticks + 1
  /\ page' = Written(ticks + 1)
  /\ UNCHANGED reader

\* GetTickCount64 and GetSystemTimeAsFileTime.
Call(t, f) ==
  /\ reader[t].at \in {"idle", "done"}
  /\ reader' = [reader EXCEPT ![t] = [at |-> "high1", field |-> f, high1 |-> 0, low |-> 0,
                                       began |-> ticks, result |-> 0]]
  /\ UNCHANGED <<ticks, page>>

\* The thread t has read high1 and low, and goes on at its next read.
Goto(t, at, high1, low, result) ==
  reader' = [reader EXCEPT ![t] = [at |-> at, field |-> reader[t].field, high1 |-> high1,
                                   low |-> low, began |-> reader[t].began, result |-> result]]

ReadHigh1(t) ==
  /\ reader[t].at = "high1"
  /\ Goto(t, "low", page[reader[t].field].high1, reader[t].low, 0)
  /\ UNCHANGED <<ticks, page>>

ReadLow(t) ==
  /\ reader[t].at = "low"
  /\ Goto(t, "high2", reader[t].high1, page[reader[t].field].low, 0)
  /\ UNCHANGED <<ticks, page>>

\* Faulty ReadHigh2: the two high parts are not compared.
ReadHigh2Untested(t) ==
  /\ reader[t].at = "high2"
  /\ Goto(t, "done", reader[t].high1, reader[t].low,
          page[reader[t].field].high2 * WORD + reader[t].low)
  /\ UNCHANGED <<ticks, page>>

\* The high part is compared with the one read first: another round if they differ.
ReadHigh2(t) ==
  /\ reader[t].at = "high2"
  /\ IF reader[t].high1 = page[reader[t].field].high2
     THEN Goto(t, "done", reader[t].high1, reader[t].low,
               reader[t].high1 * WORD + reader[t].low)
     ELSE Goto(t, "high1", reader[t].high1, reader[t].low, 0)
  /\ UNCHANGED <<ticks, page>>

Read(t) == ReadHigh1(t) \/ ReadLow(t) \/ ReadHigh2(t)

Next ==
  \/ KeUpdateSharedData
  \/ \E t \in Threads : Read(t) \/ \E f \in Fields : Call(t, f)

\* A thread in the middle of a call gets the CPU again.
Spec == Init /\ [][Next]_vars /\ \A t \in Threads : WF_vars(Read(t))

(***************************************************************************)
(* Properties.                                                             *)
(***************************************************************************)
TypeOK ==
  /\ ticks \in 0..MaxTicks
  /\ page \in [Fields -> [high1 : 0..(WORD - 1), low : 0..(WORD - 1), high2 : 0..(WORD - 1)]]
  /\ \A t \in Threads :
       /\ reader[t].at \in {"idle", "high1", "low", "high2", "done"}
       /\ reader[t].field \in Fields /\ reader[t].began \in 0..ticks
       /\ reader[t].high1 \in 0..(WORD - 1) /\ reader[t].low \in 0..(WORD - 1)

\* A time that a read returns is one that the clock showed between the call and the
\* return, whatever ticks fall between the reads of its words (read_ksystem_time).
ReadIsATime ==
  \A t \in Threads : reader[t].at = "done" =>
    \E n \in reader[t].began..ticks : reader[t].result = n * Scale(reader[t].field)

\* A read that finds the high parts different gets out of its loop.
ReadReturns == \A t \in Threads : reader[t].at = "high1" ~> reader[t].at = "done"
=============================================================================
