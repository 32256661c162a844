-------------------------- MODULE CriticalSection --------------------------
(***************************************************************************)
(* Recursive critical sections: the CRIT of kernel32 (user/kernel32.c) and *)
(* the RTL_CRITICAL_SECTION of ntdll (user/ntdllrtl.c).  Every read and    *)
(* write of the shared structure is a step: the owner field is read without *)
(* the lock, written after it is taken and cleared before it is released.  *)
(***************************************************************************)
EXTENDS Integers, FiniteSets

CONSTANTS Threads,
          K32, Rtl,     \* the sections of either kind
          MaxDepth      \* bound on recursion

Sections == K32 \cup Rtl

CriticalSectionAssumption ==
  K32 \cap Rtl = {} /\ "none" \notin Threads /\ MaxDepth \in Nat \ {0}

VARIABLES lock,        \* lock, LockCount
          owner,       \* owner, OwningThread: a thread or "none"
          recursion,   \* recursion, RecursionCount
          pc,          \* pc[t] = <<step, section>>
          depth        \* depth[t][c]: how often t is inside c

vars == <<lock, owner, recursion, pc, depth>>

\* The word of an unlocked and of a locked section.
Unlocked(c) == IF c \in K32 THEN 0 ELSE -1
Locked(c) == Unlocked(c) + 1

Idle == <<"idle", "none">>

\* InitializeCriticalSection
Init ==
  /\ lock = [c \in Sections |-> Unlocked(c)]
  /\ owner = [c \in Sections |-> "none"]
  /\ recursion = [c \in Sections |-> 0]
  /\ pc = [t \in Threads |-> Idle]
  /\ depth = [t \in Threads |-> [c \in Sections |-> 0]]

At(t, step, c) == pc[t] = <<step, c>>
Goto(t, step, c) == pc' = [pc EXCEPT ![t] = <<step, c>>]

\* The owner is read; the owner itself only counts, others go for the lock.
ReadOwner(t, c, spin) ==
  /\ pc[t] = Idle
  /\ \/ /\ owner[c] = t
        /\ recursion[c] < MaxDepth
        /\ recursion' = [recursion EXCEPT ![c] = @ + 1]
        /\ depth' = [depth EXCEPT ![t][c] = @ + 1]
        /\ UNCHANGED pc
     \/ /\ owner[c] # t
        /\ Goto(t, spin, c)
        /\ UNCHANGED <<recursion, depth>>
  /\ UNCHANGED <<lock, owner>>

EnterCriticalSection(t, c) == c \in K32 /\ ReadOwner(t, c, "spin")
TryEnterCriticalSection(t, c) == c \in K32 /\ ReadOwner(t, c, "try")
RtlEnterCriticalSection(t, c) == c \in Rtl /\ ReadOwner(t, c, "spin")
RtlTryEnterCriticalSection(t, c) == c \in Rtl /\ ReadOwner(t, c, "try")

\* The compare-and-swap that succeeds.
Claim(t, c) ==
  /\ At(t, "spin", c) \/ At(t, "try", c)
  /\ lock[c] = Unlocked(c)
  /\ lock' = [lock EXCEPT ![c] = Locked(c)]
  /\ Goto(t, "own", c)
  /\ UNCHANGED <<owner, recursion, depth>>

\* The one that fails: Try returns, Enter spins on.
ClaimFails(t, c) ==
  /\ At(t, "spin", c) \/ At(t, "try", c)
  /\ lock[c] # Unlocked(c)
  /\ pc' = [pc EXCEPT ![t] = IF At(t, "try", c) THEN Idle ELSE @]
  /\ UNCHANGED <<lock, owner, recursion, depth>>

SetOwner(t, c) ==
  /\ At(t, "own", c)
  /\ owner' = [owner EXCEPT ![c] = t]
  /\ Goto(t, "count", c)
  /\ UNCHANGED <<lock, recursion, depth>>

SetCount(t, c) ==
  /\ At(t, "count", c)
  /\ recursion' = [recursion EXCEPT ![c] = 1]
  /\ depth' = [depth EXCEPT ![t][c] = 1]
  /\ pc' = [pc EXCEPT ![t] = Idle]
  /\ UNCHANGED <<lock, owner>>

\* Also RtlLeaveCriticalSection; a thread leaves what it has entered.
LeaveCriticalSection(t, c) ==
  /\ pc[t] = Idle /\ depth[t][c] > 0
  /\ recursion' = [recursion EXCEPT ![c] = @ - 1]
  /\ depth' = [depth EXCEPT ![t][c] = @ - 1]
  /\ pc' = [pc EXCEPT ![t] = IF recursion[c] = 1 THEN <<"disown", c>> ELSE Idle]
  /\ UNCHANGED <<lock, owner>>

Disown(t, c) ==
  /\ At(t, "disown", c)
  /\ owner' = [owner EXCEPT ![c] = "none"]
  /\ Goto(t, "release", c)
  /\ UNCHANGED <<lock, recursion, depth>>

\* Faulty RtlLeaveCriticalSection: the word is left as __sync_lock_release leaves it.
RtlReleaseZero(t, c) ==
  /\ At(t, "release", c)
  /\ lock' = [lock EXCEPT ![c] = 0]
  /\ pc' = [pc EXCEPT ![t] = Idle]
  /\ UNCHANGED <<owner, recursion, depth>>

\* __sync_lock_release stores 0, which is the locked value for ntdll: its
\* second store frees the section.
RtlLeaveCriticalSection(t, c) ==
  /\ At(t, "release", c)
  /\ lock' = [lock EXCEPT ![c] = Unlocked(c)]
  /\ pc' = [pc EXCEPT ![t] = Idle]
  /\ UNCHANGED <<owner, recursion, depth>>

Step(t, c) ==
  \/ Claim(t, c)
  \/ ClaimFails(t, c)
  \/ SetOwner(t, c)
  \/ SetCount(t, c)
  \/ Disown(t, c)
  \/ RtlLeaveCriticalSection(t, c)

\* A thread enters one section at a time, as often as it likes.
Free(t, c) == \A d \in Sections \ {c} : depth[t][d] = 0

Next ==
  \E t \in Threads, c \in Sections :
    \/ Free(t, c) /\ EnterCriticalSection(t, c)
    \/ TryEnterCriticalSection(t, c)
    \/ Free(t, c) /\ RtlEnterCriticalSection(t, c)
    \/ RtlTryEnterCriticalSection(t, c)
    \/ LeaveCriticalSection(t, c)
    \/ Step(t, c)

\* The timer preempts a spinning thread, and a thread that is in gets out.
Fairness ==
  \A t \in Threads, c \in Sections : WF_vars(Step(t, c)) /\ WF_vars(LeaveCriticalSection(t, c))

Spec == Init /\ [][Next]_vars /\ Fairness
-----------------------------------------------------------------------------
Steps == {"spin", "try", "own", "count", "disown", "release"}

TypeOK ==
  /\ lock \in [Sections -> {-1, 0, 1}]
  /\ \A c \in Sections : lock[c] \in {Unlocked(c), Locked(c)}
  /\ owner \in [Sections -> Threads \cup {"none"}]
  /\ recursion \in [Sections -> 0 .. MaxDepth]
  /\ depth \in [Threads -> [Sections -> 0 .. MaxDepth]]
  /\ pc \in [Threads -> {Idle} \cup (Steps \X Sections)]

\* t is inside c, or has the lock and is on its way in or out.
Has(t, c) ==
  depth[t][c] > 0 \/ pc[t] \in {<<s, c>> : s \in {"own", "count", "disown", "release"}}

(* At most one thread has a section, although owner and recursion are plain
   fields that every caller of Enter reads without the lock. *)
MutualExclusion ==
  \A c \in Sections : \A t, u \in Threads : Has(t, c) /\ Has(u, c) => t = u

(* A thread that reads itself in the owner field is inside: the fast path of
   Enter never counts in a section the thread does not have. *)
OwnerInside ==
  \A c \in Sections, t \in Threads :
    owner[c] = t => \/ depth[t][c] = recursion[c] /\ depth[t][c] > 0
                    \/ At(t, "count", c) \/ At(t, "disown", c)

(* A section somebody spins on is entered by somebody: ntdll's and kernel32's
   release really lets the next compare-and-swap succeed. *)
SpinnersProgress ==
  \A c \in Sections : (\E t \in Threads : At(t, "spin", c)) ~> (\E t \in Threads : depth[t][c] > 0)
=============================================================================
