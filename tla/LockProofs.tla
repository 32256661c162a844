----------------------------- MODULE LockProofs -----------------------------
(***************************************************************************)
(* Proofs about what threads share in ring 3, for any number of threads:   *)
(* the critical sections of kernel32 and ntdll, one-time initialization,   *)
(* the times in the shared page, and the reader/writer locks.              *)
(***************************************************************************)
EXTENDS Sync, FiniteSetTheorems, TLAPS

\* The specifications of the parts without their fairness, which is not needed here.
CSSafe == CS!Init /\ [][CS!Next]_(CS!vars)
SlimSafe == Slim!Init /\ [][Slim!Next]_(Slim!vars)
OnceSafe == Once!Init /\ [][Once!Next]_(Once!vars)
TimeSafe == Time!Init /\ [][Time!Next]_(Time!vars)

-----------------------------------------------------------------------------
(* Critical sections *)

\* While t is inside c, or on its way in or out, the fields of c are its own: they
\* have the values that its next step relies on.
FieldsOf(t, c) ==
    /\ depth[t][c] > 0 => /\ owner[c] = t /\ recursion[c] = depth[t][c]
                          /\ \A s \in CS!Steps : ~CS!At(t, s, c)
    /\ CS!At(t, "own", c) \/ CS!At(t, "release", c) => owner[c] = "none" /\ recursion[c] = 0
    /\ CS!At(t, "count", c) \/ CS!At(t, "disown", c) => owner[c] = t /\ recursion[c] = 0

\* One section: a thread at most has it, its owner field names nobody else, and while
\* nobody has it, it is as it was initialized.
SectionOK(c) ==
    /\ \A t, u \in SectionThreads : CS!Has(t, c) /\ CS!Has(u, c) => t = u
    /\ \A t \in SectionThreads : FieldsOf(t, c) /\ (owner[c] = t => CS!Has(t, c))
    /\ lock[c] = CS!Unlocked(c) =>
          recursion[c] = 0 /\ \A t \in SectionThreads : ~CS!Has(t, c)

\* The inductive invariant.
CSInv == CS!TypeOK /\ \A c \in CS!Sections : SectionOK(c)

LEMMA CSInit == ASSUME CS!CriticalSectionAssumption PROVE CS!Init => CSInv
<1> SUFFICES ASSUME CS!Init PROVE CSInv
  OBVIOUS
<1> USE DEF CS!CriticalSectionAssumption
<1>1. \A t \in SectionThreads, c \in CS!Sections :
         depth[t][c] = 0 /\ \A s \in CS!Steps : ~CS!At(t, s, c)
  BY DEF CS!Init, CS!Idle, CS!At, CS!Steps
<1>2. \A t \in SectionThreads, c \in CS!Sections : ~CS!Has(t, c)
  BY <1>1 DEF CS!Has, CS!At, CS!Steps
<1>3. CS!TypeOK
  BY DEF CS!Init, CS!TypeOK, CS!Unlocked, CS!Locked, CS!Idle, CS!Sections
<1>4. QED
  BY <1>1, <1>2, <1>3 DEF CSInv, SectionOK, FieldsOf, CS!Init, CS!Steps

\* A step of t that is about section c, seen from c: the other threads have not moved
\* with regard to it.
OnlyIn(t, c) ==
    /\ CS!TypeOK /\ CS!TypeOK'
    /\ \A d \in CS!Sections \ {c} :
          /\ lock'[d] = lock[d] /\ owner'[d] = owner[d] /\ recursion'[d] = recursion[d]
          /\ depth'[t][d] = depth[t][d]
          /\ \A s \in CS!Steps : CS!At(t, s, d)' <=> CS!At(t, s, d)
    /\ \A u \in SectionThreads \ {t} : cspc'[u] = cspc[u] /\ depth'[u] = depth[u]

\* Such a step keeps the invariant when it keeps it for c.
LEMMA OtherSections ==
    ASSUME CSInv, NEW t \in SectionThreads, NEW c \in CS!Sections, OnlyIn(t, c), SectionOK(c)'
    PROVE  CSInv'
<1> SUFFICES ASSUME NEW d \in CS!Sections \ {c} PROVE SectionOK(d)'
  BY DEF CSInv, OnlyIn
<1>1. \A u \in SectionThreads : /\ depth'[u][d] = depth[u][d]
                         /\ \A s \in CS!Steps : CS!At(u, s, d)' <=> CS!At(u, s, d)
  BY DEF OnlyIn, CS!At
<1>2. \A u \in SectionThreads : CS!Has(u, d)' <=> CS!Has(u, d)
  BY <1>1 DEF CS!Has, CS!At, CS!Steps
<1>3. \A u \in SectionThreads : FieldsOf(u, d) => FieldsOf(u, d)'
  BY <1>1 DEF OnlyIn, FieldsOf, CS!Steps
<1>4. QED
  BY <1>2, <1>3 DEF OnlyIn, CSInv, SectionOK, CS!Unlocked

\* A thread that does not have c begins to wait for it, waits on or gives up.
LEMMA WaitStep ==
    ASSUME CSInv, NEW t \in SectionThreads, NEW c \in CS!Sections,
           {cspc[t], cspc'[t]} \subseteq {CS!Idle, <<"spin", c>>, <<"try", c>>},
           depth[t][c] = 0, cspc' = [cspc EXCEPT ![t] = cspc'[t]],
           UNCHANGED <<lock, owner, recursion, depth>>
    PROVE  CSInv'
<1>1. CS!TypeOK'
  BY DEF CSInv, CS!TypeOK, CS!Unlocked, CS!Locked, CS!Steps
<1>2. OnlyIn(t, c)
  BY <1>1 DEF OnlyIn, CSInv, CS!TypeOK, CS!At, CS!Idle, CS!Steps
<1>3. \A u \in SectionThreads : CS!Has(u, c)' <=> CS!Has(u, c)
  BY DEF CSInv, CS!TypeOK, CS!Has, CS!Idle
<1>4. ASSUME NEW u \in SectionThreads PROVE FieldsOf(u, c)'
  <2>1. CASE u = t
    BY <2>1 DEF FieldsOf, CS!At, CS!Idle
  <2>2. CASE u # t
    <3>1. cspc'[u] = cspc[u]
      BY <2>2 DEF CSInv, CS!TypeOK
    <3>2. \A s \in CS!Steps : CS!At(u, s, c)' <=> CS!At(u, s, c)
      BY <3>1 DEF CS!At
    <3>3. FieldsOf(u, c)
      BY DEF CSInv, SectionOK
    <3>4. QED
      BY <3>2, <3>3 DEF FieldsOf, CS!Steps
  <2>3. QED
    BY <2>1, <2>2
<1>5. SectionOK(c)'
  BY <1>3, <1>4 DEF CSInv, SectionOK, CS!Unlocked
<1>6. QED
  BY <1>2, <1>5, OtherSections

LEMMA CSNext == ASSUME CS!CriticalSectionAssumption PROVE CSInv /\ [CS!Next]_(CS!vars) => CSInv'
<1> SUFFICES ASSUME CSInv, [CS!Next]_(CS!vars) PROVE CSInv'
  OBVIOUS
<1> USE DEF CS!CriticalSectionAssumption
<1>1. CASE UNCHANGED CS!vars
  BY <1>1 DEF CSInv, SectionOK, FieldsOf, CS!vars, CS!TypeOK, CS!Has, CS!At, CS!Unlocked,
              CS!Locked
<1>2. ASSUME NEW t \in SectionThreads, NEW c \in CS!Sections, NEW spin \in {"spin", "try"},
             CS!ReadOwner(t, c, spin)
      PROVE  CSInv'
  <2>1. CASE owner[c] = t
    <3>1. /\ cspc[t] = CS!Idle /\ recursion[c] < MaxDepth
          /\ recursion' = [recursion EXCEPT ![c] = @ + 1]
          /\ depth' = [depth EXCEPT ![t][c] = @ + 1]
          /\ UNCHANGED <<lock, owner, cspc>>
      BY <1>2, <2>1 DEF CS!ReadOwner
    <3>2. CS!Has(t, c) /\ depth[t][c] > 0 /\ recursion[c] = depth[t][c]
      BY <2>1, <3>1 DEF CSInv, SectionOK, FieldsOf, CS!Has, CS!Idle
    <3>3. CS!TypeOK'
      BY <3>1, <3>2 DEF CSInv, CS!TypeOK, CS!Unlocked, CS!Locked
    <3>4. OnlyIn(t, c)
      BY <3>1, <3>3 DEF OnlyIn, CSInv, CS!TypeOK, CS!At
    <3>5. /\ depth'[t][c] = depth[t][c] + 1 /\ recursion'[c] = recursion[c] + 1
          /\ \A u \in SectionThreads \ {t} : depth'[u] = depth[u]
          /\ \A u \in SectionThreads : CS!Has(u, c)' <=> CS!Has(u, c)
          /\ \A s \in CS!Steps : ~CS!At(t, s, c)'
      BY <3>1, <3>2 DEF CSInv, CS!TypeOK, CS!Has, CS!Idle, CS!At, CS!Steps
    <3>6. \A u \in SectionThreads \ {t} : ~CS!Has(u, c)
      BY <3>2 DEF CSInv, SectionOK
    <3>7. \A u \in SectionThreads : FieldsOf(u, c)'
      BY <2>1, <3>1, <3>2, <3>5, <3>6 DEF FieldsOf, CS!Has, CS!At, CS!Steps, CSInv, CS!TypeOK
    <3>8. SectionOK(c)'
      BY <3>1, <3>2, <3>5, <3>7 DEF CSInv, SectionOK, CS!Unlocked
    <3>9. QED
      BY <3>4, <3>8, OtherSections
  <2>2. CASE owner[c] # t
    <3>1. /\ cspc[t] = CS!Idle /\ cspc' = [cspc EXCEPT ![t] = <<spin, c>>]
          /\ UNCHANGED <<lock, owner, recursion, depth>>
      BY <1>2, <2>2 DEF CS!ReadOwner, CS!Goto
    <3>2. depth[t][c] = 0
      BY <2>2 DEF CSInv, CS!TypeOK, SectionOK, FieldsOf
    <3>3. QED
      BY <3>1, <3>2, WaitStep DEF CSInv, CS!TypeOK
  <2>3. QED
    BY <2>1, <2>2
<1>3. ASSUME NEW t \in SectionThreads, NEW c \in CS!Sections, CS!Claim(t, c)
      PROVE  CSInv'
  <2>1. CS!TypeOK'
    BY <1>3 DEF CSInv, SectionOK, FieldsOf, CS!TypeOK, CS!Claim, CS!Goto, CS!At, CS!Steps, CS!Idle,
                CS!Unlocked, CS!Locked
  <2>2. OnlyIn(t, c)
    BY <1>3, <2>1 DEF OnlyIn, CSInv, CS!TypeOK, CS!Claim, CS!Goto, CS!At, CS!Idle, CS!Steps
  <2>3. SectionOK(c)'
    BY <1>3, <2>1 DEF CSInv, SectionOK, FieldsOf, CS!TypeOK, CS!Claim, CS!Goto, CS!Has, CS!At,
                CS!Steps, CS!Idle, CS!Unlocked, CS!Locked
  <2>4. QED
    BY <2>2, <2>3, OtherSections
<1>4. ASSUME NEW t \in SectionThreads, NEW c \in CS!Sections, CS!ClaimFails(t, c)
      PROVE  CSInv'
  <2>1. depth[t][c] = 0
    BY <1>4 DEF CSInv, CS!TypeOK, SectionOK, FieldsOf, CS!ClaimFails, CS!Steps
  <2>2. QED
    BY <1>4, <2>1, WaitStep DEF CSInv, CS!TypeOK, CS!ClaimFails, CS!At
<1>5. ASSUME NEW t \in SectionThreads, NEW c \in CS!Sections, CS!SetOwner(t, c)
      PROVE  CSInv'
  <2>1. CS!TypeOK'
    BY <1>5 DEF CSInv, SectionOK, FieldsOf, CS!TypeOK, CS!SetOwner, CS!Goto, CS!At, CS!Steps, CS!Idle,
                CS!Unlocked, CS!Locked
  <2>2. OnlyIn(t, c)
    BY <1>5, <2>1 DEF OnlyIn, CSInv, CS!TypeOK, CS!SetOwner, CS!Goto, CS!At, CS!Idle, CS!Steps
  <2>3. SectionOK(c)'
    BY <1>5, <2>1 DEF CSInv, SectionOK, FieldsOf, CS!TypeOK, CS!SetOwner, CS!Goto, CS!Has, CS!At,
                CS!Steps, CS!Idle, CS!Unlocked, CS!Locked
  <2>4. QED
    BY <2>2, <2>3, OtherSections
<1>6. ASSUME NEW t \in SectionThreads, NEW c \in CS!Sections, CS!SetCount(t, c)
      PROVE  CSInv'
  <2>1. CS!TypeOK'
    BY <1>6 DEF CSInv, SectionOK, FieldsOf, CS!TypeOK, CS!SetCount, CS!At, CS!Steps, CS!Idle,
                CS!Unlocked, CS!Locked
  <2>2. OnlyIn(t, c)
    BY <1>6, <2>1 DEF OnlyIn, CSInv, CS!TypeOK, CS!SetCount, CS!At, CS!Idle, CS!Steps
  <2>3. SectionOK(c)'
    BY <1>6, <2>1 DEF CSInv, SectionOK, FieldsOf, CS!TypeOK, CS!SetCount, CS!Has, CS!At,
                CS!Steps, CS!Idle, CS!Unlocked, CS!Locked
  <2>4. QED
    BY <2>2, <2>3, OtherSections
<1>7. ASSUME NEW t \in SectionThreads, NEW c \in CS!Sections, CS!LeaveCriticalSection(t, c)
      PROVE  CSInv'
  <2>1. CS!TypeOK'
    BY <1>7 DEF CSInv, SectionOK, FieldsOf, CS!TypeOK, CS!LeaveCriticalSection, CS!At, CS!Steps, CS!Idle,
                CS!Unlocked, CS!Locked
  <2>2. OnlyIn(t, c)
    BY <1>7, <2>1 DEF OnlyIn, CSInv, CS!TypeOK, CS!LeaveCriticalSection, CS!At, CS!Idle, CS!Steps
  <2>3. SectionOK(c)'
    BY <1>7, <2>1 DEF CSInv, SectionOK, FieldsOf, CS!TypeOK, CS!LeaveCriticalSection, CS!Has, CS!At,
                CS!Steps, CS!Idle, CS!Unlocked, CS!Locked
  <2>4. QED
    BY <2>2, <2>3, OtherSections
<1>8. ASSUME NEW t \in SectionThreads, NEW c \in CS!Sections, CS!Disown(t, c)
      PROVE  CSInv'
  <2>1. CS!TypeOK'
    BY <1>8 DEF CSInv, SectionOK, FieldsOf, CS!TypeOK, CS!Disown, CS!Goto, CS!At, CS!Steps, CS!Idle,
                CS!Unlocked, CS!Locked
  <2>2. OnlyIn(t, c)
    BY <1>8, <2>1 DEF OnlyIn, CSInv, CS!TypeOK, CS!Disown, CS!Goto, CS!At, CS!Idle, CS!Steps
  <2>3. SectionOK(c)'
    BY <1>8, <2>1 DEF CSInv, SectionOK, FieldsOf, CS!TypeOK, CS!Disown, CS!Goto, CS!Has, CS!At,
                CS!Steps, CS!Idle, CS!Unlocked, CS!Locked
  <2>4. QED
    BY <2>2, <2>3, OtherSections
<1>9. ASSUME NEW t \in SectionThreads, NEW c \in CS!Sections, CS!RtlLeaveCriticalSection(t, c)
      PROVE  CSInv'
  <2>1. CS!TypeOK'
    BY <1>9 DEF CSInv, SectionOK, FieldsOf, CS!TypeOK, CS!RtlLeaveCriticalSection, CS!At, CS!Steps, CS!Idle,
                CS!Unlocked, CS!Locked
  <2>2. OnlyIn(t, c)
    BY <1>9, <2>1 DEF OnlyIn, CSInv, CS!TypeOK, CS!RtlLeaveCriticalSection, CS!At, CS!Idle, CS!Steps
  <2>3. SectionOK(c)'
    BY <1>9, <2>1 DEF CSInv, SectionOK, FieldsOf, CS!TypeOK, CS!RtlLeaveCriticalSection, CS!Has, CS!At,
                CS!Steps, CS!Idle, CS!Unlocked, CS!Locked
  <2>4. QED
    BY <2>2, <2>3, OtherSections
<1>10. QED
  BY <1>1, <1>2, <1>3, <1>4, <1>5, <1>6, <1>7, <1>8, <1>9 
     DEF CS!Next, CS!Step, CS!EnterCriticalSection, CS!TryEnterCriticalSection,
         CS!RtlEnterCriticalSection, CS!RtlTryEnterCriticalSection

\* At most one thread has a critical section (EnterCriticalSection,
\* RtlEnterCriticalSection and their Try variants).
THEOREM SectionsExclude ==
    ASSUME CS!CriticalSectionAssumption
    PROVE  CSSafe => []CS!MutualExclusion
<1>1. CSInv => CS!MutualExclusion
  BY DEF CSInv, SectionOK, CS!MutualExclusion
<1>2. QED
  BY <1>1, CSInit, CSNext, PTL DEF CSSafe

\* A thread that reads itself in the owner field, which it does without the lock, is
\* inside (the fast path of EnterCriticalSection).
THEOREM OwnersAreInside ==
    ASSUME CS!CriticalSectionAssumption
    PROVE  CSSafe => []CS!OwnerInside
<1>1. CSInv => CS!OwnerInside
  <2> SUFFICES ASSUME CSInv, NEW c \in CS!Sections, NEW t \in SectionThreads, owner[c] = t
               PROVE  \/ depth[t][c] = recursion[c] /\ depth[t][c] > 0
                      \/ CS!At(t, "count", c) \/ CS!At(t, "disown", c)
    BY DEF CS!OwnerInside
  <2>1. CS!Has(t, c) /\ FieldsOf(t, c) /\ t # "none"
    BY DEF CSInv, SectionOK, CS!CriticalSectionAssumption
  <2>2. QED
    BY <2>1 DEF CS!Has, FieldsOf, CS!At
<1>2. QED
  BY <1>1, CSInit, CSNext, PTL DEF CSSafe

-----------------------------------------------------------------------------
(* One-time initialization *)

\* The word says how far the initialization is: in progress in one thread, or done
\* with the context that everybody gets.
OnceInv ==
    /\ Once!TypeOK
    /\ runs \in Seq(Contexts) /\ Len(runs) <= 1
    /\ \A t, u \in OnceThreads : oncepc[t] = "init" /\ oncepc[u] = "init" => t = u
    /\ word \in {0, 1} <=> runs = <<>>
    /\ runs # <<>> => word = IF runs[1] = 0 THEN 2 ELSE runs[1]
    /\ Once!SameContext

LEMMA OnceInit == ASSUME Once!InitOnceAssumption PROVE Once!Init => OnceInv
  BY DEF Once!InitOnceAssumption, Once!Init, OnceInv, Once!TypeOK, Once!SameContext

LEMMA OnceNext ==
    ASSUME Once!InitOnceAssumption PROVE OnceInv /\ [Once!Next]_(Once!vars) => OnceInv'
<1> SUFFICES ASSUME OnceInv, [Once!Next]_(Once!vars) PROVE OnceInv'
  OBVIOUS
<1> USE DEF Once!InitOnceAssumption, OnceInv, Once!TypeOK, Once!SameContext, Once!Goto
<1>1. CASE UNCHANGED Once!vars
  BY <1>1 DEF Once!vars
<1>2. ASSUME NEW t \in OnceThreads, Once!Begin(t) \/ Once!CheckOnly(t) PROVE OnceInv'
  BY <1>2 DEF Once!Begin, Once!CheckOnly
<1>3. ASSUME NEW t \in OnceThreads, Once!InitOnceBeginInitialize(t) PROVE OnceInv'
  BY <1>3 DEF Once!InitOnceBeginInitialize
<1>4. ASSUME NEW t \in OnceThreads, Once!Claim(t) PROVE OnceInv'
  BY <1>4 DEF Once!Claim
<1>5. ASSUME NEW t \in OnceThreads, Once!InitFailed(t) PROVE OnceInv'
  BY <1>5 DEF Once!InitFailed
<1>6. ASSUME NEW t \in OnceThreads, NEW ctx \in Contexts, Once!InitOnceComplete(t, ctx)
      PROVE  OnceInv'
  <2>1. word = 1 /\ runs = <<>> /\ oncepc[t] = "init"
    BY <1>6 DEF Once!InitOnceComplete
  <2>2. runs' \in Seq(Contexts) /\ Len(runs') = 1 /\ runs'[1] = ctx
    BY <1>6, <2>1 DEF Once!InitOnceComplete
  <2>3. word' = (IF ctx = 0 THEN 2 ELSE ctx) /\ word' \notin {0, 1}
    BY <1>6 DEF Once!InitOnceComplete
  <2>4. Once!TypeOK' /\ \A u \in OnceThreads : oncepc'[u] # "init"
    BY <1>6, <2>1, <2>3 DEF Once!InitOnceComplete
  <2>5. Once!SameContext'
    BY <1>6, <2>1, <2>2 DEF Once!InitOnceComplete
  <2>6. QED
    BY <2>2, <2>3, <2>4, <2>5
<1>7. ASSUME NEW t \in OnceThreads, NEW ctx \in Contexts, Once!CompleteRefused(t, ctx)
      PROVE  OnceInv'
  BY <1>7 DEF Once!CompleteRefused
<1>8. QED
  BY <1>1, <1>2, <1>3, <1>4, <1>5, <1>6, <1>7 DEF Once!Next, Once!Step

\* The callback of InitOnceExecuteOnce runs in one thread at a time and succeeds at
\* most once, whatever fails or is refused before.
THEOREM InitializedAtMostOnce ==
    ASSUME Once!InitOnceAssumption
    PROVE  OnceSafe => []Once!AtMostOnce
<1>1. OnceInv => Once!AtMostOnce
  BY DEF OnceInv, Once!AtMostOnce
<1>2. QED
  BY <1>1, OnceInit, OnceNext, PTL DEF OnceSafe

\* Every caller that returns with a context has that of the one initialization that
\* succeeded (InitOnceBeginInitialize, InitOnceComplete).
THEOREM EverybodyGetsOneContext ==
    ASSUME Once!InitOnceAssumption
    PROVE  OnceSafe => []Once!SameContext
<1>1. OnceInv => Once!SameContext
  BY DEF OnceInv
<1>2. QED
  BY <1>1, OnceInit, OnceNext, PTL DEF OnceSafe

-----------------------------------------------------------------------------
(* The times in the shared page *)

\* What is read of a time are its quotient and remainder by 2^32; quotients follow
\* the order of the times.
LEMMA Division ==
    \A a \in Nat, w \in Nat \ {0} :
        /\ a \div w \in Nat /\ a % w \in 0..(w - 1)
        /\ a = (a \div w) * w + (a % w)
  OBVIOUS

LEMMA DivMonotone ==
    ASSUME NEW a \in Nat, NEW b \in Nat, NEW w \in Nat \ {0}, a <= b
    PROVE  a \div w <= b \div w
  OBVIOUS

LEMMA MulMonotone ==
    ASSUME NEW a \in Nat, NEW b \in Nat, NEW s \in Nat, a <= b
    PROVE  a * s <= b * s
  OBVIOUS

\* The words of the time that the clock shows at tick n.
High(f, n) == (n * Time!Scale(f)) \div WORD
Low(f, n) == (n * Time!Scale(f)) % WORD

LEMMA HighMonotone ==
    ASSUME Time!TimeAssumption, NEW f \in Time!Fields, NEW m \in Nat, NEW n \in Nat, m <= n
    PROVE  High(f, m) <= High(f, n)
<1>1. Time!Scale(f) \in Nat /\ WORD \in Nat \ {0}
  BY DEF Time!Scale, Time!TimeAssumption
<1>2. m * Time!Scale(f) \in Nat /\ n * Time!Scale(f) \in Nat
  BY <1>1
<1>3. QED
  BY <1>1, <1>2, MulMonotone, DivMonotone DEF High

LEMMA WordsOfATime ==
    ASSUME Time!TimeAssumption, NEW f \in Time!Fields, NEW n \in Nat
    PROVE  High(f, n) \in Nat /\ Low(f, n) \in Nat
           /\ High(f, n) * WORD + Low(f, n) = n * Time!Scale(f)
<1>1. Time!Scale(f) \in Nat /\ WORD \in Nat \ {0} /\ n * Time!Scale(f) \in Nat
  BY DEF Time!Scale, Time!TimeAssumption
<1> DEFINE a == n * Time!Scale(f)
<1>2. High(f, n) = a \div WORD /\ Low(f, n) = a % WORD /\ a \in Nat
  BY <1>1 DEF High, Low
<1> HIDE DEF a
<1>3. /\ a \div WORD \in Nat /\ a % WORD \in 0..(WORD - 1)
      /\ a = (a \div WORD) * WORD + (a % WORD)
  BY <1>1, <1>2, Division, Zenon
<1>4. High(f, n) \in Nat /\ Low(f, n) \in Nat /\ High(f, n) * WORD + Low(f, n) = a
  BY <1>1, <1>2, <1>3
<1>5. QED
  BY <1>4 DEF a

\* A read in progress: the high part is that of a tick m since the call, and the low
\* part, when it is read too, that of a tick n not before m.
ReadOK(r) ==
    /\ r \in [at : {"idle", "high1", "low", "high2", "done"}, field : Time!Fields,
              high1 : Nat, low : Nat, began : Nat, result : Nat]
    /\ r.began <= ticks
    /\ r.at = "low" => \E m \in r.began..ticks : r.high1 = High(r.field, m)
    /\ r.at = "high2" => \E m, n \in r.began..ticks :
                            m <= n /\ r.high1 = High(r.field, m) /\ r.low = Low(r.field, n)
    /\ r.at = "done" => \E n \in r.began..ticks : r.result = n * Time!Scale(r.field)

TimeInv ==
    /\ ticks \in Nat
    /\ page = Time!Written(ticks)
    /\ DOMAIN reader = Callers /\ \A t \in Callers : ReadOK(reader[t])

LEMMA TimeInit == ASSUME Time!TimeAssumption PROVE Time!Init => TimeInv
  BY DEF Time!TimeAssumption, Time!Init, TimeInv, ReadOK, Time!Idle, Time!Fields

\* The step of t that makes its read r.
ReadTo(t, r) ==
    DOMAIN reader' = Callers /\ \A u \in Callers : reader'[u] = IF u = t THEN r ELSE reader[u]

\* A thread's own step leaves the others' reads as they are.
LEMMA OtherReads ==
    ASSUME TimeInv, NEW t \in Callers, UNCHANGED <<ticks, page>>,
           NEW r, ReadTo(t, r), ReadOK(r)
    PROVE  TimeInv'
<1>1. ASSUME NEW u \in Callers PROVE ReadOK(reader[u])'
  BY DEF TimeInv, ReadOK, ReadTo
<1>2. QED
  BY <1>1 DEF TimeInv, ReadTo

LEMMA TimeNext ==
    ASSUME Time!TimeAssumption PROVE TimeInv /\ [Time!Next]_(Time!vars) => TimeInv'
<1> SUFFICES ASSUME TimeInv, [Time!Next]_(Time!vars) PROVE TimeInv'
  OBVIOUS
<1>1. CASE UNCHANGED Time!vars
  BY <1>1 DEF Time!vars, TimeInv, ReadOK, ReadTo
<1>2. CASE Time!KeUpdateSharedData
  <2>1. ticks' \in Nat /\ ticks < ticks' /\ page' = Time!Written(ticks') /\ reader' = reader
    BY <1>2 DEF Time!KeUpdateSharedData, TimeInv
  <2>2. ASSUME NEW t \in Callers PROVE ReadOK(reader[t])'
    BY <2>1, ticks \in Nat DEF TimeInv, ReadOK, ReadTo
  <2>3. QED
    BY <2>1, <2>2 DEF TimeInv
<1>3. ASSUME NEW t \in Callers, NEW f \in Time!Fields, Time!Call(t, f) PROVE TimeInv'
  <2> DEFINE r == [at |-> "high1", field |-> f, high1 |-> 0, low |-> 0, began |-> ticks,
                   result |-> 0]
  <2>1. ReadTo(t, r) /\ UNCHANGED <<ticks, page>>
    BY <1>3 DEF Time!Call, ReadTo, TimeInv
  <2>2. ReadOK(r)
    BY DEF ReadOK, TimeInv
  <2> HIDE DEF r
  <2>3. QED
    BY <2>1, <2>2, OtherReads
<1>4. ASSUME NEW t \in Callers PROVE
          /\ ReadOK(reader[t]) /\ reader[t].field \in Time!Fields /\ reader[t].began \in Nat
          /\ page[reader[t].field].high1 = High(reader[t].field, ticks)
          /\ page[reader[t].field].low = Low(reader[t].field, ticks)
          /\ page[reader[t].field].high2 = High(reader[t].field, ticks)
          /\ \A n \in reader[t].began..ticks : n \in Nat /\ n <= ticks
  BY DEF TimeInv, ReadOK, Time!Written, High, Low
<1>5. ASSUME NEW t \in Callers, Time!ReadHigh1(t) PROVE TimeInv'
  <2> DEFINE h == High(reader[t].field, ticks)
             r == [at |-> "low", field |-> reader[t].field, high1 |-> h, low |-> reader[t].low,
                   began |-> reader[t].began, result |-> 0]
  <2>1. h \in Nat /\ page[reader[t].field].high1 = h
    BY <1>4, WordsOfATime DEF TimeInv
  <2>2. ReadTo(t, r) /\ UNCHANGED <<ticks, page>>
    BY <1>5, <2>1 DEF Time!ReadHigh1, Time!Goto, TimeInv, ReadTo
  <2>3. ticks \in reader[t].began..ticks /\ h = High(reader[t].field, ticks)
    BY <1>4 DEF TimeInv, ReadOK, ReadTo
  <2> HIDE DEF h
  <2>4. ReadOK(r)
    BY <1>4, <2>1, <2>3 DEF ReadOK
  <2> HIDE DEF r
  <2>5. QED
    BY <2>2, <2>4, OtherReads
<1>6. ASSUME NEW t \in Callers, Time!ReadLow(t) PROVE TimeInv'
  <2> DEFINE l == Low(reader[t].field, ticks)
             r == [at |-> "high2", field |-> reader[t].field, high1 |-> reader[t].high1,
                   low |-> l, began |-> reader[t].began, result |-> 0]
  <2>1. l \in Nat /\ page[reader[t].field].low = l
    BY <1>4, WordsOfATime DEF TimeInv
  <2>2. ReadTo(t, r) /\ UNCHANGED <<ticks, page>>
    BY <1>6, <2>1 DEF Time!ReadLow, Time!Goto, TimeInv, ReadTo
  <2>3. PICK m \in reader[t].began..ticks : reader[t].high1 = High(reader[t].field, m)
    BY <1>4, <1>6 DEF ReadOK, Time!ReadLow
  <2>4. m <= ticks /\ ticks \in reader[t].began..ticks /\ l = Low(reader[t].field, ticks)
    BY <1>4, <2>3 DEF TimeInv, ReadOK, ReadTo
  <2> HIDE DEF l
  <2>5. ReadOK(r)
    BY <1>4, <2>1, <2>3, <2>4 DEF ReadOK
  <2> HIDE DEF r
  <2>6. QED
    BY <2>2, <2>5, OtherReads
<1>7. ASSUME NEW t \in Callers, Time!ReadHigh2(t) PROVE TimeInv'
  <2> DEFINE o == reader[t]
             v == o.high1 * WORD + o.low
             r == [at |-> "done", field |-> o.field, high1 |-> o.high1, low |-> o.low,
                   began |-> o.began, result |-> v]
             s == [at |-> "high1", field |-> o.field, high1 |-> o.high1, low |-> o.low,
                   began |-> o.began, result |-> 0]
  <2>1. o.at = "high2" /\ UNCHANGED <<ticks, page>> /\ ReadOK(o)
        /\ o.field \in Time!Fields /\ o.began \in Nat /\ o.high1 \in Nat /\ o.low \in Nat
        /\ page[o.field].high2 = High(o.field, ticks)
    BY <1>4, <1>7 DEF Time!ReadHigh2, ReadOK
  <2>2. CASE o.high1 = High(o.field, ticks)
    <3>1. ReadTo(t, r)
      BY <1>7, <2>1, <2>2 DEF Time!ReadHigh2, Time!Goto, TimeInv, ReadTo
    <3>2. PICK m, n \in o.began..ticks :
              m <= n /\ o.high1 = High(o.field, m) /\ o.low = Low(o.field, n)
      BY <2>1 DEF ReadOK
    <3>3. m \in Nat /\ n \in Nat /\ ticks \in Nat /\ n <= ticks
      BY <1>4, <3>2 DEF TimeInv
    <3>4. /\ High(o.field, m) <= High(o.field, n) /\ High(o.field, n) <= High(o.field, ticks)
          /\ High(o.field, m) \in Nat /\ High(o.field, n) \in Nat
      BY <2>1, <3>2, <3>3, HighMonotone, WordsOfATime
    <3>5. o.high1 = High(o.field, n)
      BY <2>2, <3>2, <3>4
    <3>6. v = n * Time!Scale(o.field)
      BY <2>1, <3>2, <3>3, <3>5, WordsOfATime
    <3>7. v \in Nat
      BY <2>1 DEF Time!TimeAssumption
    <3> HIDE DEF v
    <3>8. ReadOK(r)
      BY <1>4, <2>1, <3>2, <3>6, <3>7 DEF ReadOK
    <3> HIDE DEF r
    <3>9. QED
      BY <2>1, <3>1, <3>8, OtherReads
  <2>3. CASE o.high1 # High(o.field, ticks)
    <3>1. ReadTo(t, s)
      BY <1>7, <2>1, <2>3 DEF Time!ReadHigh2, Time!Goto, TimeInv, ReadTo
    <3>2. ReadOK(s)
      BY <2>1 DEF ReadOK
    <3> HIDE DEF s
    <3>3. QED
      BY <2>1, <3>1, <3>2, OtherReads
  <2>4. QED
    BY <2>2, <2>3
<1>8. QED
  BY <1>1, <1>2, <1>3, <1>5, <1>6, <1>7 DEF Time!Next, Time!Read

\* Whatever number of clock ticks fall between the three reads of read_ksystem_time,
\* and however often it goes round, the time that it returns is one that the clock
\* showed between its call and its return.
THEOREM TimesAreNotTorn ==
    ASSUME Time!TimeAssumption
    PROVE  TimeSafe => []Time!ReadIsATime
<1>1. TimeInv => Time!ReadIsATime
  BY DEF TimeInv, ReadOK, Time!ReadIsATime
<1>2. QED
  BY <1>1, TimeInit, TimeNext, PTL DEF TimeSafe

\* The types of the words: a time stays below WORD * WORD.
TimeTypes ==
    /\ ticks \in 0..MaxTicks
    /\ \A t \in Callers : reader[t].high1 \in 0..(WORD - 1) /\ reader[t].low \in 0..(WORD - 1)

LEMMA WordsFit ==
    ASSUME Time!TimeAssumption, NEW f \in Time!Fields, NEW n \in 0..MaxTicks
    PROVE  High(f, n) \in 0..(WORD - 1) /\ Low(f, n) \in 0..(WORD - 1)
<1>1. /\ WORD \in Nat \ {0, 1} /\ HUNDRED_NS_PER_TICK \in Nat \ {0} /\ MaxTicks \in Nat
      /\ MaxTicks * HUNDRED_NS_PER_TICK < WORD * WORD
  BY DEF Time!TimeAssumption
<1>2. PICK s : s = Time!Scale(f)
  OBVIOUS
<1>3. s \in 1..HUNDRED_NS_PER_TICK
  BY <1>1, <1>2 DEF Time!Scale
<1>4. PICK a : a = n * s
  OBVIOUS
<1>5. a \in Nat /\ a < WORD * WORD
  <2>1. n * s \in Nat /\ n * s <= MaxTicks * s
    BY <1>1, <1>3, MulMonotone
  <2>2. s * MaxTicks <= HUNDRED_NS_PER_TICK * MaxTicks
    BY <1>1, <1>3, MulMonotone
  <2>3. MaxTicks * s = s * MaxTicks /\ MaxTicks * HUNDRED_NS_PER_TICK = HUNDRED_NS_PER_TICK * MaxTicks
    BY <1>1, <1>3
  <2>4. PICK x \in Int, y \in Int, z \in Int :
           x = MaxTicks * s /\ y = MaxTicks * HUNDRED_NS_PER_TICK /\ z = WORD * WORD
    BY <1>1, <1>3
  <2>5. a \in Nat /\ a <= x /\ x <= y /\ y < z
    BY <1>1, <1>4, <2>1, <2>2, <2>3, <2>4
  <2>6. a < z
    BY <2>5
  <2>7. QED
    BY <2>4, <2>5, <2>6
<1>6. PICK q, m : q = a \div WORD /\ m = a % WORD
  OBVIOUS
<1>7. q \in Nat /\ m \in 0..(WORD - 1) /\ a = q * WORD + m
  BY <1>1, <1>5, <1>6, Division
<1>8. q < WORD
  <2>1. SUFFICES ASSUME WORD <= q PROVE FALSE
    BY <1>1, <1>7
  <2>2. WORD * WORD <= q * WORD
    BY <1>1, <1>7, <2>1, MulMonotone
  <2>3. PICK x \in Int, y \in Int : x = q * WORD /\ y = WORD * WORD
    BY <1>1, <1>7
  <2>4. QED
    BY <1>5, <1>7, <2>2, <2>3
<1>9. QED
  BY <1>1, <1>2, <1>4, <1>6, <1>7, <1>8 DEF High, Low

LEMMA TimeTypesNext ==
    ASSUME Time!TimeAssumption, TimeInv, TimeTypes, [Time!Next]_(Time!vars)
    PROVE  TimeTypes'
<1>1. /\ WORD \in Nat \ {0, 1} /\ MaxTicks \in Nat
  BY DEF Time!TimeAssumption
<1>2. CASE UNCHANGED Time!vars
  BY <1>2 DEF Time!vars, TimeTypes
<1>3. CASE Time!KeUpdateSharedData
  BY <1>1, <1>3 DEF Time!KeUpdateSharedData, TimeTypes
<1>4. ASSUME NEW t \in Callers, NEW r, UNCHANGED ticks, ReadTo(t, r),
             r.high1 \in 0..(WORD - 1), r.low \in 0..(WORD - 1)
      PROVE  TimeTypes'
  BY <1>4 DEF ReadTo, TimeTypes
<1>5. 0 \in 0..(WORD - 1)
  BY <1>1
<1>6. ASSUME NEW t \in Callers, NEW f \in Time!Fields, Time!Call(t, f) PROVE TimeTypes'
  <2>1. PICK r : r = [at |-> "high1", field |-> f, high1 |-> 0, low |-> 0, began |-> ticks,
                      result |-> 0]
    OBVIOUS
  <2>2. ReadTo(t, r) /\ UNCHANGED ticks
    BY <1>6, <2>1 DEF Time!Call, ReadTo, TimeInv
  <2>3. r.high1 = 0 /\ r.low = 0
    BY <2>1
  <2>4. QED
    BY <1>4, <1>5, <2>2, <2>3
<1>7. ASSUME NEW t \in Callers, Time!Read(t) PROVE TimeTypes'
  <2>1. /\ reader[t].field \in Time!Fields /\ ticks \in 0..MaxTicks
        /\ reader[t].high1 \in 0..(WORD - 1) /\ reader[t].low \in 0..(WORD - 1)
    BY DEF TimeInv, ReadOK, TimeTypes
  <2>2. /\ page[reader[t].field].high1 \in 0..(WORD - 1)
        /\ page[reader[t].field].low \in 0..(WORD - 1)
    <3>1. /\ page[reader[t].field].high1 = High(reader[t].field, ticks)
          /\ page[reader[t].field].low = Low(reader[t].field, ticks)
      BY <2>1 DEF TimeInv, Time!Written, High, Low
    <3>2. QED
      BY <2>1, <3>1, WordsFit
  <2>3. ASSUME NEW at, NEW h \in 0..(WORD - 1), NEW l \in 0..(WORD - 1), NEW n,
               Time!Goto(t, at, h, l, n), UNCHANGED ticks
        PROVE  TimeTypes'
    <3>1. PICK r : r = [at |-> at, field |-> reader[t].field, high1 |-> h, low |-> l,
                        began |-> reader[t].began, result |-> n]
      OBVIOUS
    <3>2. ReadTo(t, r)
      BY <2>3, <3>1 DEF Time!Goto, ReadTo, TimeInv
    <3>3. r.high1 = h /\ r.low = l
      BY <3>1
    <3>4. QED
      BY <1>4, <2>3, <3>2, <3>3
  <2>4. CASE Time!ReadHigh1(t)
    BY <2>1, <2>2, <2>3, <2>4 DEF Time!ReadHigh1
  <2>5. CASE Time!ReadLow(t)
    BY <2>1, <2>2, <2>3, <2>5 DEF Time!ReadLow
  <2>6. CASE Time!ReadHigh2(t)
    BY <2>1, <2>3, <2>6 DEF Time!ReadHigh2
  <2>7. QED
    BY <1>7, <2>4, <2>5, <2>6 DEF Time!Read
<1>8. QED
  BY <1>2, <1>3, <1>6, <1>7 DEF Time!Next

\* What KeUpdateSharedData writes and read_ksystem_time reads are 32-bit words, as long as
\* the time has not wrapped around.
LEMMA TimeTyped == ASSUME Time!TimeAssumption PROVE TimeSafe => []Time!TypeOK
<1>1. Time!Init => TimeInv /\ TimeTypes
  <2>1. Time!Init => TimeTypes
    BY DEF Time!Init, TimeTypes, Time!Idle, Time!TimeAssumption
  <2>2. QED
    BY <2>1, TimeInit
<1>2. TimeInv /\ TimeTypes /\ [Time!Next]_(Time!vars) => (TimeInv /\ TimeTypes)'
  BY TimeNext, TimeTypesNext
<1>3. TimeInv /\ TimeTypes => Time!TypeOK
  <2> SUFFICES ASSUME TimeInv, TimeTypes PROVE Time!TypeOK
    OBVIOUS
  <2>1. page \in [Time!Fields -> [high1 : 0..(WORD - 1), low : 0..(WORD - 1), high2 : 0..(WORD - 1)]]
    <3>1. page = [f \in Time!Fields |-> [high1 |-> High(f, ticks), low |-> Low(f, ticks),
                                         high2 |-> High(f, ticks)]]
      BY DEF TimeInv, Time!Written, High, Low
    <3>2. ticks \in 0..MaxTicks
      BY DEF TimeTypes
    <3>3. ASSUME NEW f \in Time!Fields
          PROVE  High(f, ticks) \in 0..(WORD - 1) /\ Low(f, ticks) \in 0..(WORD - 1)
      BY <3>2, WordsFit
    <3>4. QED
      BY <3>1, <3>3
  <2>2. ASSUME NEW t \in Callers
        PROVE  /\ reader[t].at \in {"idle", "high1", "low", "high2", "done"}
               /\ reader[t].field \in Time!Fields /\ reader[t].began \in 0..ticks
    <3>1. ReadOK(reader[t]) /\ ticks \in Nat
      BY DEF TimeInv
    <3>2. QED
      BY <3>1 DEF ReadOK
  <2>3. QED
    BY <2>1, <2>2 DEF TimeTypes, Time!TypeOK
<1>4. QED
  BY <1>1, <1>2, <1>3, PTL DEF TimeSafe

-----------------------------------------------------------------------------
(* Slim reader/writer locks *)

InK32(t) == t \in K32Threads /\ srwpc[t] \in {"inX", "inS"}

SlimTypes ==
    /\ srw \in [{"k32", "rtl"} -> 0..(SRW - 1)]
    /\ srwpc \in [Slim!Threads -> Slim!Asking \cup {"idle", "cas", "inX", "inS"}]
    /\ seen \in [Slim!Threads -> 0..(SRW - 1)]

\* kernel32's word is 0 only while nobody has the lock.
K32OK ==
    /\ srw["k32"] = 0 => \A t \in K32Threads : ~InK32(t)
    /\ \A t, u \in K32Threads : InK32(t) /\ InK32(u) => t = u

\* While ntdll's word is even it counts the readers and there is no writer.  A writer
\* that spins makes it odd for good if readers have the lock; nobody gets in then.
RtlOK ==
    /\ \A t \in Slim!Threads : srwpc[t] = "cas" => seen[t] % 2 = 0
    /\ srw["rtl"] % 2 = 0 =>
          Slim!Writers("rtl") = {} /\ srw["rtl"] = 2 * Cardinality(Slim!Readers("rtl"))
    /\ \A t, u \in Slim!Writers("rtl") : t = u
    /\ Slim!Writers("rtl") # {} => Slim!Readers("rtl") = {}

SlimInv == SlimTypes /\ K32OK /\ RtlOK

\* The word of ntdll's lock as readers come and go.
LEMMA Parity ==
    ASSUME NEW W \in Nat, W % 2 = 0, W > 2, NEW w \in 0..(W - 1)
    PROVE  /\ (w + W - 2) % W \in 0..(W - 1)
           /\ (w + 2) % W \in 0..(W - 1)
           /\ w % 2 # 0 => ((w + W - 2) % W) % 2 # 0
           /\ w >= 2 => (w + W - 2) % W = w - 2
           /\ w + 2 < W => (w + 2) % W = w + 2
  OBVIOUS

\* The operators of FiniteSets are the same seen through the instance.
LEMMA SameFinite == \A S : Slim!IsFiniteSet(S) <=> IsFiniteSet(S)
  BY DEF Slim!IsFiniteSet, IsFiniteSet

LEMMA SameCardinality == \A S : Slim!Cardinality(S) = Cardinality(S)
  BY DEF Slim!Cardinality, Cardinality

LEMMA WordIsLarge ==
    ASSUME Slim!SRWLockAssumption
    PROVE  /\ SRW \in Nat /\ SRW % 2 = 0 /\ SRW > 2 * Cardinality(Slim!Threads) + 1 /\ SRW > 1
           /\ Cardinality(Slim!Threads) \in Nat /\ IsFiniteSet(Slim!Threads)
<1>1. IsFiniteSet(Slim!Threads)
  BY SameFinite DEF Slim!SRWLockAssumption
<1>2. Cardinality(Slim!Threads) \in Nat
  BY <1>1, FS_CardinalityType
<1>3. SRW \in Nat /\ SRW % 2 = 0 /\ SRW > 2 * Cardinality(Slim!Threads) + 1
  BY SameCardinality DEF Slim!SRWLockAssumption
<1>4. QED
  BY <1>1, <1>2, <1>3

LEMMA SlimInit == ASSUME Slim!SRWLockAssumption PROVE Slim!Init => SlimInv
<1> SUFFICES ASSUME Slim!Init PROVE SlimInv
  OBVIOUS
<1>1. SRW \in Nat /\ SRW > 0
  BY WordIsLarge
<1>2. Slim!Writers("rtl") = {} /\ Slim!Readers("rtl") = {}
  BY DEF Slim!Init, Slim!Writers, Slim!Readers
<1>3. srw["rtl"] = 2 * Cardinality(Slim!Readers("rtl"))
  BY <1>2, FS_EmptySet DEF Slim!Init
<1>4. SlimTypes /\ K32OK
  BY <1>1 DEF Slim!Init, SlimTypes, K32OK, InK32, Slim!Threads
<1>5. RtlOK
  BY <1>2, <1>3 DEF RtlOK, Slim!Init
<1>6. QED
  BY <1>4, <1>5 DEF SlimInv

\* A step of t to s, with the words srw' after it.
SlimMove(t, s) ==
    /\ srwpc' = [srwpc EXCEPT ![t] = s]
    /\ s \in Slim!Asking \cup {"idle", "cas", "inX", "inS"}

\* What a move of t means to the sets of writers and readers.
LEMMA MoveSets ==
    ASSUME SlimTypes, NEW t \in Slim!Threads, NEW s, SlimMove(t, s)
    PROVE  /\ srwpc' \in [Slim!Threads -> Slim!Asking \cup {"idle", "cas", "inX", "inS"}]
           /\ \A u \in Slim!Threads : srwpc'[u] = IF u = t THEN s ELSE srwpc[u]
           /\ Slim!Writers("rtl")' =
                (Slim!Writers("rtl") \ {t}) \cup
                   (IF Slim!Lib(t) = "rtl" /\ s = "inX" THEN {t} ELSE {})
           /\ Slim!Readers("rtl")' =
                (Slim!Readers("rtl") \ {t}) \cup
                   (IF Slim!Lib(t) = "rtl" /\ s = "inS" THEN {t} ELSE {})
<1>1. /\ srwpc' \in [Slim!Threads -> Slim!Asking \cup {"idle", "cas", "inX", "inS"}]
      /\ \A u \in Slim!Threads : srwpc'[u] = IF u = t THEN s ELSE srwpc[u]
  BY DEF SlimTypes, SlimMove
<1>2. \A u \in Slim!Threads :
         u \in Slim!Writers("rtl")' <=>
           IF u = t THEN Slim!Lib(t) = "rtl" /\ s = "inX" ELSE u \in Slim!Writers("rtl")
  BY <1>1 DEF Slim!Writers
<1>3. \A u \in Slim!Threads :
         u \in Slim!Readers("rtl")' <=>
           IF u = t THEN Slim!Lib(t) = "rtl" /\ s = "inS" ELSE u \in Slim!Readers("rtl")
  BY <1>1 DEF Slim!Readers
<1>4. /\ Slim!Writers("rtl") \subseteq Slim!Threads /\ Slim!Writers("rtl")' \subseteq Slim!Threads
      /\ Slim!Readers("rtl") \subseteq Slim!Threads /\ Slim!Readers("rtl")' \subseteq Slim!Threads
  BY DEF Slim!Writers, Slim!Readers
<1>5. QED
  BY <1>1, <1>2, <1>3, <1>4

\* A user of one library's lock is not one of the other's.
LEMMA Libraries ==
    ASSUME Slim!SRWLockAssumption
    PROVE  /\ \A t \in K32Threads : t \in Slim!Threads /\ Slim!Lib(t) = "k32"
           /\ \A t \in RtlWriters \cup RtlReaders :
                 t \in Slim!Threads /\ Slim!Lib(t) = "rtl" /\ t \notin K32Threads
  BY DEF Slim!SRWLockAssumption, Slim!Lib, Slim!Threads

\* A step of t that asks, looks or gives up touches neither word and keeps who is in.
LEMMA SlimOutside ==
    ASSUME Slim!SRWLockAssumption, SlimInv, NEW t \in Slim!Threads,
           NEW s \in Slim!Asking \cup {"idle", "cas"}, SlimMove(t, s),
           srwpc[t] \notin {"inX", "inS"}, srw' = srw,
           seen' \in [Slim!Threads -> 0..(SRW - 1)],
           \A u \in Slim!Threads : srwpc'[u] = "cas" => seen'[u] % 2 = 0
    PROVE  SlimInv'
<1> USE DEF SlimInv
<1>1. s # "inX" /\ s # "inS"
  BY DEF Slim!Asking
<1>2. /\ Slim!Writers("rtl")' = Slim!Writers("rtl") /\ Slim!Readers("rtl")' = Slim!Readers("rtl")
  BY <1>1, MoveSets DEF Slim!Writers, Slim!Readers
<1>3. \A u \in K32Threads : InK32(u)' <=> InK32(u)
  BY <1>1, MoveSets, Libraries DEF InK32
<1>4. SlimTypes' /\ K32OK'
  BY <1>3, MoveSets DEF SlimTypes, K32OK
<1>5. RtlOK'
  BY <1>2 DEF RtlOK
<1>6. QED
  BY <1>4, <1>5

\* A step on kernel32's lock: its word says whether somebody has it.
LEMMA SlimK32 ==
    ASSUME Slim!SRWLockAssumption, SlimInv, NEW t \in K32Threads, NEW s,
           SlimMove(t, s), s # "cas", UNCHANGED seen,
           \/ srw["k32"] = 0 /\ srw' = [srw EXCEPT !["k32"] = 1]
           \/ InK32(t) /\ srw' = [srw EXCEPT !["k32"] = 0] /\ s = "idle"
    PROVE  SlimInv'
<1> USE DEF SlimInv
<1>0. t \in Slim!Threads /\ Slim!Lib(t) = "k32" /\ SRW \in Nat /\ SRW > 1
  BY Libraries, WordIsLarge
<1>1. \A u \in Slim!Threads : srwpc'[u] = IF u = t THEN s ELSE srwpc[u]
  BY <1>0, MoveSets
<1>2. Slim!Writers("rtl")' = Slim!Writers("rtl") /\ Slim!Readers("rtl")' = Slim!Readers("rtl")
  BY <1>0, MoveSets DEF Slim!Writers, Slim!Readers
<1>3. \A u \in K32Threads : u # t => (InK32(u)' <=> InK32(u))
  BY <1>1, Libraries DEF InK32
<1>4. srw' \in [{"k32", "rtl"} -> 0..(SRW - 1)] /\ srw'["rtl"] = srw["rtl"]
  BY <1>0 DEF SlimTypes
<1>5. SlimTypes'
  BY <1>0, <1>4, MoveSets DEF SlimTypes
<1>6. K32OK'
  <2>1. CASE srw["k32"] = 0 /\ srw' = [srw EXCEPT !["k32"] = 1]
    BY <2>1, <1>3 DEF K32OK, SlimTypes
  <2>2. CASE InK32(t) /\ srw' = [srw EXCEPT !["k32"] = 0] /\ s = "idle"
    <3>1. ~InK32(t)'
      BY <1>0, <1>1, <2>2 DEF InK32
    <3>2. QED
      BY <2>2, <3>1, <1>3 DEF K32OK
  <2>3. QED
    BY <2>1, <2>2
<1>7. RtlOK'
  BY <1>0, <1>1, <1>2, <1>4 DEF RtlOK
<1>8. QED
  BY <1>5, <1>6, <1>7

\* A step on ntdll's lock leaves kernel32's alone.
LEMMA SlimRtl ==
    ASSUME Slim!SRWLockAssumption, SlimInv, NEW t \in RtlWriters \cup RtlReaders, NEW s,
           SlimMove(t, s), s # "cas", UNCHANGED seen,
           NEW w \in 0..(SRW - 1), srw' = [srw EXCEPT !["rtl"] = w],
           w % 2 = 0 =>
             Slim!Writers("rtl")' = {} /\ w = 2 * Cardinality(Slim!Readers("rtl")'),
           \A u, v \in Slim!Writers("rtl")' : u = v,
           Slim!Writers("rtl")' # {} => Slim!Readers("rtl")' = {}
    PROVE  SlimInv'
<1> USE DEF SlimInv
<1>0. t \in Slim!Threads /\ t \notin K32Threads
  BY Libraries
<1>1. \A u \in Slim!Threads : srwpc'[u] = IF u = t THEN s ELSE srwpc[u]
  BY <1>0, MoveSets
<1>2. srw' \in [{"k32", "rtl"} -> 0..(SRW - 1)] /\ srw'["rtl"] = w /\ srw'["k32"] = srw["k32"]
  BY DEF SlimTypes
<1>3. SlimTypes'
  BY <1>0, <1>2, MoveSets DEF SlimTypes
<1>4. \A u \in K32Threads : InK32(u)' <=> InK32(u)
  BY <1>0, <1>1, Libraries DEF InK32
<1>5. K32OK'
  BY <1>2, <1>4 DEF K32OK
<1>6. RtlOK'
  BY <1>1, <1>2 DEF RtlOK
<1>7. QED
  BY <1>3, <1>5, <1>6

LEMMA SlimNext ==
    ASSUME Slim!SRWLockAssumption PROVE SlimInv /\ [Slim!Next]_(Slim!vars) => SlimInv'
<1> SUFFICES ASSUME SlimInv, [Slim!Next]_(Slim!vars) PROVE SlimInv'
  OBVIOUS
<1> DEFINE R == Slim!Readers("rtl")
           Wr == Slim!Writers("rtl")
<1>0. /\ SRW \in Nat /\ SRW % 2 = 0 /\ SRW > 2 * Cardinality(Slim!Threads) + 1
      /\ Cardinality(Slim!Threads) \in Nat /\ IsFiniteSet(Slim!Threads)
      /\ R \subseteq Slim!Threads /\ IsFiniteSet(R) /\ Cardinality(R) \in Nat
      /\ srw["rtl"] \in 0..(SRW - 1)
  <2>1. R \subseteq Slim!Threads
    BY DEF Slim!Readers
  <2>2. IsFiniteSet(R)
    BY <2>1, WordIsLarge, FS_Subset
  <2>3. Cardinality(R) \in Nat
    BY <2>2, FS_CardinalityType
  <2>4. srw["rtl"] \in 0..(SRW - 1)
    BY DEF SlimInv, SlimTypes
  <2>5. QED
    BY <2>1, <2>2, <2>3, <2>4, WordIsLarge
<1>1. CASE UNCHANGED Slim!vars
  BY <1>1 DEF Slim!vars, SlimInv, SlimTypes, K32OK, RtlOK, InK32, Slim!Writers, Slim!Readers
<1>2. ASSUME NEW t \in Slim!Threads, Slim!Request(t) PROVE SlimInv'
  <2>1. PICK s \in Slim!Asking : SlimMove(t, s)
    BY <1>2 DEF Slim!Request, Slim!Goto, Slim!Asking, SlimMove
  <2>2. s # "cas" /\ srw' = srw /\ seen' = seen /\ srwpc[t] = "idle"
    BY <1>2 DEF Slim!Request, Slim!Asking
  <2>3. \A u \in Slim!Threads : srwpc'[u] = "cas" => seen'[u] % 2 = 0
    BY <2>1, <2>2, MoveSets DEF SlimInv, RtlOK
  <2>4. QED
    BY <2>1, <2>2, <2>3, SlimOutside DEF SlimInv, SlimTypes
<1>3. ASSUME NEW t \in Slim!Threads, Slim!TryFails(t) PROVE SlimInv'
  <2>1. SlimMove(t, "idle") /\ srw' = srw /\ seen' = seen /\ srwpc[t] \notin {"inX", "inS"}
    BY <1>3 DEF Slim!TryFails, Slim!Goto, SlimMove
  <2>2. \A u \in Slim!Threads : srwpc'[u] = "cas" => seen'[u] % 2 = 0
    BY <2>1, MoveSets DEF SlimInv, RtlOK
  <2>3. QED
    BY <2>1, <2>2, SlimOutside DEF SlimInv, SlimTypes
<1>4. ASSUME NEW t \in Slim!Threads, Slim!srw_acquire(t) PROVE SlimInv'
  <2>1. PICK s \in {"inX", "inS"} : SlimMove(t, s)
    BY <1>4 DEF Slim!srw_acquire, Slim!Goto, SlimMove
  <2>2. QED
    BY <1>4, <2>1, SlimK32 DEF Slim!srw_acquire
<1>5. ASSUME NEW t \in Slim!Threads, Slim!srw_release(t) PROVE SlimInv'
  <2>1. SlimMove(t, "idle") /\ InK32(t)
    BY <1>5 DEF Slim!srw_release, Slim!Goto, SlimMove, InK32
  <2>2. QED
    BY <1>5, <2>1, SlimK32 DEF Slim!srw_release
<1>6. ASSUME NEW t \in Slim!Threads, Slim!RtlAcquireSRWLockExclusive(t) PROVE SlimInv'
  <2> DEFINE s == IF srw["rtl"] = 0 THEN "inX" ELSE "excl"
  <2>1. SlimMove(t, s) /\ s # "cas" /\ t \in RtlWriters /\ srwpc[t] = "excl"
    BY <1>6 DEF Slim!RtlAcquireSRWLockExclusive, Slim!Goto, SlimMove, Slim!Asking
  <2>0. /\ srw' = [srw EXCEPT !["rtl"] = 1] /\ UNCHANGED seen
        /\ 1 \in 0..(SRW - 1) /\ 1 % 2 # 0
    BY <1>0, <1>6 DEF Slim!RtlAcquireSRWLockExclusive
  <2>2. /\ t \notin Wr /\ t \notin R /\ Slim!Lib(t) = "rtl"
    BY <2>1, Libraries DEF Slim!Writers, Slim!Readers
  <2>3. CASE srw["rtl"] = 0
    <3>1. Wr = {} /\ Cardinality(R) = 0
      BY <1>0, <2>3 DEF SlimInv, RtlOK
    <3>2. R = {}
      BY <1>0, <3>1, FS_EmptySet
    <3>3. s = "inX"
      BY <2>3
    <3>4. Slim!Writers("rtl")' = {t} /\ Slim!Readers("rtl")' = {}
      <4> HIDE DEF s
      <4> QED BY <2>1, <2>2, <3>1, <3>2, <3>3, MoveSets DEF SlimInv
    <3>5. QED
      <4> HIDE DEF s
      <4> QED
        BY <2>0, <2>1, <3>4, SlimRtl
  <2>4. CASE srw["rtl"] # 0
    <3>1. s = "excl"
      BY <2>4
    <3>2. Slim!Writers("rtl")' = Wr /\ Slim!Readers("rtl")' = R
      <4> HIDE DEF s
      <4> QED BY <2>1, <2>2, <3>1, MoveSets DEF SlimInv
    <3>3. \A u, v \in Wr : u = v
      BY DEF SlimInv, RtlOK
    <3>4. (\A u, v \in Slim!Writers("rtl")' : u = v)
            /\ (Slim!Writers("rtl")' # {} => Slim!Readers("rtl")' = {})
      BY <3>2, <3>3 DEF SlimInv, RtlOK
    <3>5. QED
      <4> HIDE DEF s
      <4> QED
        BY <2>0, <2>1, <3>2, <3>4, SlimRtl
  <2>5. QED
    BY <2>3, <2>4
<1>7. ASSUME NEW t \in Slim!Threads, Slim!RtlReleaseSRWLockExclusive(t) PROVE SlimInv'
  <2>1. SlimMove(t, "idle") /\ t \in RtlWriters /\ srwpc[t] = "inX"
    BY <1>7 DEF Slim!RtlReleaseSRWLockExclusive, Slim!Goto, SlimMove
  <2>2. t \in Wr
    BY <2>1, Libraries DEF Slim!Writers
  <2>3. Wr = {t} /\ R = {}
    BY <2>2 DEF SlimInv, RtlOK
  <2>4. Slim!Writers("rtl")' = {} /\ Slim!Readers("rtl")' = {}
    BY <2>1, <2>3, MoveSets DEF SlimInv
  <2>5. srw' = [srw EXCEPT !["rtl"] = 0] /\ UNCHANGED seen /\ 0 \in 0..(SRW - 1)
    BY <1>0, <1>7 DEF Slim!RtlReleaseSRWLockExclusive
  <2>6. Cardinality(Slim!Readers("rtl")') = 0
    BY <2>4, FS_EmptySet
  <2>7. /\ \A u, v \in Slim!Writers("rtl")' : u = v
        /\ 0 = 2 * Cardinality(Slim!Readers("rtl")')
    BY <2>4, <2>6
  <2>8. QED
    BY <2>1, <2>4, <2>5, <2>7, SlimRtl
<1>8. ASSUME NEW t \in Slim!Threads, Slim!RtlAcquireSRWLockShared(t) PROVE SlimInv'
  <2>1. SlimMove(t, "cas") /\ srw' = srw /\ srwpc[t] = "shared" /\ srw["rtl"] % 2 = 0
    BY <1>8 DEF Slim!RtlAcquireSRWLockShared, Slim!Goto, SlimMove
  <2>2. /\ seen' \in [Slim!Threads -> 0..(SRW - 1)]
        /\ \A u \in Slim!Threads : seen'[u] = IF u = t THEN srw["rtl"] ELSE seen[u]
    BY <1>0, <1>8 DEF Slim!RtlAcquireSRWLockShared, SlimInv, SlimTypes
  <2>3. \A u \in Slim!Threads : srwpc'[u] = "cas" => seen'[u] % 2 = 0
    BY <2>1, <2>2, MoveSets DEF SlimInv, RtlOK
  <2>4. QED
    BY <2>1, <2>2, <2>3, SlimOutside
<1>9. ASSUME NEW t \in Slim!Threads, Slim!SharedSwap(t) PROVE SlimInv'
  <2>1. t \in RtlReaders /\ srwpc[t] = "cas" /\ seen' = seen
    BY <1>9 DEF Slim!SharedSwap
  <2>2. CASE srw["rtl"] # seen[t]
    <3>1. SlimMove(t, "shared") /\ srw' = srw
      BY <1>9, <2>2 DEF Slim!SharedSwap, Slim!Goto, SlimMove, Slim!Asking
    <3>2. \A u \in Slim!Threads : srwpc'[u] = "cas" => seen'[u] % 2 = 0
      BY <2>1, <3>1, MoveSets DEF SlimInv, RtlOK
    <3>3. QED
      BY <2>1, <3>1, <3>2, SlimOutside DEF SlimInv, SlimTypes, Slim!Asking
  <2>3. CASE srw["rtl"] = seen[t]
    <3>1. SlimMove(t, "inS") /\ srw' = [srw EXCEPT !["rtl"] = (srw["rtl"] + 2) % SRW]
      BY <1>9, <2>3 DEF Slim!SharedSwap, Slim!Goto, SlimMove
    <3>2. Wr = {} /\ srw["rtl"] = 2 * Cardinality(R)
      BY <2>1, <2>3 DEF SlimInv, RtlOK
    <3>3. t \notin R /\ Slim!Lib(t) = "rtl"
      BY <2>1, Libraries DEF Slim!Readers
    <3>4. Slim!Writers("rtl")' = {} /\ Slim!Readers("rtl")' = R \cup {t}
      BY <3>1, <3>2, <3>3, MoveSets DEF SlimInv
    <3>5. Cardinality(R \cup {t}) = Cardinality(R) + 1
      BY <1>0, <3>3, FS_AddElement
    <3>6. Cardinality(R \cup {t}) <= Cardinality(Slim!Threads)
      BY <1>0, FS_Subset
    <3>7. srw["rtl"] + 2 < SRW /\ SRW > 2
      BY <1>0, <3>2, <3>5, <3>6
    <3>8. (srw["rtl"] + 2) % SRW = 2 * Cardinality(R \cup {t})
      BY <1>0, <3>2, <3>5, <3>7, Parity
    <3>9. (srw["rtl"] + 2) % SRW \in 0..(SRW - 1)
      BY <1>0, <3>7, Parity
    <3> HIDE DEF R, Wr
    <3>10. QED
      BY <2>1, <3>1, <3>4, <3>8, <3>9, SlimRtl
  <2>4. QED
    BY <2>2, <2>3
<1>10. ASSUME NEW t \in Slim!Threads, Slim!RtlReleaseSRWLockShared(t) PROVE SlimInv'
  <2> DEFINE w == (srw["rtl"] + SRW - 2) % SRW
  <2>1. SlimMove(t, "idle") /\ t \in RtlReaders /\ srwpc[t] = "inS"
    BY <1>10 DEF Slim!RtlReleaseSRWLockShared, Slim!Goto, SlimMove
  <2>2. t \in R
    BY <2>1, Libraries DEF Slim!Readers
  <2>3. Wr = {}
    BY <2>2 DEF SlimInv, RtlOK
  <2>4. Slim!Writers("rtl")' = {} /\ Slim!Readers("rtl")' = R \ {t}
    BY <2>1, <2>3, MoveSets DEF SlimInv
  <2>5. Cardinality(R \ {t}) = Cardinality(R) - 1 /\ Cardinality(R \ {t}) \in Nat
    BY <1>0, <2>2, FS_RemoveElement, FS_CardinalityType
  <2>6. Cardinality(R) <= Cardinality(Slim!Threads) /\ SRW > 2
    BY <1>0, <2>5, FS_Subset
  <2>7. /\ w \in 0..(SRW - 1) /\ (srw["rtl"] % 2 # 0 => w % 2 # 0)
        /\ srw["rtl"] >= 2 => w = srw["rtl"] - 2
    BY <1>0, <2>6, Parity
  <2> HIDE DEF w
  <2>8. w % 2 = 0 => w = 2 * Cardinality(R \ {t})
    <3> SUFFICES ASSUME w % 2 = 0 PROVE w = 2 * Cardinality(R \ {t})
      OBVIOUS
    <3>1. srw["rtl"] = 2 * Cardinality(R)
      BY <1>0, <2>7 DEF SlimInv, RtlOK
    <3>2. QED
      BY <1>0, <2>5, <2>7, <3>1
  <2>9. srw' = [srw EXCEPT !["rtl"] = w] /\ UNCHANGED seen
    BY <1>10 DEF Slim!RtlReleaseSRWLockShared, w
  <2> HIDE DEF R, Wr
  <2>10. QED
    BY <2>1, <2>4, <2>7, <2>8, <2>9, SlimRtl
<1>11. QED
  BY <1>1, <1>2, <1>3, <1>4, <1>5, <1>6, <1>7, <1>8, <1>9, <1>10
     DEF Slim!Next, Slim!Acquire, Slim!Release

\* Whoever has a reader/writer lock exclusively is alone, and in kernel32 a reader is
\* too: also where readers and writers mix, when a writer of ntdll spoils the count of
\* readers (RtlAcquireSRWLockExclusive), nobody gets in who should not.
THEOREM SlimLocksExclude ==
    ASSUME Slim!SRWLockAssumption
    PROVE  SlimSafe => []Slim!Exclusion
<1>1. SlimInv => Slim!Exclusion
  <2> SUFFICES ASSUME SlimInv PROVE Slim!Exclusion
    OBVIOUS
  <2> DEFINE K == Slim!Writers("k32") \cup Slim!Readers("k32")
             N == Slim!Writers("rtl") \cup Slim!Readers("rtl")
  <2>1. \A t, u \in K : t = u
    BY DEF SlimInv, K32OK, InK32, Slim!Writers, Slim!Readers, Slim!Lib
  <2>2. K = {} \/ \E t : K = {t}
    BY <2>1
  <2>3. Slim!Writers("rtl") # {} => \E t : N = {t}
    BY DEF SlimInv, RtlOK
  <2>4. \A t : Cardinality({t}) = 1
    BY FS_Singleton
  <2>5. Cardinality({}) = 0
    BY FS_EmptySet
  <2>6. Cardinality(K) <= 1 /\ (K # {} => Cardinality(K) = 1)
    BY <2>2, <2>4, <2>5
  <2>7. Slim!Writers("rtl") # {} => Cardinality(N) = 1
    BY <2>3, <2>4
  <2>8. \A l \in {"k32", "rtl"} : Slim!Writers(l) # {} =>
           Cardinality(Slim!Writers(l) \cup Slim!Readers(l)) = 1
    <3>1. Slim!Writers("k32") # {} => Cardinality(K) = 1
      BY <2>6
    <3>2. QED
      BY <2>7, <3>1
  <2>9. QED
    BY <2>6, <2>8, SameCardinality DEF Slim!Exclusion
<1>2. QED
  BY <1>1, SlimInit, SlimNext, PTL DEF SlimSafe

\* The words of the locks as the library writes them: 0 or 1 in kernel32, and even in
\* ntdll as long as no writer comes.
WordsOK == srw["k32"] \in {0, 1} /\ (RtlWriters = {} => srw["rtl"] % 2 = 0)

LEMMA EvenWords ==
    ASSUME NEW W \in Nat, W % 2 = 0, W > 2, NEW w \in 0..(W - 1), w % 2 = 0
    PROVE  ((w + 2) % W) % 2 = 0 /\ ((w + W - 2) % W) % 2 = 0
<1>1. w + 2 < W \/ w + 2 = W
  OBVIOUS
<1>2. w = 0 \/ w >= 2
  OBVIOUS
<1>3. (w + 2) % W = w + 2 \/ (w + 2) % W = 0
  BY <1>1
<1>4. (w + W - 2) % W = W - 2 \/ (w + W - 2) % W = w - 2
  BY <1>2
<1>5. QED
  BY <1>3, <1>4

LEMMA WordsNext ==
    ASSUME Slim!SRWLockAssumption, SlimInv, WordsOK, [Slim!Next]_(Slim!vars)
    PROVE  WordsOK'
<1>1. SRW \in Nat /\ SRW % 2 = 0
  BY WordIsLarge
<1>2. srw["rtl"] \in 0..(SRW - 1) /\ DOMAIN srw = {"k32", "rtl"}
  BY DEF SlimInv, SlimTypes
<1>3. CASE UNCHANGED srw
  BY <1>3 DEF WordsOK
<1>4. ASSUME NEW w \in {0, 1}, srw' = [srw EXCEPT !["k32"] = w] PROVE WordsOK'
  BY <1>2, <1>4 DEF WordsOK
<1>5. ASSUME NEW t \in RtlWriters, srw' = [srw EXCEPT !["rtl"] = srw'["rtl"]] PROVE WordsOK'
  BY <1>2, <1>5 DEF WordsOK
<1>6. ASSUME NEW t \in RtlReaders, Slim!SharedSwap(t) \/ Slim!RtlReleaseSRWLockShared(t)
      PROVE  WordsOK'
  <2>1. CASE UNCHANGED srw
    BY <1>3, <2>1
  <2>2. PICK w : /\ w \in {(srw["rtl"] + 2) % SRW, (srw["rtl"] + SRW - 2) % SRW}
                 /\ srw' = [srw EXCEPT !["rtl"] = w] \/ UNCHANGED srw
    BY <1>6 DEF Slim!SharedSwap, Slim!RtlReleaseSRWLockShared
  <2>3. SRW > 2
    <3>1. t \in Slim!Threads
      BY DEF Slim!Threads
    <3>2. Cardinality(Slim!Threads) # 0
      BY <3>1, WordIsLarge, FS_EmptySet
    <3>3. QED
      BY <3>2, WordIsLarge
  <2>4. srw["rtl"] % 2 = 0 => w % 2 = 0
    BY <1>1, <1>2, <2>2, <2>3, EvenWords
  <2>5. srw' = [srw EXCEPT !["rtl"] = w] => srw'["rtl"] = w /\ srw'["k32"] = srw["k32"]
    BY <1>2
  <2>6. QED
    BY <2>1, <2>2, <2>4, <2>5 DEF WordsOK
<1>7. ASSUME NEW t \in Slim!Threads, Slim!srw_acquire(t) \/ Slim!srw_release(t) PROVE WordsOK'
  BY <1>4, <1>7 DEF Slim!srw_acquire, Slim!srw_release
<1>8. ASSUME NEW t \in Slim!Threads,
             Slim!RtlAcquireSRWLockExclusive(t) \/ Slim!RtlReleaseSRWLockExclusive(t)
      PROVE  WordsOK'
  <2>1. t \in RtlWriters /\ srw' = [srw EXCEPT !["rtl"] = srw'["rtl"]]
    BY <1>2, <1>8 DEF Slim!RtlAcquireSRWLockExclusive, Slim!RtlReleaseSRWLockExclusive
  <2>2. QED
    BY <1>5, <2>1
<1>9. ASSUME NEW t \in Slim!Threads,
             Slim!Request(t) \/ Slim!TryFails(t) \/ Slim!RtlAcquireSRWLockShared(t)
      PROVE  WordsOK'
  BY <1>3, <1>9 DEF Slim!Request, Slim!TryFails, Slim!RtlAcquireSRWLockShared
<1>10. \A t : Slim!SharedSwap(t) \/ Slim!RtlReleaseSRWLockShared(t) => t \in RtlReaders
  BY DEF Slim!SharedSwap, Slim!RtlReleaseSRWLockShared
<1>11. CASE Slim!Next
  BY <1>6, <1>7, <1>8, <1>9, <1>10, <1>11 DEF Slim!Next, Slim!Acquire, Slim!Release
<1>12. QED
  BY <1>3, <1>11 DEF Slim!vars

-----------------------------------------------------------------------------
(* ntdll's lock with writers alone *)

AloneSafe == Alone!Init /\ [][Alone!Next]_(Alone!vars)

\* The word is 0 only while nobody has the lock.
AloneInv ==
    /\ xpc \in [Slim!Threads -> {"idle", "excl", "inX"}] /\ DOMAIN xword = {"k32", "rtl"}
    /\ xword["rtl"] = 0 => \A t \in Slim!Threads : xpc[t] # "inX"
    /\ \A t, u \in Slim!Threads : xpc[t] = "inX" /\ xpc[u] = "inX" => t = u

LEMMA AloneNext == AloneInv /\ [Alone!Next]_(Alone!vars) => AloneInv'
<1> SUFFICES ASSUME AloneInv, [Alone!Next]_(Alone!vars) PROVE AloneInv'
  OBVIOUS
<1>1. CASE UNCHANGED Alone!vars
  BY <1>1 DEF AloneInv, Alone!vars
<1>2. ASSUME NEW t \in Slim!Threads, Alone!Request(t) PROVE AloneInv'
  <2>1. xpc' = [xpc EXCEPT ![t] = "excl"] /\ xword' = xword
    BY <1>2 DEF Alone!Request, Alone!Goto
  <2>2. QED
    BY <2>1 DEF AloneInv
<1>3. ASSUME NEW t \in Slim!Threads, Alone!RtlAcquireSRWLockExclusive(t) PROVE AloneInv'
  <2>1. /\ xpc' = [xpc EXCEPT ![t] = IF xword["rtl"] = 0 THEN "inX" ELSE "excl"]
        /\ xpc[t] = "excl" /\ xword' = [xword EXCEPT !["rtl"] = 1]
    BY <1>3 DEF Alone!RtlAcquireSRWLockExclusive, Alone!Goto
  <2>2. DOMAIN xword' = {"k32", "rtl"} /\ xword'["rtl"] # 0
    BY <2>1 DEF AloneInv
  <2>3. QED
    BY <2>1, <2>2 DEF AloneInv
<1>4. ASSUME NEW t \in Slim!Threads, Alone!RtlReleaseSRWLockExclusive(t) PROVE AloneInv'
  <2>1. /\ xpc' = [xpc EXCEPT ![t] = "idle"] /\ xpc[t] = "inX"
        /\ xword' = [xword EXCEPT !["rtl"] = 0]
    BY <1>4 DEF Alone!RtlReleaseSRWLockExclusive, Alone!Goto
  <2>2. \A u \in Slim!Threads : xpc'[u] # "inX"
    BY <2>1 DEF AloneInv
  <2>3. QED
    BY <2>1, <2>2 DEF AloneInv
<1>5. ASSUME NEW t \in Slim!Threads, Alone!TryFails(t) PROVE FALSE
  BY <1>5 DEF Alone!TryFails, AloneInv
<1>6. \A t : /\ ~Alone!srw_acquire(t) /\ ~Alone!srw_release(t)
             /\ ~Alone!RtlAcquireSRWLockShared(t) /\ ~Alone!SharedSwap(t)
             /\ ~Alone!RtlReleaseSRWLockShared(t)
  BY DEF Alone!srw_acquire, Alone!srw_release, Alone!RtlAcquireSRWLockShared,
         Alone!SharedSwap, Alone!RtlReleaseSRWLockShared
<1>7. QED
  BY <1>1, <1>2, <1>3, <1>4, <1>5, <1>6
     DEF Alone!Next, Alone!Threads, Alone!Acquire, Alone!Release

LEMMA AloneCardinality == \A S : Alone!Cardinality(S) = Cardinality(S)
  BY DEF Alone!Cardinality, Cardinality

LEMMA WritersExclude == AloneSafe => []Alone!Exclusion
<1>1. Alone!Init => AloneInv
  BY DEF Alone!Init, Alone!Threads, AloneInv
<1>2. AloneInv => Alone!Exclusion
  <2> SUFFICES ASSUME AloneInv PROVE Alone!Exclusion
    OBVIOUS
  <2> DEFINE N == Alone!Writers("rtl") \cup Alone!Readers("rtl")
  <2>1. Alone!Writers("k32") = {} /\ Alone!Readers("k32") = {}
    BY DEF Alone!Writers, Alone!Readers, Alone!Lib
  <2>2. \A t, u \in N : t = u
    BY DEF AloneInv, Alone!Writers, Alone!Readers, Alone!Threads
  <2>3. Alone!Writers("rtl") # {} => \E t : N = {t}
    BY <2>2
  <2>4. Cardinality({}) = 0 /\ \A t : Cardinality({t}) = 1
    BY FS_EmptySet, FS_Singleton
  <2>5. Alone!Writers("rtl") # {} => Cardinality(N) = 1
    BY <2>3, <2>4
  <2>6. QED
    BY <2>1, <2>4, <2>5, AloneCardinality DEF Alone!Exclusion
<1>3. QED
  BY <1>1, <1>2, AloneNext, PTL DEF AloneSafe

-----------------------------------------------------------------------------
(* The parts side by side *)

LEMMA AlignedSteps == ASSUME Aligned!Next PROVE Once!Next
<1>1. PICK t \in OnceThreads : Aligned!Begin(t) \/ Aligned!CheckOnly(t) \/ Aligned!Step(t)
  BY DEF Aligned!Next
<1>2. Aligned!Begin(t) => Once!Begin(t)
  BY DEF Aligned!Begin, Once!Begin, Aligned!Goto, Once!Goto
<1>3. Aligned!CheckOnly(t) => Once!CheckOnly(t)
  BY DEF Aligned!CheckOnly, Once!CheckOnly, Aligned!Goto, Once!Goto
<1>4. Aligned!InitOnceBeginInitialize(t) => Once!InitOnceBeginInitialize(t)
  BY DEF Aligned!InitOnceBeginInitialize, Once!InitOnceBeginInitialize, Aligned!Goto, Once!Goto
<1>5. Aligned!Claim(t) => Once!Claim(t)
  BY DEF Aligned!Claim, Once!Claim, Aligned!Goto, Once!Goto
<1>6. Aligned!InitFailed(t) => Once!InitFailed(t)
  BY DEF Aligned!InitFailed, Once!InitFailed, Aligned!Goto, Once!Goto
<1>7. ASSUME NEW ctx \in Contexts \ Misaligned,
             Aligned!InitOnceComplete(t, ctx) \/ Aligned!CompleteRefused(t, ctx)
      PROVE  ctx \in Contexts /\ Once!InitOnceComplete(t, ctx)
  BY <1>7 DEF Aligned!InitOnceComplete, Aligned!CompleteRefused, Once!InitOnceComplete,
              Aligned!Goto, Once!Goto
<1>8. QED
  BY <1>1, <1>2, <1>3, <1>4, <1>5, <1>6, <1>7 DEF Aligned!Step, Once!Step, Once!Next

\* A step of the whole is a step of one lock, or leaves it alone.
LEMMA LockSteps ==
    ASSUME [Next]_vars
    PROVE  /\ [CS!Next]_(CS!vars) /\ [Slim!Next]_(Slim!vars) /\ [Once!Next]_(Once!vars)
           /\ [Heap!Next]_(Heap!vars) /\ [Alone!Next]_(Alone!vars)
<1> USE DEF heap, section, rw, alone, initonce
<1>1. CASE UNCHANGED locks
  BY <1>1 DEF locks, CS!vars, Slim!vars, Once!vars, Heap!vars, Alone!vars
<1>2. CASE Locks
  <2>1. CS!Next \/ UNCHANGED CS!vars
    BY <1>2 DEF Locks, CS!vars
  <2>2. Slim!Next \/ UNCHANGED Slim!vars
    BY <1>2 DEF Locks, Slim!vars
  <2>3. Once!Next \/ UNCHANGED Once!vars
    BY <1>2, AlignedSteps DEF Locks, Once!vars
  <2>4. Heap!Next \/ UNCHANGED Heap!vars
    BY <1>2 DEF Locks, Heap!vars
  <2>5. Alone!Next \/ UNCHANGED Alone!vars
    BY <1>2 DEF Locks, Alone!vars
  <2>6. QED
    BY <2>1, <2>2, <2>3, <2>4, <2>5
<1>3. QED
  BY <1>1, <1>2 DEF Next, vars

LEMMA LocksRun == Spec => CSSafe /\ SlimSafe /\ AloneSafe /\ OnceSafe
<1>1. Init => CS!Init /\ Slim!Init /\ Alone!Init /\ Once!Init
  BY DEF Init
<1>2. QED
  BY <1>1, LockSteps, PTL DEF Spec, CSSafe, SlimSafe, AloneSafe, OnceSafe

\* The locks of ring 3 side by side, for any number of threads: one thread at a time is
\* inside a critical section (EnterCriticalSection), a lock held exclusively (srw_acquire,
\* RtlAcquireSRWLockShared, RtlAcquireSRWLockExclusive) or an initialization
\* (InitOnceExecuteOnce).
THEOREM LocksAlwaysExclude == Spec => []LocksExclude
<1> USE SyncAssumption
<1>1. CSSafe => []CS!TypeOK
  <2>1. CSInv => CS!TypeOK
    BY DEF CSInv
  <2>2. QED
    BY <2>1, CSInit, CSNext, PTL DEF CSSafe
<1>2. OnceSafe => []Once!TypeOK
  <2>1. OnceInv => Once!TypeOK
    BY DEF OnceInv
  <2>2. QED
    BY <2>1, OnceInit, OnceNext, PTL DEF OnceSafe
<1>3. SlimSafe => [](Slim!TypeOK /\ (RtlWriters = {} => Slim!ReadersCounted))
  <2>1. Slim!Init => SlimInv /\ WordsOK
    BY SlimInit DEF Slim!Init, WordsOK
  <2>2. SlimInv /\ WordsOK /\ [Slim!Next]_(Slim!vars) => (SlimInv /\ WordsOK)'
    BY SlimNext, WordsNext
  <2>3. SlimInv /\ WordsOK => Slim!TypeOK
    BY DEF SlimInv, SlimTypes, WordsOK, Slim!TypeOK
  <2>4. SlimInv /\ WordsOK => (RtlWriters = {} => Slim!ReadersCounted)
    BY SameCardinality DEF SlimInv, RtlOK, WordsOK, Slim!ReadersCounted
  <2>5. QED
    BY <2>1, <2>2, <2>3, <2>4, PTL DEF SlimSafe
<1>4. QED
  BY <1>1, <1>2, <1>3, SectionsExclude, OwnersAreInside, SlimLocksExclude, WritersExclude,
     InitializedAtMostOnce, EverybodyGetsOneContext, LocksRun, PTL DEF LocksExclude
=============================================================================
