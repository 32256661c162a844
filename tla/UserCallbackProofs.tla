------------------------- MODULE UserCallbackProofs -------------------------
(***************************************************************************)
(* Proofs about UserCallback, for any threads and any sizes of the two     *)
(* resources a callback consumes.                                          *)
(***************************************************************************)
EXTENDS UserCallback, TLAPS

Chain == [continue : Continuations, orig : Frames, rsp : Stacks, thunk : 0..StubSlots]

\* A thread outside a chain is on its own stack and waits for nothing.  Inside one
\* it is on the stack it claimed, which nobody else has; the one frame it owes
\* an answer to is on its own stack.
ChainsOK ==
    /\ \A t \in Threads : ~CallbackActive(t) => frame[t][1] = 0 /\ awaiting[t] = <<>>
    /\ \A t \in Threads : CallbackActive(t) =>
          /\ chain[t].rsp \in 1..g_callback_stack_next
          /\ frame[t][1] = chain[t].rsp
          /\ chain[t].orig[1] = 0
          /\ awaiting[t] = <<chain[t].orig>>
    /\ \A t, u \in Threads :
          CallbackActive(t) /\ CallbackActive(u) /\ chain[t].rsp = chain[u].rsp => t = u

\* Whatever was put into the arena lies below the cursor, and a thunk in use lies
\* above the guard stubs, apart from every other thunk and stub.
ArenaOK ==
    /\ \A s \in code \cup data : s < g_stub_next
    /\ \A t \in Threads : CallbackActive(t) =>
          /\ chain[t].thunk >= 2
          /\ chain[t].thunk + ThunkSlots <= g_stub_next
          /\ \A s \in code \cup data :
                s < chain[t].thunk \/ s >= chain[t].thunk + ThunkSlots
    /\ \A t, u \in Threads : CallbackActive(t) /\ CallbackActive(u) /\ t # u =>
          \/ chain[t].thunk + ThunkSlots <= chain[u].thunk
          \/ chain[u].thunk + ThunkSlots <= chain[t].thunk

\* The inductive invariant.
IInv == TypeOK /\ ChainsOK /\ ArenaOK

USE UserCallbackAssumption

LEMMA InitIInv == Init => IInv
<1> SUFFICES ASSUME Init PROVE IInv
  OBVIOUS
<1> USE DEF Init, Idle, NoFrame, GuardStubs
<1>1. TypeOK
  BY DEF TypeOK, Frames, Stacks, Continuations
<1>2. \A t \in Threads : ~CallbackActive(t)
  BY DEF CallbackActive
<1>3. ChainsOK
  BY <1>2 DEF ChainsOK
<1>4. ArenaOK
  BY <1>2 DEF ArenaOK
<1> QED
  BY <1>1, <1>3, <1>4 DEF IInv

\* A step that leaves the chain, the stack and the waiting frame of every thread
\* alone keeps both parts, as long as what it adds to the arena is at the cursor,
\* or at slot 0.
LEMMA ArenaStep ==
    ASSUME IInv, UNCHANGED <<chain, awaiting, g_callback_stack_next>>,
           g_stub_next' \in g_stub_next..StubSlots,
           frame' \in [Threads -> Frames], \A t \in Threads : frame'[t][1] = frame[t][1],
           user' \in [Threads -> Frames], intact' \in [Threads -> BOOLEAN],
           code' \subseteq 0..(StubSlots - 1), data' \subseteq 0..(StubSlots - 1),
           \A s \in (code' \cup data') \ (code \cup data) :
              s = 0 \/ (s = g_stub_next /\ s < g_stub_next')
    PROVE  IInv'
<1>1. /\ \A t \in Threads : CallbackActive(t)' <=> CallbackActive(t)
      /\ g_stub_next \in 2..StubSlots /\ g_stub_next' \in 2..StubSlots
      /\ code \subseteq Nat /\ data \subseteq Nat /\ code' \subseteq Nat /\ data' \subseteq Nat
      /\ \A t \in Threads : chain[t].thunk \in Nat
  BY DEF CallbackActive, IInv, TypeOK
<1>2. TypeOK'
  BY <1>1 DEF IInv, TypeOK
<1>3. ChainsOK'
  BY <1>1 DEF IInv, ChainsOK
<1>4. ArenaOK'
  <2>1. \A s \in (code \cup data)' : s < g_stub_next'
    BY <1>1 DEF IInv, ArenaOK
  <2>2. ASSUME NEW t \in Threads, CallbackActive(t)'
        PROVE  /\ chain'[t].thunk >= 2
               /\ chain'[t].thunk + ThunkSlots <= g_stub_next'
               /\ \A s \in (code \cup data)' :
                     s < chain'[t].thunk \/ s >= chain'[t].thunk + ThunkSlots
    <3>1. /\ chain[t].thunk >= 2
          /\ chain[t].thunk + ThunkSlots <= g_stub_next
          /\ \A s \in code \cup data :
                s < chain[t].thunk \/ s >= chain[t].thunk + ThunkSlots
      BY <1>1, <2>2 DEF IInv, ArenaOK
    <3>2. QED
      BY <1>1, <3>1
  <2>3. QED
    BY <1>1, <2>1, <2>2 DEF IInv, ArenaOK
<1>5. QED
  BY <1>2, <1>3, <1>4 DEF IInv

\* KiStartUserCallback, called by a service whose CREATESTRUCTW has moved the cursor
\* of the arena to next.
LEMMA StartStep ==
    ASSUME IInv, NEW t \in Threads, NEW continue \in Continuations \ {"none"},
           NEW next \in g_stub_next..StubSlots, NEW memory \in BOOLEAN,
           Enter(t), KiStartUserCallback(t, continue, next, memory)
    PROVE  IInv'
<1>1. /\ g_stub_next \in 2..StubSlots /\ next \in 2..StubSlots
      /\ g_callback_stack_next \in Stacks /\ frame[t] \in Frames
      /\ user' = [user EXCEPT ![t] = frame[t]] /\ user' \in [Threads -> Frames]
      /\ UNCHANGED <<intact, code, data>>
      /\ chain \in [Threads -> Chain] /\ frame \in [Threads -> Frames]
      /\ code \subseteq 0..(StubSlots - 1) /\ data \subseteq 0..(StubSlots - 1)
  BY DEF IInv, TypeOK, Enter, KiStartUserCallback, Chain
<1> DEFINE stacks == g_callback_stack_next < CALLBACK_STACK_SLOTS
           starts == ~CallbackActive(t) /\ Fits(next, ThunkSlots) /\ stacks /\ memory
<1>2. CASE ~starts
  <2>1. /\ UNCHANGED <<chain, frame, awaiting>>
        /\ g_stub_next' \in next..StubSlots
        /\ g_callback_stack_next' \in g_callback_stack_next..CALLBACK_STACK_SLOTS
    BY <1>1, <1>2 DEF KiStartUserCallback, AfterThunk, Fits, KiClaimCallbackStack, Stacks
  <2>2. /\ \A u \in Threads : CallbackActive(u)' <=> CallbackActive(u)
        /\ g_stub_next' \in 2..StubSlots /\ g_stub_next <= g_stub_next'
        /\ g_callback_stack_next' \in Stacks
        /\ code \subseteq Nat /\ data \subseteq Nat
        /\ \A u \in Threads : chain[u].thunk \in Nat /\ chain[u].rsp \in Nat
    BY <1>1, <2>1 DEF CallbackActive, Stacks, Chain
  <2>3. TypeOK'
    BY <1>1, <2>1, <2>2 DEF IInv, TypeOK
  <2>4. ChainsOK'
    BY <1>1, <2>1, <2>2 DEF IInv, ChainsOK, Stacks
  <2>5. ArenaOK'
    BY <1>1, <2>1, <2>2 DEF IInv, ArenaOK
  <2>6. QED
    BY <2>3, <2>4, <2>5 DEF IInv
<1>3. CASE starts
  <2> DEFINE stack == g_callback_stack_next + 1
             new == [continue |-> continue, orig |-> frame[t], rsp |-> stack, thunk |-> next]
  <2>1. /\ g_stub_next' = next + ThunkSlots
        /\ g_callback_stack_next' = stack
        /\ chain' = [chain EXCEPT ![t] = new]
        /\ frame' = [frame EXCEPT ![t] = <<stack, "here">>]
        /\ awaiting' = [awaiting EXCEPT ![t] = Append(@, frame[t])]
    <3>1. user'[t] = frame[t]
      BY <1>1 DEF IInv, TypeOK
    <3>2. QED
      BY <1>3, <3>1 DEF KiStartUserCallback, AfterThunk, KiClaimCallbackStack, Start
  <2>2. /\ stack \in Stacks \ {0} /\ next + ThunkSlots <= StubSlots
        /\ <<stack, "here">> \in Frames /\ new \in Chain
    BY <1>1, <1>3 DEF Fits, Stacks, Frames, Chain
  <2>3. /\ new.continue = continue /\ new.rsp = stack /\ new.orig = frame[t]
        /\ new.thunk = next
    OBVIOUS
  <2> HIDE DEF new, stack
  <2>4. /\ CallbackActive(t)' /\ ~CallbackActive(t)
        /\ \A u \in Threads \ {t} : CallbackActive(u)' <=> CallbackActive(u)
        /\ chain'[t] = new /\ \A u \in Threads \ {t} : chain'[u] = chain[u]
        /\ frame'[t] = <<stack, "here">> /\ \A u \in Threads \ {t} : frame'[u] = frame[u]
    BY <1>1, <1>3, <2>1, <2>3 DEF CallbackActive
  <2>5. TypeOK'
    BY <1>1, <2>1, <2>2 DEF IInv, TypeOK, Stacks, Chain
  <2>6. ChainsOK'
    <3>1. /\ frame[t][1] = 0 /\ awaiting[t] = <<>>
      BY <2>4 DEF IInv, ChainsOK
    <3>2. awaiting'[t] = <<frame[t]>> /\ \A u \in Threads \ {t} : awaiting'[u] = awaiting[u]
      BY <2>1, <3>1 DEF IInv, TypeOK
    <3>3. \A u \in Threads : CallbackActive(u) => chain[u].rsp # stack
      BY <1>1, <2>2 DEF IInv, ChainsOK, stack, Stacks
    <3>4. QED
      BY <1>1, <2>1, <2>2, <2>3, <2>4, <3>1, <3>2, <3>3 DEF IInv, ChainsOK, stack, Stacks
  <2>7. ArenaOK'
    <3>1. \A u \in Threads : chain[u].thunk \in Nat
      BY <1>1 DEF Chain
    <3>2. QED
      BY <1>1, <2>1, <2>2, <2>3, <2>4, <3>1 DEF IInv, ArenaOK
  <2>8. QED
    BY <2>5, <2>6, <2>7 DEF IInv
<1>4. QED
  BY <1>2, <1>3

\* The window procedure of t has answered: the chain goes on, or it ends.
LEMMA ReturnStep ==
    ASSUME IInv, NEW t \in Threads, NEW accepted \in BOOLEAN, NtCallbackReturn(t, accepted)
    PROVE  IInv'
<1>1. /\ CallbackActive(t)
      /\ user' \in [Threads -> Frames]
      /\ UNCHANGED <<g_callback_stack_next, code, data>>
      /\ chain \in [Threads -> Chain] /\ frame \in [Threads -> Frames]
      /\ awaiting \in [Threads -> Seq(Frames)] /\ intact \in [Threads -> BOOLEAN]
      /\ g_stub_next \in 2..StubSlots /\ g_callback_stack_next \in Stacks
      /\ code \subseteq 0..(StubSlots - 1) /\ data \subseteq 0..(StubSlots - 1)
      /\ \A u \in Threads : chain[u].thunk \in Nat
  BY DEF IInv, TypeOK, Enter, NtCallbackReturn, Chain
<1>2. CASE chain[t].continue = "NCCREATE" /\ accepted /\ Fits(g_stub_next, ThunkSlots)
  <2> DEFINE new == [continue |-> "WMCREATE", orig |-> chain[t].orig, rsp |-> chain[t].rsp,
                     thunk |-> g_stub_next]
  <2>1. /\ g_stub_next' = g_stub_next + ThunkSlots /\ g_stub_next' \in 2..StubSlots
        /\ chain' = [chain EXCEPT ![t] = new]
        /\ frame' = [frame EXCEPT ![t] = <<chain[t].rsp, "here">>]
        /\ UNCHANGED <<awaiting, intact>>
    BY <1>1, <1>2 DEF NtCallbackReturn, AfterThunk, Fits, Chain
  <2>2. /\ new \in Chain /\ new.continue = "WMCREATE" /\ new.thunk = g_stub_next
        /\ new.rsp = chain[t].rsp /\ new.orig = chain[t].orig
        /\ <<chain[t].rsp, "here">> \in Frames
    BY <1>1 DEF Chain, Continuations, Frames
  <2> HIDE DEF new
  <2>3. /\ CallbackActive(t)' /\ chain'[t] = new
        /\ \A u \in Threads \ {t} : chain'[u] = chain[u]
        /\ \A u \in Threads : CallbackActive(u)' <=> CallbackActive(u)
        /\ frame'[t][1] = chain[t].rsp /\ \A u \in Threads \ {t} : frame'[u] = frame[u]
    BY <1>1, <2>1, <2>2 DEF CallbackActive
  <2>4. TypeOK'
    BY <1>1, <2>1, <2>2 DEF IInv, TypeOK, Chain
  <2>5. ChainsOK'
    BY <1>1, <2>1, <2>2, <2>3 DEF IInv, ChainsOK
  <2>6. ArenaOK'
    BY <1>1, <2>1, <2>2, <2>3 DEF IInv, ArenaOK
  <2>7. QED
    BY <2>4, <2>5, <2>6 DEF IInv
<1>3. CASE ~(chain[t].continue = "NCCREATE" /\ accepted /\ Fits(g_stub_next, ThunkSlots))
  <2>1. /\ chain' = [chain EXCEPT ![t] = Idle]
        /\ frame' = [frame EXCEPT ![t] = chain[t].orig]
        /\ awaiting' = [awaiting EXCEPT ![t] = SubSeq(@, 1, Len(@) - 1)]
        /\ intact' = [intact EXCEPT ![t] = TRUE]
        /\ UNCHANGED g_stub_next
    BY <1>3 DEF NtCallbackReturn, KiFinishCallbackToCaller
  <2>2. /\ Idle \in Chain /\ chain[t].orig \in Frames
    BY <1>1 DEF Idle, Chain, Continuations, Frames, Stacks, NoFrame
  <2>3. /\ ~CallbackActive(t)' /\ frame'[t] = chain[t].orig
        /\ \A u \in Threads \ {t} : chain'[u] = chain[u] /\ frame'[u] = frame[u]
        /\ \A u \in Threads \ {t} : CallbackActive(u)' <=> CallbackActive(u)
    BY <1>1, <2>1 DEF CallbackActive, Idle
  <2>4. /\ awaiting'[t] = <<>> /\ \A u \in Threads \ {t} : awaiting'[u] = awaiting[u]
    <3>1. awaiting[t] = <<chain[t].orig>>
      BY <1>1 DEF IInv, ChainsOK
    <3>2. SubSeq(awaiting[t], 1, Len(awaiting[t]) - 1) = <<>>
      BY <3>1
    <3>3. QED
      BY <1>1, <2>1, <3>2
  <2>5. TypeOK'
    <3>1. awaiting' \in [Threads -> Seq(Frames)]
      BY <1>1, <2>1, <2>4
    <3>2. QED
      BY <1>1, <2>1, <2>2, <3>1 DEF IInv, TypeOK, Chain
  <2>6. ChainsOK'
    BY <1>1, <2>1, <2>3, <2>4 DEF IInv, ChainsOK
  <2>7. ArenaOK'
    BY <1>1, <2>1, <2>3 DEF IInv, ArenaOK
  <2>8. QED
    BY <2>5, <2>6, <2>7 DEF IInv
<1>4. QED
  BY <1>2, <1>3

LEMMA NextIInv == IInv /\ [Next]_vars => IInv'
<1> SUFFICES ASSUME IInv, [Next]_vars PROVE IInv'
  OBVIOUS
<1>1. /\ frame \in [Threads -> Frames] /\ user \in [Threads -> Frames]
      /\ intact \in [Threads -> BOOLEAN] /\ g_stub_next \in 2..StubSlots
      /\ code \subseteq 0..(StubSlots - 1) /\ data \subseteq 0..(StubSlots - 1)
  BY DEF IInv, TypeOK
<1>2. ASSUME NEW t \in Threads, Enter(t)
      PROVE  user' \in [Threads -> Frames]
  BY <1>1, <1>2 DEF Enter
<1>3. ASSUME NEW t \in Threads, NEW memory \in BOOLEAN, SendToWindowProc(t, memory)
      PROVE  IInv'
  BY <1>1, <1>3, StartStep DEF SendToWindowProc, Continuations
<1>4. ASSUME NEW t \in Threads, NEW memory \in BOOLEAN, NtUserCreateWindowEx(t, memory)
      PROVE  IInv'
  <2> DEFINE next == IF Fits(g_stub_next, StructSlots) THEN g_stub_next + StructSlots
                                                       ELSE g_stub_next
  <2>1. next \in g_stub_next..StubSlots
    BY <1>1 DEF Fits
  <2>2. Enter(t) /\ KiStartUserCallback(t, "NCCREATE", next, memory)
    BY <1>4 DEF NtUserCreateWindowEx
  <2> HIDE DEF next
  <2>3. QED
    BY <2>1, <2>2, StartStep DEF Continuations
<1>5. ASSUME NEW t \in Threads, NEW variable \in BOOLEAN, LdrpImportStub(t, variable)
      PROVE  IInv'
  <2> DEFINE slot == IF Fits(g_stub_next, 1) THEN g_stub_next ELSE 0
  <2>1. /\ user' \in [Threads -> Frames]
        /\ UNCHANGED <<frame, chain, awaiting, g_callback_stack_next, intact>>
        /\ g_stub_next' = IF Fits(g_stub_next, 1) THEN g_stub_next + 1 ELSE g_stub_next
        /\ code' \subseteq code \cup {slot} /\ data' \subseteq data \cup {slot}
    BY <1>2, <1>5 DEF LdrpImportStub
  <2>2. /\ slot \in 0..(StubSlots - 1) /\ g_stub_next' \in g_stub_next..StubSlots
        /\ slot = 0 \/ (slot = g_stub_next /\ slot < g_stub_next')
    BY <1>1, <2>1 DEF Fits
  <2> HIDE DEF slot
  <2>3. QED
    BY <1>1, <2>1, <2>2, ArenaStep
<1>6. ASSUME NEW t \in Threads, OtherService(t)
      PROVE  IInv'
  BY <1>1, <1>2, <1>6, ArenaStep DEF OtherService
<1>7. ASSUME NEW t \in Threads, Run(t)
      PROVE  IInv'
  <2>1. /\ frame' \in [Threads -> Frames]
        /\ \A u \in Threads : frame'[u][1] = frame[u][1]
    BY <1>1, <1>7 DEF Run, Frames
  <2>2. QED
    BY <1>1, <1>7, <2>1, ArenaStep DEF Run
<1>8. ASSUME NEW t \in Threads, StrayWrite(t)
      PROVE  IInv'
  BY <1>1, <1>8, ArenaStep DEF StrayWrite
<1>9. CASE UNCHANGED vars
  BY <1>1, <1>9, ArenaStep DEF vars
<1>10. QED
  BY <1>3, <1>4, <1>5, <1>6, <1>7, <1>8, <1>9, ReturnStep DEF Next

\* In every reachable state the chains, the stacks and the arena are consistent.
THEOREM CallbackInvariant == Spec => []IInv
<1>1. QED
  BY InitIInv, NextIInv, PTL DEF Spec

\* Each callback chain has its own stack, however many threads claim one at once
\* and whether or not there is memory for it (KiClaimCallbackStack).
THEOREM StacksArePrivate == Spec => []StacksPrivate
<1>1. IInv => StacksPrivate
  <2> SUFFICES ASSUME IInv, NEW t \in Threads, CallbackActive(t)
               PROVE  /\ frame[t][1] = chain[t].rsp
                      /\ chain[t].orig[1] # chain[t].rsp
                      /\ \A u \in Threads \ {t} : frame[u][1] # chain[t].rsp
    BY DEF StacksPrivate
  <2>1. /\ chain[t].rsp \in 1..g_callback_stack_next /\ frame[t][1] = chain[t].rsp
        /\ chain[t].orig[1] = 0
    BY DEF IInv, ChainsOK
  <2>2. \A u \in Threads \ {t} : frame[u][1] # chain[t].rsp
    BY <2>1 DEF IInv, ChainsOK
  <2>3. QED
    BY <2>1, <2>2
<1>2. QED
  BY <1>1, CallbackInvariant, PTL

\* The trampoline of a callback in flight stays what it was made, also when the arena
\* runs full (LdrpBuildCallbackThunk, LdrpImportStub, KiBuildCreateStruct).
THEOREM ThunksStayIntact == Spec => []ThunksIntact
<1>1. IInv => ThunksIntact
  <2> SUFFICES ASSUME IInv, NEW t \in Threads, CallbackActive(t)
               PROVE  LET thunk == Block(chain[t].thunk, ThunkSlots)
                      IN  /\ thunk \cap (code \cup data) = {}
                          /\ \A s \in thunk : s < g_stub_next
                          /\ \A u \in Threads \ {t} : CallbackActive(u) =>
                                 thunk \cap Block(chain[u].thunk, ThunkSlots) = {}
    BY DEF ThunksIntact
  <2>1. /\ \A u \in Threads : chain[u].thunk \in Nat
        /\ g_stub_next \in Nat
        /\ code \cup data \subseteq Nat
    BY DEF IInv, TypeOK
  <2>2. Block(chain[t].thunk, ThunkSlots) \cap (code \cup data) = {}
    BY <2>1 DEF IInv, ArenaOK, Block
  <2>3. \A s \in Block(chain[t].thunk, ThunkSlots) : s < g_stub_next
    BY <2>1 DEF IInv, ArenaOK, Block
  <2>4. ASSUME NEW u \in Threads \ {t}, CallbackActive(u)
        PROVE  Block(chain[t].thunk, ThunkSlots) \cap Block(chain[u].thunk, ThunkSlots) = {}
    BY <2>1, <2>4 DEF IInv, ArenaOK, Block
  <2>5. QED
    BY <2>2, <2>3, <2>4
<1>2. QED
  BY <1>1, CallbackInvariant, PTL

\* The end of a chain resumes the call that began it, on an intact frame
\* (KiFinishCallbackToCaller).
THEOREM ChainsReturnToCaller == Spec => ReturnsToCaller
<1> DEFINE A == \A t \in Threads :
                  CallbackActive(t) /\ ~CallbackActive(t)' =>
                      awaiting[t] = <<frame'[t]>> /\ intact'[t]
<1>1. IInv /\ [Next]_vars => [A]_vars
  <2> SUFFICES ASSUME IInv, Next, NEW t \in Threads, CallbackActive(t), ~CallbackActive(t)'
               PROVE  awaiting[t] = <<frame'[t]>> /\ intact'[t]
    OBVIOUS
  <2>1. PICK u \in Threads : \E accepted \in BOOLEAN : NtCallbackReturn(u, accepted)
    BY DEF Next, SendToWindowProc, NtUserCreateWindowEx, KiStartUserCallback, Start,
           LdrpImportStub, OtherService, Run, StrayWrite, CallbackActive, IInv, TypeOK
  <2>2. PICK accepted \in BOOLEAN : NtCallbackReturn(u, accepted)
    BY <2>1
  <2>3. u = t /\ ~(/\ chain[u].continue = "NCCREATE"
                    /\ accepted /\ Fits(g_stub_next, ThunkSlots))
    BY <2>2 DEF NtCallbackReturn, CallbackActive, IInv, TypeOK
  <2>4. frame'[t] = chain[t].orig /\ intact'[t]
    BY <2>2, <2>3 DEF NtCallbackReturn, KiFinishCallbackToCaller, IInv, TypeOK
  <2>5. awaiting[t] = <<chain[t].orig>>
    BY DEF IInv, ChainsOK
  <2>6. QED
    BY <2>4, <2>5
<1>2. QED
  BY <1>1, CallbackInvariant, PTL DEF Spec, ReturnsToCaller
=============================================================================
