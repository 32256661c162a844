---------------------------- MODULE UserCallback ----------------------------
(***************************************************************************)
(* Kernel-to-user callbacks: how a service of kernel/ke/syscall.c runs a   *)
(* window procedure in ring 3 before it returns, and the two resources a   *)
(* callback consumes, neither ever given back: the callback stacks, and    *)
(* the stub arena of kernel/ldr/pe.c that the loader's import stubs share. *)
(*                                                                         *)
(* A service runs with interrupts masked, so an action is a service from   *)
(* its entry to its sysret; RedirectPending is set and consumed within it. *)
(* Offsets in the arena are counted in stub slots of 16 bytes.             *)
(***************************************************************************)
EXTENDS Integers, Sequences

CONSTANTS
    Threads,
    CALLBACK_STACK_SLOTS,       \* 16 in the code
    StubSlots,                  \* slots of the arena: 8191 in the code
    ThunkSlots,                 \* length of a callback thunk: 5 in the code
    StructSlots                 \* length of a CREATESTRUCTW: 6 in the code

ASSUME UserCallbackAssumption ==
    /\ CALLBACK_STACK_SLOTS \in Nat
    /\ StubSlots \in Nat /\ StubSlots >= 2
    /\ ThunkSlots \in Nat \ {0}
    /\ StructSlots \in Nat \ {0}

VARIABLES
    frame,      \* where each thread executes in ring 3: its stack and call site
    user,       \* UserRip and UserRsp: the frame of the last service entered
    chain,      \* the Callback* and Orig* fields of KTHREAD
    awaiting,   \* the frames whose service has not returned yet, outermost first
    g_callback_stack_next,
    g_stub_next,
    intact,     \* the return address on the waiting caller's stack is there
    code, data  \* arena slots that imports use as functions and as variables

vars == <<frame, user, chain, awaiting, g_callback_stack_next, g_stub_next,
          intact, code, data>>

\* A thread's own stack is 0, a callback stack has its number from 1.  Two call
\* sites are enough to tell one service call on a stack from the next.
Stacks == 0..CALLBACK_STACK_SLOTS
Frames == Stacks \X {"here", "there"}
NoFrame == <<0, "here">>

Continuations == {"none", "NCCREATE", "WMCREATE", "SIMPLE"}
Idle == [continue |-> "none", orig |-> NoFrame, rsp |-> 0, thunk |-> 0]
CallbackActive(t) == chain[t].continue # "none"

\* The slots of a block of n from the slot s.
Block(s, n) == s..(s + n - 1)

-----------------------------------------------------------------------------
(* The two resources *)

\* LdrpEnsureStubArena: the CFG guard stubs are the first two slots.
GuardStubs == {0, 1}

\* Whether n more slots fit (LdrpBuildCallbackThunk, KiBuildCreateStruct,
\* LdrpImportStub).
Fits(next, n) == next + n <= StubSlots

\* Faulty KiClaimCallbackStack: a stack is claimed and not counted.
ClaimUncounted == g_callback_stack_next

\* KiClaimCallbackStack: the counter after a claim, even one that finds no
\* memory for the stack.
KiClaimCallbackStack == g_callback_stack_next + 1

\* Faulty AfterThunk: the thunk is written and the cursor left where it was.
AfterThunkUnmoved(next) == next

\* LdrpBuildCallbackThunk: the cursor after a thunk was asked for.
AfterThunk(next) == IF Fits(next, ThunkSlots) THEN next + ThunkSlots ELSE next

-----------------------------------------------------------------------------
(* Arming a callback *)

\* Every service entry mirrors the caller's frame into the KTHREAD
\* (KiSystemCallEntry).
Enter(t) == user' = [user EXCEPT ![t] = frame[t]]

Start(t, continue, thunk) ==
    LET stack == g_callback_stack_next + 1
    IN  /\ chain' = [chain EXCEPT ![t] = [continue |-> continue, orig |-> user'[t],
                                          rsp |-> stack, thunk |-> thunk]]
        /\ frame' = [frame EXCEPT ![t] = <<stack, "here">>]
        /\ awaiting' = [awaiting EXCEPT ![t] = Append(@, frame[t])]

\* KiStartUserCallback, the arena being used up to next: the service returns into
\* a trampoline on a stack of its own.  A callback already in flight refuses at
\* once; a missing stack is noticed when the thunk is written, a page that cannot
\* be allocated (memory FALSE) when the stack is claimed.
KiStartUserCallback(t, continue, next, memory) ==
    LET stacks == g_callback_stack_next < CALLBACK_STACK_SLOTS
        thunk  == Fits(next, ThunkSlots)
    IN  /\ IF CallbackActive(t)
           THEN /\ g_stub_next' = next
                /\ UNCHANGED <<g_callback_stack_next, chain, frame, awaiting>>
           ELSE /\ g_stub_next' = AfterThunk(next)
                /\ g_callback_stack_next' = IF thunk /\ stacks THEN KiClaimCallbackStack
                                                               ELSE g_callback_stack_next
                /\ IF thunk /\ stacks /\ memory
                   THEN Start(t, continue, next)
                   ELSE UNCHANGED <<chain, frame, awaiting>>
        /\ UNCHANGED <<intact, code, data>>

\* NtUserMessageCall and NtUserDispatchMessage on a window that has a procedure
\* (KiSendToWindowProc).
SendToWindowProc(t, memory) ==
    Enter(t) /\ KiStartUserCallback(t, "SIMPLE", g_stub_next, memory)

\* NtUserCreateWindowEx of a class with a procedure.  The CREATESTRUCTW is built
\* first, and left out when it does not fit.
NtUserCreateWindowEx(t, memory) ==
    /\ Enter(t)
    /\ KiStartUserCallback(t, "NCCREATE",
          IF Fits(g_stub_next, StructSlots) THEN g_stub_next + StructSlots ELSE g_stub_next,
          memory)

-----------------------------------------------------------------------------
(* Returning from a callback *)

\* Faulty KiFinishCallbackToCaller: the chain returns to the frame of
\* the service that ends it.
FinishToLastService(t) == user'[t]

\* KiFinishCallbackToCaller: the frame the last redirect returns to.
KiFinishCallbackToCaller(t) == chain[t].orig

\* The window procedure has returned to the trampoline of its thunk.  An accepted
\* WM_NCCREATE is followed by WM_CREATE on the same stack when the thunk fits;
\* every other answer ends the chain and puts the return address back.
NtCallbackReturn(t, accepted) ==
    LET chains == /\ chain[t].continue = "NCCREATE"
                  /\ accepted
                  /\ Fits(g_stub_next, ThunkSlots)
    IN  /\ CallbackActive(t)
        /\ Enter(t)
        /\ \/ /\ chains
              /\ g_stub_next' = AfterThunk(g_stub_next)
              /\ chain' = [chain EXCEPT ![t].continue = "WMCREATE",
                                        ![t].thunk = g_stub_next]
              /\ frame' = [frame EXCEPT ![t] = <<chain[t].rsp, "here">>]
              /\ UNCHANGED <<awaiting, intact>>
           \/ /\ ~chains
              /\ chain' = [chain EXCEPT ![t] = Idle]
              /\ frame' = [frame EXCEPT ![t] = KiFinishCallbackToCaller(t)]
              /\ awaiting' = [awaiting EXCEPT ![t] = SubSeq(@, 1, Len(@) - 1)]
              /\ intact' = [intact EXCEPT ![t] = TRUE]
              /\ UNCHANGED g_stub_next
        /\ UNCHANGED <<g_callback_stack_next, code, data>>

-----------------------------------------------------------------------------
(* The loader and ring 3 *)

\* LdrpImportStub: a missing import gets a slot of its own, which the image calls
\* if it is a function and writes if it is a variable.  Out of slots, it is the
\* first one.
LdrpImportStub(t, variable) ==
    LET slot == IF Fits(g_stub_next, 1) THEN g_stub_next ELSE 0
    IN  /\ Enter(t)
        /\ g_stub_next' = IF Fits(g_stub_next, 1) THEN g_stub_next + 1 ELSE g_stub_next
        /\ code' = IF variable THEN code ELSE code \cup {slot}
        /\ data' = IF variable THEN data \cup {slot} ELSE data
        /\ UNCHANGED <<frame, chain, awaiting, g_callback_stack_next, intact>>

\* Any other service: only the mirrored frame changes.
OtherService(t) ==
    /\ Enter(t)
    /\ UNCHANGED <<frame, chain, awaiting, g_callback_stack_next, g_stub_next,
                   intact, code, data>>

\* The thread goes on to another call site on its stack.
Run(t) ==
    /\ frame' = [frame EXCEPT ![t][2] = IF @ = "here" THEN "there" ELSE "here"]
    /\ UNCHANGED <<user, chain, awaiting, g_callback_stack_next, g_stub_next,
                   intact, code, data>>

\* Ring 3 writes over the return address of a caller whose callback runs ("a
\* sibling thread's stray write").
StrayWrite(t) ==
    /\ CallbackActive(t)
    /\ intact' = [intact EXCEPT ![t] = FALSE]
    /\ UNCHANGED <<frame, user, chain, awaiting, g_callback_stack_next, g_stub_next,
                   code, data>>

-----------------------------------------------------------------------------
Init ==
    /\ frame = [t \in Threads |-> NoFrame]
    /\ user = [t \in Threads |-> NoFrame]
    /\ chain = [t \in Threads |-> Idle]
    /\ awaiting = [t \in Threads |-> <<>>]
    /\ g_callback_stack_next = 0
    /\ g_stub_next = 2
    /\ intact = [t \in Threads |-> TRUE]
    /\ code = GuardStubs
    /\ data = {}

Next ==
    \E t \in Threads :
        \/ \E memory \in BOOLEAN : \/ SendToWindowProc(t, memory)
                                   \/ NtUserCreateWindowEx(t, memory)
        \/ \E accepted \in BOOLEAN : NtCallbackReturn(t, accepted)
        \/ \E variable \in BOOLEAN : LdrpImportStub(t, variable)
        \/ OtherService(t)
        \/ Run(t)
        \/ StrayWrite(t)

Spec == Init /\ [][Next]_vars

-----------------------------------------------------------------------------
(* Properties *)

\* Type invariant.
TypeOK ==
    /\ frame \in [Threads -> Frames]
    /\ user \in [Threads -> Frames]
    /\ chain \in [Threads -> [continue : Continuations, orig : Frames,
                              rsp : Stacks, thunk : 0..StubSlots]]
    /\ awaiting \in [Threads -> Seq(Frames)]
    /\ g_callback_stack_next \in Stacks
    /\ g_stub_next \in 2..StubSlots
    /\ intact \in [Threads -> BOOLEAN]
    /\ code \subseteq 0..(StubSlots - 1)
    /\ data \subseteq 0..(StubSlots - 1)

\* "The interrupted frame is returned to exactly as it was left" (KiFinish-
\* CallbackToCaller): whatever services the window procedure called, however its
\* thread was interleaved with others and whatever they wrote over the frame, the
\* end of a chain resumes the call that began it, and leaves no other waiting.
ReturnsToCaller ==
    [][\A t \in Threads :
          CallbackActive(t) /\ ~CallbackActive(t)' =>
              awaiting[t] = <<frame'[t]>> /\ intact'[t]]_vars

\* Each callback chain has its own stack (KiClaimCallbackStack): no two threads
\* execute on the same one, and the caller that waits for a chain is not on it.
StacksPrivate ==
    \A t \in Threads : CallbackActive(t) =>
        /\ frame[t][1] = chain[t].rsp
        /\ chain[t].orig[1] # chain[t].rsp
        /\ \A u \in Threads \ {t} : frame[u][1] # chain[t].rsp

\* The trampoline a callback runs through stays what it was made (LdrpBuild-
\* CallbackThunk, LdrpImportStub): no stub, and no trampoline of another thread,
\* is put over it before the callback returns.
ThunksIntact ==
    \A t \in Threads : CallbackActive(t) =>
        LET thunk == Block(chain[t].thunk, ThunkSlots)
        IN  /\ thunk \cap (code \cup data) = {}
            /\ \A s \in thunk : s < g_stub_next
            /\ \A u \in Threads \ {t} : CallbackActive(u) =>
                   thunk \cap Block(chain[u].thunk, ThunkSlots) = {}

\* "SendMessage and DispatchMessage both have to run the target window's
\* procedure" (syscall.c:1669-1670): a thread that has no callback in flight and
\* the memory for one gets its window procedure run.
SendRunsProcedure ==
    [][\A t \in Threads :
          ~CallbackActive(t) /\ SendToWindowProc(t, TRUE) => CallbackActive(t)']_vars

\* "A slot used as data is never executed, and a slot used as code is never
\* written" (pe.c:404-405).
CodeApartFromData == code \cap data = {}
=============================================================================
