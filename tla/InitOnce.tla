------------------------------ MODULE InitOnce ------------------------------
(***************************************************************************)
(* One-time initialization (user/kernel32.c): InitOnceBeginInitialize,     *)
(* InitOnceComplete and InitOnceExecuteOnce on one word that is 0           *)
(* (uninitialized), 1 (in progress), 2 (done, no context) or the context.  *)
(***************************************************************************)
EXTENDS Integers, Sequences

CONSTANTS Threads,
          Contexts,     \* context pointers a callback may store; 0 is NULL
          Misaligned    \* those with one of their low two bits set

InitOnceAssumption ==
  /\ Contexts \cap {1, 2} = {} /\ 0 \in Contexts /\ Misaligned \subseteq Contexts \ {0}

VARIABLES word,    \* the INIT_ONCE
          pc,      \* pc[t]: "idle", "read", "swap", "init", "end"
          result,  \* result[t]: the context t got, as a set
          runs     \* the contexts of initializations that succeeded

vars == <<word, pc, result, runs>>

Init ==
  /\ word = 0
  /\ pc = [t \in Threads |-> "idle"]
  /\ result = [t \in Threads |-> {}]
  /\ runs = << >>

Goto(t, p) == pc' = [pc EXCEPT ![t] = p]

\* InitOnceExecuteOnce, or InitOnceBeginInitialize by hand.
Begin(t) ==
  /\ pc[t] = "idle"
  /\ Goto(t, "read")
  /\ UNCHANGED <<word, result, runs>>

\* INIT_ONCE_CHECK_ONLY on a word that is 0: pending, and nothing is claimed.
CheckOnly(t) ==
  /\ pc[t] = "read" /\ word = 0
  /\ Goto(t, "idle")
  /\ UNCHANGED <<word, result, runs>>

\* The loop reads the word: 0 is claimed next, 1 sleeps and reads again, any
\* other value is the result.
InitOnceBeginInitialize(t) ==
  /\ pc[t] = "read"
  /\ \/ /\ word = 0
        /\ Goto(t, "swap")
        /\ UNCHANGED result
     \/ /\ word \notin {0, 1}
        /\ result' = [result EXCEPT ![t] = {IF word = 2 THEN 0 ELSE word}]
        /\ Goto(t, "end")
  /\ UNCHANGED <<word, runs>>

Claim(t) ==
  /\ pc[t] = "swap"
  /\ word' = IF word = 0 THEN 1 ELSE word
  /\ Goto(t, IF word = 0 THEN "init" ELSE "read")
  /\ UNCHANGED <<result, runs>>

\* The callback succeeded with a context.
InitOnceComplete(t, ctx) ==
  /\ pc[t] = "init"
  /\ ctx \notin Misaligned
  /\ word' = IF ctx = 0 THEN 2 ELSE ctx
  /\ runs' = Append(runs, ctx)
  /\ result' = [result EXCEPT ![t] = {ctx}]
  /\ Goto(t, "end")

\* A context with its low bits set is refused; the word stays 1.
CompleteRefused(t, ctx) ==
  /\ pc[t] = "init"
  /\ ctx \in Misaligned
  /\ Goto(t, "end")
  /\ UNCHANGED <<word, result, runs>>

\* INIT_ONCE_INIT_FAILED: the next caller tries.
InitFailed(t) ==
  /\ pc[t] = "init"
  /\ word' = 0
  /\ Goto(t, "end")
  /\ UNCHANGED <<result, runs>>

Step(t) ==
  \/ InitOnceBeginInitialize(t) \/ Claim(t) \/ InitFailed(t)
  \/ \E ctx \in Contexts : InitOnceComplete(t, ctx) \/ CompleteRefused(t, ctx)

Next == \E t \in Threads : Begin(t) \/ CheckOnly(t) \/ Step(t)

Spec == Init /\ [][Next]_vars /\ \A t \in Threads : WF_vars(Step(t))
-----------------------------------------------------------------------------
TypeOK ==
  /\ word \in Contexts \cup {0, 1, 2}
  /\ result \in [Threads -> SUBSET (Contexts \cup {1, 2})]
  /\ pc \in [Threads -> {"idle", "read", "swap", "init", "end"}]
  /\ \A t \in Threads : pc[t] = "init" => word = 1

(* The callback runs in one thread at a time and succeeds at most once. *)
AtMostOnce ==
  /\ \A t, u \in Threads : pc[t] = "init" /\ pc[u] = "init" => t = u
  /\ Len(runs) <= 1

(* Whoever returns with a context returns with that of the one success. *)
SameContext == \A t \in Threads : result[t] # {} => runs # << >> /\ result[t] = {runs[1]}

(* A caller that waits for another's initialization returns: the callback's
   failure hands the word on. *)
CallersReturn == \A t \in Threads : pc[t] = "read" ~> pc[t] \in {"end", "idle"}
=============================================================================
