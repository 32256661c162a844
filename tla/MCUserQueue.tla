----------------------------- MODULE MCUserQueue -----------------------------
(***************************************************************************)
(* UserQueue with two threads, in two parts.  In "windows" one message is  *)
(* posted, so that what counts is whether a queue is empty or a window     *)
(* wants painting; in "rings" no window is created and two messages are    *)
(* posted, so that their order shows across the wrap-around of three cells.*)
(***************************************************************************)
EXTENDS UserQueue, FiniteSets

VARIABLE part

OneMessage == INSTANCE UserQueue WITH Messages <- {CHOOSE m \in Messages : TRUE}
NoWindows == INSTANCE UserQueue WITH MaxWindows <- 0

ASSUME Cardinality(Messages) = 2 /\ MaxWindows > 0

MCInit == part \in {"windows", "rings"} /\ Init

MCNext ==
    /\ UNCHANGED part
    /\ \/ part = "windows" /\ OneMessage!Next
       \/ part = "rings" /\ NoWindows!Next

MCSpec == MCInit /\ [][MCNext]_<<part, vars>> /\ Fairness
=============================================================================
