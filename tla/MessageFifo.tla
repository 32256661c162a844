----------------------------- MODULE MessageFifo -----------------------------
(***************************************************************************)
(* What the message queues of USER promise: each thread has a bounded      *)
(* first-in first-out queue; a message that finds it full is refused, none *)
(* that is accepted is lost, repeated or overtaken.                        *)
(***************************************************************************)
EXTENDS Naturals, Sequences

CONSTANTS Threads, Messages, Bound

VARIABLE q

Post(t, m) ==
    /\ Len(q[t]) < Bound
    /\ q' = [q EXCEPT ![t] = Append(@, m)]

Take(t) ==
    /\ q[t] # <<>>
    /\ q' = [q EXCEPT ![t] = Tail(@)]

Init == q = [t \in Threads |-> <<>>]
Next == \E t \in Threads : Take(t) \/ \E m \in Messages : Post(t, m)

Spec == Init /\ [][Next]_q
=============================================================================
