------------------------------ MODULE KeyStore ------------------------------
(***************************************************************************)
(* What the registry promises: a store of keys named by paths, closed under*)
(* taking the parent, that only grows, in which every key holds a partial  *)
(* function from value names to data and a call replaces one value.        *)
(***************************************************************************)
EXTENDS Sequences, Functions

CONSTANTS Names, ValueNames, Datas

VARIABLE store     \* store[path][valuename]: the data

Prefixes(p) == {SubSeq(p, 1, n) : n \in 0..Len(p)}

WellFormed(s) ==
  /\ \A p \in DOMAIN s : p \in Seq(Names) /\ Prefixes(p) \subseteq DOMAIN s
  /\ \A p \in DOMAIN s : \A v \in DOMAIN s[p] : v \in ValueNames /\ s[p][v] \in Datas

Init == WellFormed(store)

\* Keys appear below existing ones, without values.
Grow(old, new) ==
  LET added == DOMAIN new \ DOMAIN old
  IN /\ \E p \in DOMAIN new : added \subseteq Prefixes(p)
     /\ new = [q \in DOMAIN old \cup added |-> IF q \in added THEN <<>> ELSE old[q]]

\* One value of one key gets new data.
SetValue(old, new) ==
  \E p \in DOMAIN old, v \in ValueNames, d \in Datas :
    new = [old EXCEPT ![p] = [w \in DOMAIN @ \cup {v} |-> IF w = v THEN d ELSE @[w]]]

Next ==
  /\ store' # store
  /\ \/ Grow(store, store') /\ WellFormed(store')
     \/ SetValue(store, store')

Spec == Init /\ [][Next]_store
=============================================================================
