--------------------------- MODULE PriorityQueue ----------------------------
(***************************************************************************)
(* What min_queue.h promises its caller: a collection of pointers, the     *)
(* smallest of which is at its head.                                       *)
(***************************************************************************)
EXTENDS Integers

CONSTANTS
  Pointers, \* what can be queued
  Cle       \* the key the queue's cmp compares: Cle[a] > Cle[b]

VARIABLE contenu

Init == contenu = {}

(* No other pointer queued is strictly smaller.                             *)
Least(p) == \A q \in contenu : Cle[p] <= Cle[q]

Push(p) == p \notin contenu /\ contenu' = contenu \cup {p}

Pop(p) == p \in contenu /\ Least(p) /\ contenu' = contenu \ {p}

Next == \E p \in Pointers : Push(p) \/ Pop(p)

Spec == Init /\ [][Next]_contenu
=============================================================================
