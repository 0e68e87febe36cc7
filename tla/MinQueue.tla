------------------------------ MODULE MinQueue ------------------------------
(***************************************************************************)
(* The binary heap of the link simulator (tools/Linksimulator, file        *)
(* min_queue.c), in which delayed datagrams wait for their expiration.     *)
(*                                                                         *)
(* The array is indexed from 0, and index 0 is its own left child under    *)
(* the macros LCHILD, RCHILD and PARENT: the root has the single child 1,  *)
(* and below it the tree is binary.                                        *)
(*                                                                         *)
(* One step is one iteration of a heapify loop.  The queue is used by one  *)
(* thread.  A pointer is pushed only when it is not queued: the simulator  *)
(* allocates one slot per datagram.                                        *)
(***************************************************************************)
EXTENDS Integers

CONSTANTS
  Pointers, \* the slots allocated by the caller
  Cle,      \* their keys
  SLOTS_PER_MALLOC

ASSUME QueueAssumption ==
  /\ Cle \in [Pointers -> Nat]
  /\ SLOTS_PER_MALLOC \in Nat \ {0}

VARIABLES
  size, alloc, \* of struct minqueue
  e,           \* its array, up to size
  pc,          \* between calls, or the loop that runs
  i,           \* insertion point of minq_push, `current' of minq_pop
  v,           \* argument of the last minq_push
  retour       \* what it returned

vars == <<size, alloc, e, pc, i, v, retour>>

LCHILD(x) == 2 * x
PARENT(x) == x \div 2

cmp(a, b) == Cle[a] > Cle[b]

Contents == {e[j] : j \in 0..size-1}

-----------------------------------------------------------------------------
(* minq_new; v has no value before the first call.                          *)
Init ==
  /\ size = 0 /\ alloc = SLOTS_PER_MALLOC /\ e = [j \in {} |-> 0]
  /\ pc = "idle" /\ i = 0 /\ v \in Pointers /\ retour = 0

FullLate == size > alloc
Full     == size = alloc

(* minq_push up to its loop.  The new last slot holds whatever was there.   *)
Push(p) ==
  /\ pc = "idle" /\ p \notin Contents
  /\ alloc' = IF Full THEN size + SLOTS_PER_MALLOC ELSE alloc
  /\ size' = size + 1
  /\ \E debris \in Pointers : e' = [j \in 0..size |-> IF j < size THEN e[j] ELSE debris]
  /\ pc' = "up" /\ i' = size /\ v' = p
  /\ UNCHANGED retour

(* realloc fails: the call returns -1 with the queue as it was.             *)
PushFails(p) ==
  /\ pc = "idle" /\ p \notin Contents /\ Full
  /\ v' = p /\ retour' = -1
  /\ UNCHANGED <<size, alloc, e, pc, i>>

Rises == i # 0 /\ cmp(e[PARENT(i)], v)

(* heapify-up: the parent moves down, or v takes the free place.            *)
Up ==
  /\ pc = "up"
  /\ \/ /\ Rises
        /\ e' = [e EXCEPT ![i] = e[PARENT(i)]]
        /\ i' = PARENT(i)
        /\ UNCHANGED <<pc, retour>>
     \/ /\ ~Rises
        /\ e' = [e EXCEPT ![i] = v]
        /\ pc' = "idle" /\ retour' = 0 /\ i' = 0
  /\ UNCHANGED <<size, alloc, v>>

PopLast ==
  /\ pc = "idle" /\ size # 0
  /\ size' = size - 1 /\ e' = [j \in 0..size-2 |-> e[j]]
  /\ pc' = "down" /\ i' = 0
  /\ UNCHANGED <<alloc, v, retour>>

(* minq_pop up to its loop.  On an empty queue it does nothing.             *)
Pop ==
  /\ pc = "idle" /\ size # 0
  /\ size' = size - 1
  /\ e' = [j \in 0..size-2 |-> IF j = 0 THEN e[size-1] ELSE e[j]]
  /\ pc' = "down" /\ i' = 0
  /\ UNCHANGED <<alloc, v, retour>>

LeftChild(x) == IF LCHILD(x) >= size THEN 0 ELSE LCHILD(x)

(* The smallest child, or 0.                                                *)
has_child(x) ==
  LET left == LCHILD(x) right == left + 1
  IN IF left >= size THEN 0
     ELSE IF right < size /\ cmp(e[left], e[right]) THEN right ELSE left

Sinks == has_child(i) # 0 /\ cmp(e[i], e[has_child(i)])

(* heapify-down: swap with the smallest child as long as it is smaller.     *)
Down ==
  /\ pc = "down"
  /\ \/ /\ Sinks
        /\ e' = [e EXCEPT ![i] = e[has_child(i)], ![has_child(i)] = e[i]]
        /\ i' = has_child(i)
        /\ UNCHANGED pc
     \/ /\ ~Sinks
        /\ pc' = "idle" /\ i' = 0
        /\ UNCHANGED e
  /\ UNCHANGED <<size, alloc, v, retour>>

Next ==
  \/ \E p \in Pointers : Push(p) \/ PushFails(p)
  \/ Up
  \/ Pop
  \/ Down

Spec == Init /\ [][Next]_vars

-----------------------------------------------------------------------------
(* The fields keep their types, no access is outside the allocated slots,   *)
(* and no loop index outside the used ones.                                 *)
TypeOK ==
  /\ size \in Nat /\ alloc \in Nat /\ size <= alloc
  /\ e \in [0..size-1 -> Pointers]
  /\ pc \in {"idle", "up", "down"}
  /\ i \in Nat /\ (pc = "up" => i < size)
  /\ (pc = "down" => i < size \/ i = 0)
  /\ v \in Pointers /\ retour \in {0, -1}

(* min_queue.c states the invariant to be maintained: no node is greater    *)
(* than its children.  It holds whenever no call is running.                *)
HeapOrder ==
  pc = "idle" => \A j \in 1..size-1 : ~cmp(e[PARENT(j)], e[j])

(* The pointers the caller has in the queue: while v rises, the place it    *)
(* will take holds a copy or garbage.                                       *)
Queued ==
  IF pc = "up" THEN {e[j] : j \in (0..size-1) \ {i}} \cup {v} ELSE Contents

PQ == INSTANCE PriorityQueue WITH contenu <- Queued

(* Every call does what min_queue.h promises: a push adds its pointer, a    *)
(* failed one changes nothing, a pop removes a pointer of least key and     *)
(* loses or duplicates no other.                                            *)
RefinesPriorityQueue == PQ!Spec
=============================================================================
