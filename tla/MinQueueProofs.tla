--------------------------- MODULE MinQueueProofs ---------------------------
(***************************************************************************)
(* The heap of min_queue.c is ordered between calls and implements         *)
(* PriorityQueue, for every set of pointers, keys and allocation step.     *)
(***************************************************************************)
EXTENDS MinQueue, WellFoundedInduction, TLAPS

(* Every loop index and every array access stays within the used slots,     *)
(* and these within the allocated ones.                                     *)
THEOREM QueueType == Spec => []TypeOK
<1> USE QueueAssumption
<1>1. Init => TypeOK
  BY DEF Init, TypeOK
<1>2. TypeOK /\ [Next]_vars => TypeOK'
  <2> SUFFICES ASSUME TypeOK, [Next]_vars PROVE TypeOK'
    OBVIOUS
  <2> USE DEF TypeOK
  <2>1. ASSUME NEW p \in Pointers, Push(p) PROVE TypeOK'
    BY <2>1 DEF Push, Full
  <2>2. ASSUME NEW p \in Pointers, PushFails(p) PROVE TypeOK'
    BY <2>2 DEF PushFails
  <2>3. CASE Up
    <3>1. i # 0 => PARENT(i) \in 0..size-1 /\ PARENT(i) < size
      BY <2>3 DEF Up, PARENT
    <3> QED BY <2>3, <3>1 DEF Up, Rises
  <2>4. CASE Pop
    BY <2>4 DEF Pop
  <2>5. CASE Down
    <3>1. has_child(i) \in Nat /\ (has_child(i) # 0 => has_child(i) < size)
      BY <2>5 DEF Down, has_child, LCHILD
    <3>2. has_child(i) # 0 => i < size
      BY <2>5, <3>1 DEF Down
    <3>3. CASE Sinks
      <4>1. i \in 0..size-1 /\ has_child(i) \in 0..size-1
        BY <2>5, <3>1, <3>2, <3>3 DEF Sinks
      <4>2. /\ e' = [e EXCEPT ![i] = e[has_child(i)], ![has_child(i)] = e[i]]
            /\ i' = has_child(i) /\ UNCHANGED <<pc, size, alloc, v, retour>>
        BY <2>5, <3>3 DEF Down
      <4>3. e' \in [0..size-1 -> Pointers]
        BY <4>1, <4>2
      <4> QED BY <2>5, <4>1, <4>2, <4>3 DEF Down
    <3>4. CASE ~Sinks
      BY <2>5, <3>4 DEF Down
    <3> QED BY <3>3, <3>4
  <2>6. CASE UNCHANGED vars
    BY <2>6 DEF vars
  <2> QED BY <2>1, <2>2, <2>3, <2>4, <2>5, <2>6 DEF Next
<1> QED BY <1>1, <1>2, PTL DEF Spec

-----------------------------------------------------------------------------
(* While a value rises, the order holds everywhere but around the free      *)
(* place, and the value and the place's parent are below its children.      *)
UpInv ==
  pc = "up" =>
    /\ \A j \in 1..size-1 : j # i /\ PARENT(j) # i => Cle[e[PARENT(j)]] <= Cle[e[j]]
    /\ \A j \in 1..size-1 : PARENT(j) = i =>
         Cle[v] <= Cle[e[j]] /\ (i # 0 => Cle[e[PARENT(i)]] <= Cle[e[j]])

(* While a value sinks, the order holds everywhere but under it, and its    *)
(* parent is below its children.                                            *)
DownInv ==
  pc = "down" =>
    /\ \A j \in 1..size-1 : PARENT(j) # i => Cle[e[PARENT(j)]] <= Cle[e[j]]
    /\ \A j \in 1..size-1 : PARENT(j) = i /\ i # 0 => Cle[e[PARENT(i)]] <= Cle[e[j]]

IdleInv == pc = "idle" => \A j \in 1..size-1 : Cle[e[PARENT(j)]] <= Cle[e[j]]

OrderInv == TypeOK /\ IdleInv /\ UpInv /\ DownInv

(* Halving an index of the tree.                                            *)
LEMMA ParentBounds ==
  /\ \A j \in Nat : PARENT(j) \in Nat /\ PARENT(j) <= j /\ (j # 0 => PARENT(j) < j)
  /\ \A j \in Nat : 2 * PARENT(j) = j \/ 2 * PARENT(j) + 1 = j
  /\ PARENT(1) = 0
BY DEF PARENT

(* Every set of naturals has a least element.                               *)
LEMMA LeastNatural ==
  ASSUME NEW S, S \subseteq Nat, S # {}
  PROVE  \E m \in S : \A y \in S : m <= y
<1> DEFINE R == {ss \in Nat \X Nat : ss[1] < ss[2]}
<1>1. IsWellFoundedOn(R, Nat)
  BY NatLessThanWellFounded DEF OpToRel
<1>2. PICK m \in S : \A y \in S : ~(<<y, m>> \in R)
  <2> HIDE DEF R
  <2> QED BY <1>1, WFMin
<1>3. \A y \in S : ~(y < m)
  BY <1>2
<1>4. \A y \in S : m <= y
  BY <1>3
<1> QED BY <1>4

(* A heap's root is a least element: the smallest index below it would have *)
(* a parent that is below it too.                                           *)
LEMMA RootLeast ==
  ASSUME TypeOK, IdleInv, pc = "idle"
  PROVE  \A k \in 0..size-1 : Cle[e[0]] <= Cle[e[k]]
<1> USE QueueAssumption
<1> DEFINE Below == {j \in 0..size-1 : Cle[e[j]] < Cle[e[0]]}
<1>1. ASSUME Below # {} PROVE FALSE
  <2>1. Below \subseteq Nat
    BY DEF TypeOK
  <2>2. PICK m \in Below : \A y \in Below : m <= y
    <3> HIDE DEF Below
    <3> QED BY <1>1, <2>1, LeastNatural
  <2>3. m \in 1..size-1 /\ PARENT(m) \in 0..size-1 /\ PARENT(m) < m
    BY <2>2 DEF PARENT, TypeOK
  <2>4. Cle[e[PARENT(m)]] <= Cle[e[m]]
    BY <2>3 DEF IdleInv
  <2>5. Cle[e[PARENT(m)]] \in Nat /\ Cle[e[m]] \in Nat /\ Cle[e[0]] \in Nat
    BY <2>3 DEF TypeOK
  <2>6. PARENT(m) \in Below
    BY <2>2, <2>3, <2>4, <2>5
  <2> QED BY <2>2, <2>3, <2>6
<1>2. \A k \in 0..size-1 : Cle[e[0]] \in Nat /\ Cle[e[k]] \in Nat
  BY DEF TypeOK
<1> QED BY <1>1, <1>2

-----------------------------------------------------------------------------
(* Every step keeps the order, but for the hole of the call in progress.    *)
LEMMA OrderStep == OrderInv /\ TypeOK' /\ [Next]_vars => OrderInv'
<1> SUFFICES ASSUME OrderInv, TypeOK', [Next]_vars PROVE OrderInv'
  OBVIOUS
<1> USE QueueAssumption DEF OrderInv
<1>t. TypeOK
  OBVIOUS
<1>n. \A j \in 0..size-1 : Cle[e[j]] \in Nat
  BY DEF TypeOK
<1>v. Cle[v] \in Nat
  BY DEF TypeOK
<1>1. ASSUME NEW p \in Pointers, Push(p) PROVE OrderInv'
  <2>1. \A j \in 1..size' - 1 : j # i' => j \in 1..size-1
    BY <1>1 DEF Push, TypeOK
  <2>2. \A j \in 1..size' - 1 : PARENT(j) # i'
    BY <1>1, ParentBounds DEF Push, TypeOK
  <2>3. \A j \in 1..size-1 : e'[j] = e[j] /\ e'[PARENT(j)] = e[PARENT(j)]
    BY <1>1 DEF PARENT, Push, TypeOK
  <2> QED BY <1>1, <2>1, <2>2, <2>3 DEF Push, IdleInv, UpInv, DownInv
<1>2. ASSUME NEW p \in Pointers, PushFails(p) PROVE OrderInv'
  BY <1>2 DEF PushFails, IdleInv, UpInv, DownInv
<1>3. CASE Up
  <2>p. PARENT(i) \in Nat /\ PARENT(i) <= i /\ (i # 0 => PARENT(i) < i) /\ i \in 0..size-1
    BY <1>3 DEF PARENT, Up, TypeOK
  <2>1. CASE Rises
    <3>1. /\ i # 0 /\ Cle[v] < Cle[e[PARENT(i)]]
          /\ i' = PARENT(i) /\ pc' = "up" /\ size' = size /\ v' = v
          /\ e' = [e EXCEPT ![i] = e[PARENT(i)]]
      BY <1>3, <2>1, <2>p, <1>n, <1>v DEF Up, Rises, cmp
    <3>2. e'[i] = e[PARENT(i)] /\ \A j \in 0..size-1 : j # i => e'[j] = e[j]
      BY <3>1, <2>p DEF TypeOK
    <3>3. \A j \in 1..size-1 : j # i' /\ PARENT(j) # i' => Cle[e'[PARENT(j)]] <= Cle[e'[j]]
      <4> SUFFICES ASSUME NEW j \in 1..size-1, j # i', PARENT(j) # i'
                   PROVE  Cle[e'[PARENT(j)]] <= Cle[e'[j]]
        OBVIOUS
      <4>1. PARENT(j) \in 0..size-1 /\ j # i
        BY <3>1 DEF PARENT, TypeOK
      <4>2. CASE PARENT(j) = i
        BY <3>1, <3>2, <4>1, <4>2, <1>3 DEF Up, UpInv
      <4>3. CASE PARENT(j) # i
        BY <3>1, <3>2, <4>1, <4>3, <1>3 DEF Up, UpInv
      <4> QED BY <4>2, <4>3
    <3>4. ASSUME NEW j \in 1..size-1, PARENT(j) = i'
          PROVE  /\ Cle[v] <= Cle[e'[j]]
                 /\ i' # 0 => Cle[e'[PARENT(i')]] <= Cle[e'[j]]
      <4>1. /\ PARENT(i') \in 0..size-1 /\ i' \in 0..size-1 /\ PARENT(i') # i
            /\ i' # i
        BY <2>p, <3>1 DEF PARENT, TypeOK
      <4>2. i' # 0 => Cle[e[PARENT(i')]] <= Cle[e[i']]
        <5>1. ASSUME i' # 0 PROVE i' \in 1..size-1 /\ PARENT(i') # i
          BY <4>1, <5>1
        <5> QED BY <5>1, <4>1, <1>3, <3>1 DEF Up, UpInv
      <4>3. Cle[e[i']] <= Cle[e'[j]]
        <5>1. CASE j = i
          BY <5>1, <3>1, <3>2, <4>1, <1>n
        <5>2. CASE j # i
          BY <5>2, <3>1, <3>2, <3>4, <4>1, <1>3 DEF Up, UpInv
        <5> QED BY <5>1, <5>2
      <4>4. e'[j] \in Pointers /\ e'[PARENT(i')] = e[PARENT(i')]
        BY <3>1, <3>2, <4>1 DEF TypeOK
      <4>5. Cle[e'[j]] \in Nat /\ Cle[e[i']] \in Nat /\ Cle[e[PARENT(i')]] \in Nat
        BY <4>1, <4>4, <1>n
      <4> QED BY <3>1, <4>2, <4>3, <4>4, <4>5, <1>v
    <3> QED BY <3>1, <3>3, <3>4 DEF UpInv, IdleInv, DownInv
  <2>2. CASE ~Rises
    <3>1. /\ i = 0 \/ Cle[e[PARENT(i)]] <= Cle[v]
          /\ pc' = "idle" /\ size' = size /\ e' = [e EXCEPT ![i] = v]
      <4>1. i # 0 => ~(Cle[e[PARENT(i)]] > Cle[v])
        BY <2>2 DEF Rises, cmp
      <4>2. i # 0 => Cle[e[PARENT(i)]] \in Nat
        BY <2>p, <1>n DEF TypeOK
      <4>3. pc' = "idle" /\ size' = size /\ e' = [e EXCEPT ![i] = v]
        BY <1>3, <2>2 DEF Up
      <4> QED BY <4>1, <4>2, <4>3, <1>v
    <3>2. e'[i] = v /\ \A j \in 0..size-1 : j # i => e'[j] = e[j]
      BY <3>1, <2>p DEF TypeOK
    <3>3. ASSUME NEW j \in 1..size-1 PROVE Cle[e'[PARENT(j)]] <= Cle[e'[j]]
      <4>1. PARENT(j) \in 0..size-1 /\ PARENT(j) < j
        BY DEF PARENT, TypeOK
      <4>2. CASE j = i
        BY <3>1, <3>2, <4>1, <4>2
      <4>3. CASE PARENT(j) = i
        BY <3>1, <3>2, <4>1, <4>3, <1>3 DEF Up, UpInv
      <4>4. CASE j # i /\ PARENT(j) # i
        BY <3>1, <3>2, <4>1, <4>4, <1>3 DEF Up, UpInv
      <4> QED BY <4>2, <4>3, <4>4
    <3> QED BY <3>1, <3>3 DEF UpInv, IdleInv, DownInv
  <2> QED BY <2>1, <2>2
<1>4. CASE Pop
  <2>1. /\ size' = size - 1 /\ pc' = "down" /\ i' = 0
        /\ \A j \in 1..size-2 : e'[j] = e[j]
    BY <1>4 DEF Pop, TypeOK
  <2>2. \A j \in 1..size'-1 : PARENT(j) # 0 =>
          PARENT(j) \in 1..size-2 /\ j \in 1..size-1 /\ j \in 1..size-2
    BY <2>1 DEF PARENT, TypeOK
  <2>3. \A j \in 1..size'-1 : PARENT(j) # 0 => Cle[e'[PARENT(j)]] <= Cle[e'[j]]
    BY <1>4, <2>1, <2>2 DEF IdleInv, Pop
  <2> QED BY <2>1, <2>3 DEF UpInv, IdleInv, DownInv
<1>5. CASE Down
  <2>1. CASE Sinks
    <3> DEFINE c == has_child(i)
    <3>1. /\ c \in 1..size-1 /\ PARENT(c) = i /\ i \in 0..size-1 /\ i < c
          /\ \A j \in 1..size-1 : PARENT(j) = i => Cle[e[c]] <= Cle[e[j]]
      <4>1. /\ i \in Nat /\ size \in Nat /\ c # 0
        BY <2>1 DEF Sinks, TypeOK
      <4>2. c \in {2 * i, 2 * i + 1} /\ c \in Nat /\ c < size
        BY <4>1 DEF has_child, LCHILD
      <4>3. PARENT(c) = i
        BY <4>1, <4>2 DEF PARENT
      <4>4. i < c /\ i \in 0..size-1
        BY <4>1, <4>2
      <4>5. ASSUME NEW j \in 1..size-1, PARENT(j) = i PROVE Cle[e[c]] <= Cle[e[j]]
        <5>1. j = 2 * i \/ j = 2 * i + 1
          BY <4>5, ParentBounds, <4>1
        <5>2. Cle[e[2*i]] \in Nat /\ (2 * i + 1 < size => Cle[e[2*i+1]] \in Nat)
          BY <1>n, <4>1, <4>2
        <5> QED BY <5>1, <5>2, <4>1, <4>2 DEF has_child, LCHILD, cmp
      <4> QED BY <4>1, <4>2, <4>3, <4>4, <4>5
    <3>2. /\ Cle[e[c]] < Cle[e[i]] /\ i' = c /\ size' = size /\ pc' = "down"
          /\ e' = [e EXCEPT ![i] = e[c], ![c] = e[i]]
      BY <1>5, <2>1, <3>1, <1>n DEF Down, Sinks, cmp
    <3> HIDE DEF c
    <3>3. e'[i] = e[c] /\ e'[c] = e[i] /\ \A j \in 0..size-1 : j # i /\ j # c => e'[j] = e[j]
      BY <3>1, <3>2 DEF TypeOK
    <3>4. ASSUME NEW j \in 1..size-1, PARENT(j) # c PROVE Cle[e'[PARENT(j)]] <= Cle[e'[j]]
      <4>1. PARENT(j) \in 0..size-1 /\ PARENT(j) < j
        BY DEF PARENT, TypeOK
      <4>2. CASE j = c
        BY <4>2, <3>1, <3>2, <3>3, <1>n
      <4>3. CASE j # c /\ PARENT(j) = i
        BY <4>1, <4>3, <3>1, <3>3
      <4>4. CASE j = i
        <5>1. PARENT(i) \in 0..size-1 /\ PARENT(i) # i /\ i # 0
          BY <4>1, <4>4
        <5>2. Cle[e[PARENT(i)]] <= Cle[e[c]]
          BY <1>5, <3>1, <5>1 DEF Down, DownInv
        <5> QED BY <4>4, <4>1, <5>1, <5>2, <3>1, <3>3, <3>4
      <4>5. CASE j # c /\ j # i /\ PARENT(j) # i
        BY <1>5, <3>3, <3>4, <4>1, <4>5 DEF Down, DownInv
      <4> QED BY <4>2, <4>3, <4>4, <4>5
    <3>5. ASSUME NEW j \in 1..size-1, PARENT(j) = c PROVE Cle[e'[PARENT(c)]] <= Cle[e'[j]]
      <4>1. j # i /\ j # c /\ PARENT(j) # i
        BY <3>1, <3>5 DEF PARENT, TypeOK
      <4>2. Cle[e[c]] <= Cle[e[j]]
        BY <1>5, <3>5, <4>1 DEF Down, DownInv
      <4> QED BY <3>1, <3>3, <4>1, <4>2
    <3> QED BY <3>1, <3>2, <3>4, <3>5 DEF UpInv, IdleInv, DownInv
  <2>2. CASE ~Sinks
    <3>1. pc' = "idle" /\ size' = size /\ e' = e
      BY <1>5, <2>2 DEF Down
    <3>2. ASSUME NEW j \in 1..size-1 PROVE Cle[e[PARENT(j)]] <= Cle[e[j]]
      <4>1. CASE PARENT(j) # i
        BY <1>5, <4>1 DEF Down, DownInv
      <4>2. CASE PARENT(j) = i
        <5>1. (j = 2 * i \/ j = 2 * i + 1) /\ i \in 0..size-1 /\ size \in Nat
          BY <4>2 DEF PARENT, TypeOK
        <5>2. Cle[e[j]] \in Nat /\ Cle[e[i]] \in Nat
          BY <5>1, <1>n
        <5>3. 2 * i < size => Cle[e[2*i]] \in Nat
          BY <5>1, <1>n
        <5>4. 2 * i + 1 < size => Cle[e[2*i+1]] \in Nat
          BY <5>1, <1>n
        <5>5. ~cmp(e[i], e[j])
          <6>1. CASE j = 2 * i
            BY <6>1, <2>2, <5>1, <5>2, <5>3, <5>4 DEF Sinks, has_child, LCHILD, cmp
          <6>2. CASE j = 2 * i + 1
            BY <6>2, <2>2, <5>1, <5>2, <5>3, <5>4 DEF Sinks, has_child, LCHILD, cmp
          <6> QED BY <5>1, <6>1, <6>2
        <5> QED BY <4>2, <5>2, <5>5 DEF cmp
      <4> QED BY <4>1, <4>2
    <3> QED BY <3>1, <3>2 DEF UpInv, IdleInv, DownInv
  <2> QED BY <2>1, <2>2
<1>6. CASE UNCHANGED vars
  BY <1>6 DEF vars, IdleInv, UpInv, DownInv
<1> QED BY <1>1, <1>2, <1>3, <1>4, <1>5, <1>6 DEF Next

(* The invariant min_queue.c states of its heap holds between calls.        *)
THEOREM HeapCorrect == Spec => []HeapOrder
<1> USE QueueAssumption
<1>1. Init => OrderInv
  BY DEF Init, OrderInv, TypeOK, IdleInv, UpInv, DownInv
<1>2. OrderInv /\ TypeOK => HeapOrder
  <2> SUFFICES ASSUME OrderInv, pc = "idle", NEW j \in 1..size-1
               PROVE  ~cmp(e[PARENT(j)], e[j])
    BY DEF HeapOrder
  <2>1. Cle[e[PARENT(j)]] <= Cle[e[j]]
    BY DEF OrderInv, IdleInv
  <2>2. Cle[e[PARENT(j)]] \in Nat /\ Cle[e[j]] \in Nat
    BY DEF OrderInv, TypeOK, PARENT
  <2> QED BY <2>1, <2>2 DEF cmp
<1> QED BY <1>1, <1>2, OrderStep, QueueType, PTL DEF Spec

-----------------------------------------------------------------------------
(* No pointer is queued twice.                                              *)
Distinct ==
  /\ pc # "up" => \A j, k \in 0..size-1 : j # k => e[j] # e[k]
  /\ pc = "up" => /\ \A j, k \in (0..size-1) \ {i} : j # k => e[j] # e[k]
                  /\ \A j \in (0..size-1) \ {i} : e[j] # v

(* A step changes the queue as its specification allows, and queues nothing *)
(* twice.                                                                   *)
LEMMA QueueStep ==
  OrderInv /\ Distinct /\ TypeOK' /\ [Next]_vars => Distinct' /\ [PQ!Next]_Queued
<1> SUFFICES ASSUME OrderInv, Distinct, TypeOK', [Next]_vars
             PROVE  Distinct' /\ [PQ!Next]_Queued
  OBVIOUS
<1> USE QueueAssumption
<1>t. TypeOK /\ size \in Nat /\ i \in Nat /\ e \in [0..size-1 -> Pointers]
  BY DEF OrderInv, TypeOK
<1>1. ASSUME NEW p \in Pointers, Push(p) PROVE Distinct' /\ PQ!Next
  <2>1. /\ pc = "idle" /\ pc' = "up" /\ i' = size /\ v' = p /\ size' = size + 1
        /\ p \notin Contents
        /\ \A j \in 0..size-1 : e'[j] = e[j]
    BY <1>1, <1>t DEF Push
  <2>2. (0..size'-1) \ {i'} = 0..size-1
    BY <2>1, <1>t
  <2>3. Distinct'
    BY <2>1, <2>2 DEF Distinct, Contents
  <2>4. Queued = Contents /\ Queued' = Contents \cup {p}
    BY <2>1, <2>2 DEF Queued, Contents
  <2>5. PQ!Push(p)
    BY <2>1, <2>4 DEF PQ!Push
  <2> QED BY <2>3, <2>5 DEF PQ!Next
<1>2. ASSUME NEW p \in Pointers, PushFails(p) PROVE Distinct' /\ UNCHANGED Queued
  BY <1>2 DEF PushFails, Distinct, Queued, Contents
<1>3. CASE Up
  <2>p. i \in 0..size-1 /\ (i # 0 => PARENT(i) \in 0..size-1 /\ PARENT(i) # i)
    BY <1>3, <1>t DEF Up, TypeOK, PARENT
  <2>1. CASE Rises
    <3>1. /\ i # 0 /\ i' = PARENT(i) /\ pc = "up" /\ pc' = "up" /\ size' = size /\ v' = v
          /\ e' = [e EXCEPT ![i] = e[PARENT(i)]]
      BY <1>3, <2>1 DEF Up, Rises
    <3>2. e'[i] = e[i'] /\ i' \in 0..size-1 /\ i' # i
          /\ \A j \in 0..size-1 : j # i => e'[j] = e[j]
      BY <3>1, <2>p, <1>t
    <3>3. Distinct'
      BY <3>1, <3>2, <2>p DEF Distinct
    <3>4. {e'[j] : j \in (0..size-1) \ {i'}} = {e[j] : j \in (0..size-1) \ {i}}
      BY <3>2, <2>p
    <3>5. Queued' = Queued
      BY <3>1, <3>4 DEF Queued
    <3> QED BY <3>3, <3>5
  <2>2. CASE ~Rises
    <3>1. pc = "up" /\ pc' = "idle" /\ size' = size /\ e' = [e EXCEPT ![i] = v]
      BY <1>3, <2>2 DEF Up
    <3>2. e'[i] = v /\ \A j \in 0..size-1 : j # i => e'[j] = e[j]
      BY <3>1, <2>p, <1>t
    <3>3. Distinct'
      BY <3>1, <3>2, <2>p DEF Distinct
    <3>4. {e'[j] : j \in 0..size-1} = {e[j] : j \in (0..size-1) \ {i}} \cup {v}
      BY <3>2, <2>p
    <3>5. Queued' = Queued
      BY <3>1, <3>4 DEF Queued, Contents
    <3> QED BY <3>3, <3>5
  <2> QED BY <2>1, <2>2
<1>4. CASE Pop
  <2>1. /\ pc = "idle" /\ pc' = "down" /\ size' = size - 1 /\ size # 0
        /\ \A j \in 0..size-2 : e'[j] = IF j = 0 THEN e[size-1] ELSE e[j]
    BY <1>4, <1>t DEF Pop
  <2>2. Distinct'
    BY <2>1, <1>t DEF Distinct
  <2>3. Queued = Contents /\ Queued' = {e'[j] : j \in 0..size-2}
    BY <2>1, <1>t DEF Queued, Contents
  <2>4. e[0] \in Contents /\ e[0] \in Pointers
    BY <2>1, <1>t DEF Contents
  <2>5. {e'[j] : j \in 0..size-2} = Contents \ {e[0]}
    <3>1. ASSUME NEW j \in 0..size-2 PROVE e'[j] \in Contents \ {e[0]}
      <4>1. PICK k \in 1..size-1 : e'[j] = e[k]
        <5>1. CASE j = 0
          BY <2>1, <1>t, <5>1
        <5>2. CASE j # 0
          BY <2>1, <1>t, <5>2
        <5> QED BY <5>1, <5>2
      <4>2. k \in 0..size-1 /\ 0 \in 0..size-1 /\ k # 0
        BY <1>t
      <4>3. e[k] # e[0]
        BY <2>1, <4>2 DEF Distinct
      <4> QED BY <4>1, <4>2, <4>3 DEF Contents
    <3>2. ASSUME NEW x \in Contents \ {e[0]} PROVE \E j \in 0..size-2 : x = e'[j]
      <4>1. PICK k \in 0..size-1 : x = e[k]
        BY DEF Contents
      <4>2. k # 0
        BY <4>1, <3>2
      <4>3. CASE k = size - 1
        <5>1. 0 \in 0..size-2 /\ e'[0] = x
          BY <2>1, <4>1, <4>2, <4>3, <1>t
        <5> QED BY <5>1
      <4>4. CASE k # size - 1
        <5>1. k \in 0..size-2 /\ e'[k] = x
          BY <2>1, <4>1, <4>2, <4>4, <1>t
        <5> QED BY <5>1
      <4> QED BY <4>3, <4>4
    <3> QED BY <3>1, <3>2
  <2>6. \A q \in Contents : Cle[e[0]] <= Cle[q]
    BY <2>1, RootLeast DEF Contents, OrderInv
  <2>7. PQ!Pop(e[0])
    BY <2>3, <2>4, <2>5, <2>6 DEF PQ!Pop, PQ!Least
  <2> QED BY <2>2, <2>4, <2>7 DEF PQ!Next
<1>5. CASE Down
  <2>1. CASE Sinks
    <3> DEFINE c == has_child(i)
    <3>1. c \in 0..size-1 /\ i \in 0..size-1 /\ c # i
      <4>1. c # 0
        BY <2>1 DEF Sinks
      <4>2. c \in {2 * i, 2 * i + 1} /\ c < size
        BY <4>1, <1>t DEF has_child, LCHILD
      <4> QED BY <4>1, <4>2, <1>t
    <3>2. /\ pc = "down" /\ pc' = "down" /\ size' = size
          /\ e' = [e EXCEPT ![i] = e[c], ![c] = e[i]]
      BY <1>5, <2>1 DEF Down
    <3> HIDE DEF c
    <3>3. e'[i] = e[c] /\ e'[c] = e[i] /\ \A j \in 0..size-1 : j # i /\ j # c => e'[j] = e[j]
      BY <3>1, <3>2, <1>t
    <3>4. Distinct'
      <4>1. ASSUME NEW j \in 0..size-1, NEW k \in 0..size-1, j # k PROVE e'[j] # e'[k]
        <5>1. \A a, b \in 0..size-1 : a # b => e[a] # e[b]
          BY <3>2 DEF Distinct
        <5> QED BY <4>1, <5>1, <3>1, <3>3
      <4> QED BY <3>2, <4>1 DEF Distinct
    <3>5. {e'[j] : j \in 0..size-1} = {e[j] : j \in 0..size-1}
      <4>1. \A j \in 0..size-1 : \E k \in 0..size-1 : e'[j] = e[k]
        BY <3>1, <3>3
      <4>2. \A j \in 0..size-1 : \E k \in 0..size-1 : e[j] = e'[k]
        BY <3>1, <3>3
      <4> QED BY <4>1, <4>2
    <3>6. Queued' = Queued
      BY <3>2, <3>5 DEF Queued, Contents
    <3> QED BY <3>4, <3>6
  <2>2. CASE ~Sinks
    BY <1>5, <2>2 DEF Down, Distinct, Queued, Contents
  <2> QED BY <2>1, <2>2
<1>6. CASE UNCHANGED vars
  BY <1>6 DEF vars, Distinct, Queued, Contents
<1> QED BY <1>1, <1>2, <1>3, <1>4, <1>5, <1>6 DEF Next

(* min_queue.c is a priority queue: whatever the calls, a pop takes a least *)
(* pointer and nothing is lost or queued twice.                             *)
THEOREM QueueCorrect == Spec => RefinesPriorityQueue
<1> USE QueueAssumption
<1>1. Init => OrderInv /\ Distinct
  BY DEF Init, OrderInv, TypeOK, IdleInv, UpInv, DownInv, Distinct
<1>2. Init => PQ!Init
  BY DEF Init, PQ!Init, Queued, Contents
<1> QED BY <1>1, <1>2, OrderStep, QueueStep, QueueType, PTL
        DEF Spec, RefinesPriorityQueue, PQ!Spec
=============================================================================
