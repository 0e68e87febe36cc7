---------------------------- MODULE LinkSimProofs ---------------------------
(***************************************************************************)
(* Theorems about the link simulator, for every delay, jitter, clock and   *)
(* number of datagrams.                                                    *)
(***************************************************************************)
EXTENDS LinkSim, SequenceTheorems, TLAPS

(* The dates, slots and datagrams sent that occur.                          *)
Dates  == [tv_sec : Nat, tv_usec : 0..(2 * MsPerSec - 2)]
Etats  == {"intact"} \cup Effets
Slots  == [ts : Dates, direction : {LINK_FORWARD, LINK_REVERSE}, etat : Etats,
           lu : Nat, file : {TRUE}]
Envois == [paquet : Paquets, a : Hotes \cup {NoAddr}, etat : Etats, lu : Nat,
           file : BOOLEAN]

(* The date d milliseconds after c, with the carry that link_sim.c leaves   *)
(* in tv_usec.                                                              *)
Date(c, d) ==
  [tv_sec |-> (c \div MsPerSec) + (d \div MsPerSec),
   tv_usec |-> (c % MsPerSec) + (d % MsPerSec)]

(* The part of TypeOK about the loop of the thread.                         *)
Control ==
  /\ pc \in {"select", "deliver", "process", "stop"}
  /\ last_clock \in Nat /\ lisible \in BOOLEAN /\ src_addr \in Hotes \cup {NoAddr}
  /\ occupe \in 0..MaxBusy /\ delay \in Nat /\ jitter \in Nat
  /\ link_direction \subseteq {LINK_FORWARD, LINK_REVERSE}

(* A datagram is unread, queued or sent once, and was read in the past.     *)
Traffic ==
  /\ restants \subseteq Paquets /\ envois \in Seq(Envois)
  /\ DOMAIN file \subseteq Paquets \ restants
  /\ \A p \in DOMAIN file : file[p] \in Slots /\ file[p].lu <= last_clock
  /\ \A m \in DOMAIN envois :
       /\ envois[m].paquet \in Paquets \ (restants \cup DOMAIN file)
       /\ envois[m].lu <= last_clock
  /\ \A m, n \in DOMAIN envois : envois[m].paquet = envois[n].paquet => m = n

(* Without jitter every queued packet is delayed by the same amount.        *)
Regular ==
  jitter = 0 => \A p \in DOMAIN file : file[p].ts = Date(file[p].lu, delay % MaxDelay)

LinkInv == Control /\ Traffic /\ Regular /\ InOrder

-----------------------------------------------------------------------------
(* Dates.                                                                   *)

(* A clock is its whole seconds and the rest.                               *)
LEMMA Split ==
  ASSUME NEW c \in Nat
  PROVE  /\ c \div MsPerSec \in Nat /\ c % MsPerSec \in 0..MsPerSec-1
         /\ c = (c \div MsPerSec) * MsPerSec + (c % MsPerSec)
BY LinkAssumption

(* An earlier second is earlier, whatever the rest.                         *)
LEMMA EarlierSecond ==
  ASSUME NEW q1 \in Nat, NEW q2 \in Nat, q1 < q2,
         NEW r1 \in 0..MsPerSec-1, NEW r2 \in 0..MsPerSec-1
  PROVE  q1 * MsPerSec + r1 <= q2 * MsPerSec + r2
<1> USE LinkAssumption
<1>1. PICK k \in Nat : q2 = q1 + 1 + k
  <2>1. q2 - q1 - 1 \in Nat /\ q2 = q1 + 1 + (q2 - q1 - 1)
    OBVIOUS
  <2> QED BY <2>1
<1>2. q2 * MsPerSec = q1 * MsPerSec + MsPerSec + k * MsPerSec
  BY <1>1
<1>3. k * MsPerSec \in Nat /\ q1 * MsPerSec \in Nat
  OBVIOUS
<1> QED BY <1>2, <1>3

(* timeval_cmp on dates that are all as far from the date of reading, and   *)
(* not normalised, gives the order of reading.                              *)
LEMMA DateOrder ==
  ASSUME NEW c1 \in Nat, NEW c2 \in Nat, NEW d \in Nat,
         ~timeval_cmp(Date(c1, d), Date(c2, d))
  PROVE  c1 <= c2
<1> USE LinkAssumption
<1> DEFINE q1 == c1 \div MsPerSec
           q2 == c2 \div MsPerSec
           r1 == c1 % MsPerSec
           r2 == c2 % MsPerSec
           qd == d \div MsPerSec
           rd == d % MsPerSec
<1>1. /\ q1 \in Nat /\ r1 \in 0..MsPerSec-1 /\ c1 = q1 * MsPerSec + r1
      /\ q2 \in Nat /\ r2 \in 0..MsPerSec-1 /\ c2 = q2 * MsPerSec + r2
      /\ qd \in Nat /\ rd \in Nat
  BY Split
<1>2. IF q1 + qd = q2 + qd THEN ~(r1 + rd > r2 + rd) ELSE ~(q1 + qd > q2 + qd)
  BY DEF timeval_cmp, Date
<1> HIDE DEF q1, q2, r1, r2, qd, rd
<1>3. (q1 = q2 /\ r1 <= r2) \/ q1 < q2
  BY <1>1, <1>2
<1>4. CASE q1 = q2 /\ r1 <= r2
  BY <1>1, <1>4
<1>5. CASE q1 < q2
  BY <1>1, <1>5, EarlierSecond
<1> QED BY <1>3, <1>4, <1>5

(* How long select waits: not past the date, but for the millisecond of a   *)
(* date that has passed.  The borrow timeval_diff forgets is never seen, as *)
(* its date has passed.                                                     *)
LEMMA QueueTimeout ==
  ASSUME last_clock \in Nat, NEW p, file[p].ts \in Dates
  PROVE  /\ get_queue_timeout(p) \in Nat
         /\ \/ get_queue_timeout(p) <= 1
            \/ last_clock + get_queue_timeout(p) <= Millis(file[p].ts)
<1> USE LinkAssumption
<1> DEFINE q == last_clock \div MsPerSec
           r == last_clock % MsPerSec
           a == file[p].ts.tv_sec
           b == file[p].ts.tv_usec
           t == timeval_diff(file[p].ts, Timeval(last_clock))
<1>1. q \in Nat /\ r \in 0..MsPerSec-1 /\ last_clock = q * MsPerSec + r
  BY Split
<1>2. a \in Nat /\ b \in 0..(2 * MsPerSec - 2)
  BY DEF Dates
<1>3. t = IF b - r >= 0 THEN [tv_sec |-> a - q, tv_usec |-> b - r]
          ELSE [tv_sec |-> a - q - 1, tv_usec |-> IF a - q = 1 THEN b - r ELSE b - r + MsPerSec]
  BY DEF timeval_diff, Timeval
<1>4. get_queue_timeout(p) = IF t.tv_sec < 0 \/ (t.tv_sec = 0 /\ t.tv_usec <= 0)
                             THEN 1 ELSE t.tv_sec * MsPerSec + t.tv_usec
  BY DEF get_queue_timeout, Millis
<1>5. Millis(file[p].ts) = a * MsPerSec + b
  BY DEF Millis
<1> HIDE DEF q, r, a, b, t
<1>6. CASE t.tv_sec < 0 \/ (t.tv_sec = 0 /\ t.tv_usec <= 0)
  BY <1>4, <1>6
<1>7. CASE ~(t.tv_sec < 0 \/ (t.tv_sec = 0 /\ t.tv_usec <= 0))
  <2>1. /\ t.tv_sec \in Nat /\ t.tv_usec \in Nat
        /\ t.tv_sec * MsPerSec + t.tv_usec = (a * MsPerSec + b) - (q * MsPerSec + r)
    <3>1. (a - q) * MsPerSec = a * MsPerSec - q * MsPerSec
      BY <1>1, <1>2
    <3>2. (a - q - 1) * MsPerSec = a * MsPerSec - q * MsPerSec - MsPerSec
      BY <1>1, <1>2
    <3>3. CASE b - r >= 0
      BY <1>1, <1>2, <1>3, <1>7, <3>1, <3>3
    <3>4. CASE ~(b - r >= 0) /\ a - q = 1
      BY <1>1, <1>2, <1>3, <1>7, <3>4
    <3>5. CASE ~(b - r >= 0) /\ a - q # 1
      <4>1. t.tv_sec = a - q - 1 /\ t.tv_usec = b - r + MsPerSec
        BY <1>3, <3>5
      <4> QED BY <1>1, <1>2, <1>7, <3>2, <4>1
    <3> QED BY <3>3, <3>4, <3>5
  <2>2. t.tv_sec * MsPerSec \in Nat
    BY <2>1
  <2>3. get_queue_timeout(p) = t.tv_sec * MsPerSec + t.tv_usec
    BY <1>4, <1>7
  <2>4. a * MsPerSec \in Nat /\ q * MsPerSec \in Nat
    BY <1>1, <1>2
  <2> QED BY <1>1, <1>2, <1>5, <2>1, <2>2, <2>3, <2>4
<1> QED BY <1>6, <1>7

-----------------------------------------------------------------------------
(* What a step may do to the packets.                                       *)

(* Nothing is sent or queued; a datagram may be read and dropped.           *)
LEMMA Quiet ==
  ASSUME LinkInv, Control', last_clock' >= last_clock, restants' \subseteq restants,
         UNCHANGED <<options, file, envois>>
  PROVE  LinkInv'
<1>1. /\ last_clock \in Nat /\ last_clock' \in Nat /\ UNCHANGED <<delay, jitter>>
      /\ \A p \in DOMAIN file : file[p].lu \in Nat
  BY DEF LinkInv, Control, Traffic, options, Slots
<1>2. envois \in Seq(Envois) /\ \A m \in DOMAIN envois : envois[m].lu \in Nat
  <2>1. envois \in Seq(Envois)
    BY DEF LinkInv, Traffic
  <2>2. \A m \in DOMAIN envois : envois[m] \in Envois
    BY <2>1, LenProperties
  <2> QED BY <2>1, <2>2 DEF Envois
<1>3. Traffic'
  BY <1>1, <1>2 DEF LinkInv, Traffic
<1>4. Regular' /\ InOrder'
  BY <1>1 DEF LinkInv, Regular, InOrder
<1> QED BY <1>3, <1>4 DEF LinkInv

(* A packet that is neither waiting to be read nor in the queue any more,   *)
(* and was read before the packets still queued, is sent.                   *)
LEMMA Sends ==
  ASSUME LinkInv, Control', UNCHANGED <<options, last_clock>>,
         restants' \subseteq restants, DOMAIN file' \subseteq DOMAIN file,
         \A q \in DOMAIN file' : file'[q] = file[q],
         NEW e \in Envois, envois' = Append(envois, e),
         e.paquet \notin restants' \cup DOMAIN file',
         e.paquet \in restants \cup DOMAIN file, e.lu <= last_clock,
         jitter = 0 /\ e.file => /\ e.paquet \in DOMAIN file /\ e.lu = file[e.paquet].lu
                                 /\ \A q \in DOMAIN file' : e.lu <= file[q].lu
  PROVE  LinkInv'
<1>1. envois \in Seq(Envois) /\ Len(envois) \in Nat /\ DOMAIN envois = 1..Len(envois)
  BY LenProperties DEF LinkInv, Traffic
<1> DEFINE L == Len(envois)
<1>2. /\ envois' \in Seq(Envois) /\ DOMAIN envois' = 1..L+1 /\ envois'[L+1] = e
      /\ \A m \in 1..L : envois'[m] = envois[m]
  <2>1. /\ envois' \in Seq(Envois) /\ Len(envois') = L + 1 /\ envois'[L+1] = e
        /\ \A m \in 1..L : envois'[m] = envois[m]
    BY <1>1, AppendProperties
  <2> QED BY <2>1, LenProperties
<1> HIDE DEF L
<1>3. L \in Nat /\ DOMAIN envois = 1..L
  BY <1>1 DEF L
<1>4. \A m \in 1..L+1 : m \in 1..L \/ m = L + 1
  BY <1>3
<1>5. \A m \in 1..L : /\ envois[m].paquet \in Paquets \ (restants \cup DOMAIN file)
                      /\ envois[m].lu <= last_clock
  BY <1>3 DEF LinkInv, Traffic
<1>6. \A m \in 1..L+1 : /\ envois'[m].paquet \in Paquets \ (restants' \cup DOMAIN file')
                        /\ envois'[m].lu <= last_clock'
  <2>1. e.paquet \in Paquets
    BY DEF Envois
  <2> QED BY <1>2, <1>4, <1>5, <2>1
<1>7. \A m, n \in 1..L+1 : envois'[m].paquet = envois'[n].paquet => m = n
  <2>1. \A m, n \in 1..L : envois[m].paquet = envois[n].paquet => m = n
    BY <1>3 DEF LinkInv, Traffic
  <2> SUFFICES ASSUME NEW m \in 1..L+1, NEW n \in 1..L+1, envois'[m].paquet = envois'[n].paquet
               PROVE  m = n
    OBVIOUS
  <2>2. \A k \in 1..L : envois'[k].paquet = envois[k].paquet /\ envois'[k].paquet # e.paquet
    BY <1>2, <1>5
  <2>3. envois'[L+1].paquet = e.paquet
    BY <1>2
  <2>4. CASE m \in 1..L /\ n \in 1..L
    <3>1. envois[m].paquet = envois[n].paquet
      BY <2>2, <2>4
    <3> QED BY <2>1, <2>4, <3>1
  <2>5. CASE m \in 1..L /\ n = L + 1
    BY <2>2, <2>3, <2>5
  <2>6. CASE m = L + 1 /\ n \in 1..L
    BY <2>2, <2>3, <2>6
  <2> QED BY <1>4, <2>4, <2>5, <2>6
<1>8. Traffic'
  <2>1. restants' \subseteq Paquets /\ DOMAIN file' \subseteq Paquets \ restants'
    BY DEF LinkInv, Traffic
  <2>2. \A q \in DOMAIN file' : file'[q] \in Slots /\ file'[q].lu <= last_clock'
    BY DEF LinkInv, Traffic
  <2> QED BY <1>2, <1>6, <1>7, <2>1, <2>2 DEF Traffic
<1>9. Regular'
  BY DEF LinkInv, Regular, options
<1>10. InOrder'
  <2> SUFFICES ASSUME jitter = 0,
                      NEW m \in 1..L+1, envois'[m].file
               PROVE  /\ \A n \in 1..L+1 : n > m /\ envois'[n].file => envois'[m].lu <= envois'[n].lu
                      /\ \A q \in DOMAIN file' : envois'[m].lu <= file'[q].lu
    BY <1>2 DEF InOrder, options
  <2>1. \A k \in 1..L : envois[k].file =>
           /\ \A n \in 1..L : n > k /\ envois[n].file => envois[k].lu <= envois[n].lu
           /\ \A q \in DOMAIN file : envois[k].lu <= file[q].lu
    BY <1>3 DEF LinkInv, InOrder
  <2>2. CASE m = L + 1
    <3>1. \A n \in 1..L+1 : ~(n > m)
      BY <1>3, <2>2
    <3> QED BY <1>2, <2>2, <3>1
  <2>3. CASE m \in 1..L
    <3>1. envois'[m] = envois[m]
      BY <1>2, <2>3
    <3>2. e.file => envois[m].lu <= e.lu
      BY <2>1, <2>3, <3>1
    <3>3. ASSUME NEW n \in 1..L+1, n > m, envois'[n].file PROVE envois'[m].lu <= envois'[n].lu
      <4>1. CASE n = L + 1
        BY <1>2, <3>1, <3>2, <3>3, <4>1
      <4>2. CASE n \in 1..L
        <5>1. envois'[n] = envois[n]
          BY <1>2, <4>2
        <5> QED BY <2>1, <2>3, <3>1, <3>3, <4>2, <5>1
      <4> QED BY <1>4, <4>1, <4>2
    <3>4. ASSUME NEW q \in DOMAIN file' PROVE envois'[m].lu <= file'[q].lu
      <4>1. q \in DOMAIN file /\ file'[q] = file[q]
        OBVIOUS
      <4> QED BY <2>1, <2>3, <3>1, <4>1
    <3> QED BY <3>3, <3>4
  <2> QED BY <1>4, <2>2, <2>3
<1> QED BY <1>8, <1>9, <1>10 DEF LinkInv

(* A packet that was waiting to be read is put in the queue.                *)
LEMMA Queues ==
  ASSUME LinkInv, Control', UNCHANGED <<options, last_clock, envois>>,
         NEW p \in restants, restants' = restants \ {p}, NEW s \in Slots,
         file' = [q \in DOMAIN file \cup {p} |-> IF q = p THEN s ELSE file[q]],
         s.lu = last_clock,
         jitter = 0 => s.ts = Date(last_clock, delay % MaxDelay)
  PROVE  LinkInv'
<1>1. /\ DOMAIN file' = DOMAIN file \cup {p} /\ file'[p] = s /\ p \notin DOMAIN file
      /\ \A q \in DOMAIN file : file'[q] = file[q]
  BY DEF LinkInv, Traffic
<1>2. last_clock \in Nat /\ UNCHANGED <<delay, jitter>>
  BY DEF LinkInv, Control, options
<1>3. Traffic'
  BY <1>1, <1>2 DEF LinkInv, Traffic
<1>4. Regular'
  BY <1>1, <1>2 DEF LinkInv, Regular
<1>5. InOrder'
  BY <1>1, <1>2 DEF LinkInv, InOrder, Traffic
<1> QED BY <1>3, <1>4, <1>5 DEF LinkInv

-----------------------------------------------------------------------------
(* The actions.                                                             *)

(* The delays simulate_link applies.                                        *)
LEMMA Applied ==
  ASSUME Control, NEW d \in AppliedDelays
  PROVE  d \in Nat /\ (jitter = 0 => d = delay % MaxDelay)
<1> USE LinkAssumption
<1> DEFINE total == IF jitter = 0 THEN {delay}
                    ELSE IF jitter > delay THEN 0..(delay + jitter - 1)
                    ELSE {delay + r - jitter : r \in 0..(2 * jitter - 1)}
<1>1. PICK x \in total : d = x % MaxDelay
  BY DEF AppliedDelays
<1>2. x \in Int
  <2>1. delay \in Nat /\ jitter \in Nat
    BY DEF Control
  <2> QED BY <2>1
<1>3. d \in Nat
  BY <1>1, <1>2
<1> QED BY <1>1, <1>3

(* The slots simulate_link makes.                                           *)
LEMMA SlotTrue ==
  ASSUME Control, NEW d \in Nat, NEW direction \in {LINK_FORWARD, LINK_REVERSE},
         NEW etat \in Etats
  PROVE  /\ Slot(direction, etat, d, TRUE) \in Slots
         /\ Slot(direction, etat, d, TRUE).lu = last_clock
         /\ Slot(direction, etat, d, TRUE).ts = Date(last_clock, d)
<1> USE LinkAssumption
<1>1. last_clock \in Nat
  BY DEF Control
<1>2. Expiration(d) = Date(last_clock, d)
  BY DEF Expiration, Timeval, Date
<1>3. Expiration(d) \in Dates
  <2>1. /\ last_clock \div MsPerSec \in Nat /\ last_clock % MsPerSec \in 0..MsPerSec-1
        /\ d \div MsPerSec \in Nat /\ d % MsPerSec \in 0..MsPerSec-1
    BY <1>1, Split
  <2>2. /\ (last_clock \div MsPerSec) + (d \div MsPerSec) \in Nat
        /\ (last_clock % MsPerSec) + (d % MsPerSec) \in 0..(2 * MsPerSec - 2)
    BY <2>1
  <2> QED BY <1>2, <2>2 DEF Date, Dates
<1> QED BY <1>1, <1>2, <1>3 DEF Slot, Slots

(* The slot at the head is the first to have been read.                     *)
LEMMA HeadFirst ==
  ASSUME LinkInv, jitter = 0, NEW p \in Tetes, NEW q \in DOMAIN file
  PROVE  file[p].lu <= file[q].lu
<1>1. p \in DOMAIN file /\ ~timeval_cmp(file[p].ts, file[q].ts)
  BY DEF Tetes
<1>2. /\ file[p].ts = Date(file[p].lu, delay % MaxDelay) /\ file[p].lu \in Nat
      /\ file[q].ts = Date(file[q].lu, delay % MaxDelay) /\ file[q].lu \in Nat
  BY <1>1 DEF LinkInv, Regular, Traffic, Slots
<1>3. delay % MaxDelay \in Nat
  BY LinkAssumption DEF LinkInv, Control
<1> QED BY <1>1, <1>2, <1>3, DateOrder

(* select.                                                                  *)
LEMMA SelectKeeps ==
  ASSUME LinkInv, SelectTimer \/ SelectReady \/ SelectFails
  PROVE  LinkInv'
<1> USE LinkAssumption
<1>1. Control /\ last_clock \in Nat
  BY DEF LinkInv, Control
<1>2. CASE SelectTimer
  <2>1. PICK p \in Tetes, late \in 0..MaxLate :
          last_clock' = last_clock + get_queue_timeout(p) + late
    BY <1>2 DEF SelectTimer
  <2>2. file[p].ts \in Dates
    BY <2>1 DEF LinkInv, Traffic, Slots, Tetes
  <2>3. get_queue_timeout(p) \in Nat
    BY <1>1, <2>2, QueueTimeout
  <2>4. last_clock' \in Nat /\ last_clock' >= last_clock
    BY <1>1, <2>1, <2>3
  <2>5. Control' /\ UNCHANGED <<options, file, restants, envois>>
    BY <1>1, <1>2, <2>4 DEF SelectTimer, Control, options
  <2> QED BY <2>4, <2>5, Quiet
<1>3. CASE SelectReady
  <2>1. last_clock' \in Nat /\ last_clock' >= last_clock
    BY <1>1, <1>3 DEF SelectReady
  <2>2. Control' /\ UNCHANGED <<options, file, restants, envois>>
    BY <1>1, <1>3, <2>1 DEF SelectReady, Control, options
  <2> QED BY <2>1, <2>2, Quiet
<1>4. CASE SelectFails
  <2>1. Control' /\ UNCHANGED <<options, last_clock, file, restants, envois>>
    BY <1>1, <1>4 DEF SelectFails, Stop, Control, options
  <2> QED BY <1>1, <2>1, Quiet
<1> QED BY <1>2, <1>3, <1>4

(* deliver_delayed_pkt.                                                     *)
LEMMA DeliverKeeps ==
  ASSUME LinkInv, Deliver
  PROVE  LinkInv'
<1> USE LinkAssumption
<1>1. /\ Control /\ Traffic /\ last_clock \in Nat
      /\ UNCHANGED <<options, last_clock, restants>>
  BY DEF LinkInv, Control, Deliver
<1>2. Control'
  BY <1>1 DEF Deliver, Control, options, Busy, Stop
<1>3. CASE UNCHANGED <<file, envois>>
  BY <1>1, <1>2, <1>3, Quiet
<1>4. ASSUME NEW p \in Tetes, envois' = Sent(p, file[p], src_addr), file' = After(p)
      PROVE  LinkInv'
  <2> DEFINE e == [paquet |-> p, a |-> AddrOf(file[p].direction, src_addr), etat |-> file[p].etat,
                   lu |-> file[p].lu, file |-> file[p].file]
  <2>1. p \in DOMAIN file /\ file[p] \in Slots /\ file[p].lu <= last_clock /\ p \in Paquets
    BY <1>1 DEF Tetes, Traffic
  <2>2. e \in Envois
    <3>1. AddrOf(file[p].direction, src_addr) \in Hotes \cup {NoAddr}
      BY <1>1 DEF AddrOf, Control
    <3>2. file[p].file \in BOOLEAN /\ file[p].lu \in Nat /\ file[p].etat \in Etats
      BY <2>1 DEF Slots
    <3> QED BY <2>1, <3>1, <3>2 DEF Envois
  <2>3. envois' = Append(envois, e)
    BY <1>4 DEF Sent
  <2>4. e.paquet = p /\ e.lu = file[p].lu
    OBVIOUS
  <2> HIDE DEF e
  <2>5. DOMAIN file' = DOMAIN file \ {p} /\ \A q \in DOMAIN file' : file'[q] = file[q]
    BY <1>4 DEF After
  <2>6. p \notin restants
    BY <1>1, <2>1 DEF Traffic
  <2>7. jitter = 0 => \A q \in DOMAIN file' : e.lu <= file[q].lu
    BY <2>4, <2>5, HeadFirst
  <2> QED BY <1>1, <1>2, <2>1, <2>2, <2>3, <2>4, <2>5, <2>6, <2>7, Sends
<1> QED BY <1>3, <1>4 DEF Deliver

(* process_incoming_pkt.                                                    *)
LEMMA ProcessKeeps ==
  ASSUME LinkInv, NEW p \in restants, NEW from \in Hotes, Process(p, from)
  PROVE  LinkInv'
<1> USE LinkAssumption
<1> DEFINE src == IF src_addr = NoAddr THEN from ELSE src_addr
           direction == Direction(from, src)
<1>1. /\ Control /\ Traffic /\ last_clock \in Nat
      /\ UNCHANGED <<options, last_clock, lisible, occupe>> /\ restants' = restants \ {p}
  BY DEF LinkInv, Control, Process
<1>2. src \in Hotes
  BY <1>1 DEF Control
<1>3. direction \in {LINK_FORWARD, LINK_REVERSE, "none"}
  BY DEF Direction
<1>4. /\ pc' \in {"select", "stop"}
      /\ \/ src_addr' \in {src_addr, src} /\ UNCHANGED <<file, envois>>
         \/ /\ src_addr' = src /\ UNCHANGED file
            /\ direction \in {LINK_FORWARD, LINK_REVERSE}
            /\ \E etat \in Etats : envois' = Sent(p, Slot(direction, etat, 0, FALSE), src)
         \/ /\ src_addr' = src /\ UNCHANGED envois
            /\ direction \in {LINK_FORWARD, LINK_REVERSE}
            /\ \E etat \in Etats, d \in AppliedDelays :
                 file' = [q \in DOMAIN file \cup {p} |->
                            IF q = p THEN Slot(direction, etat, d, TRUE) ELSE file[q]]
  <2> HIDE DEF direction, src
  <2>1. CASE pc' = "select" /\ UNCHANGED <<src_addr, file, envois>>
    BY <2>1
  <2>2. CASE src_addr' = src /\ direction = "none" /\ pc' = "select" /\ UNCHANGED <<file, envois>>
    BY <2>2
  <2>3. CASE /\ src_addr' = src /\ direction \notin link_direction \cup {"none"}
             /\ WriteOut(p, Slot(direction, "intact", 0, FALSE), src) /\ UNCHANGED file
    <3>1. direction \in {LINK_FORWARD, LINK_REVERSE} /\ "intact" \in Etats
      BY <1>3, <2>3 DEF Etats
    <3> QED BY <2>3, <3>1 DEF WriteOut, Stop
  <2>4. CASE src_addr' = src /\ direction \in {LINK_FORWARD, LINK_REVERSE} /\ Simulate(p, direction, src)
    <3>1. \A etat \in {"intact"} \cup (Effets \ {"loss"}) : etat \in Etats
      BY DEF Etats
    <3> QED BY <2>4, <3>1 DEF Simulate, WriteOut, Stop
  <2>5. direction \in link_direction => direction \in {LINK_FORWARD, LINK_REVERSE}
    BY <1>3 DEF LinkInv, Control, LINK_FORWARD, LINK_REVERSE
  <2> QED BY <2>1, <2>2, <2>3, <2>4, <2>5 DEF Process, src, direction
<1> HIDE DEF src, direction
<1>5. Control'
  BY <1>1, <1>2, <1>4 DEF Control, options
<1>6. CASE UNCHANGED <<file, envois>>
  BY <1>1, <1>5, <1>6, Quiet
<1>7. ASSUME NEW etat \in Etats, envois' = Sent(p, Slot(direction, etat, 0, FALSE), src),
             UNCHANGED file, direction \in {LINK_FORWARD, LINK_REVERSE}
      PROVE  LinkInv'
  <2> DEFINE e == [paquet |-> p, a |-> AddrOf(direction, src), etat |-> etat,
                   lu |-> last_clock, file |-> FALSE]
  <2>1. e \in Envois
    <3>1. AddrOf(direction, src) \in Hotes \cup {NoAddr} /\ p \in Paquets
      BY <1>1, <1>2 DEF AddrOf, Traffic
    <3> QED BY <1>1, <3>1 DEF Envois
  <2>2. envois' = Append(envois, e)
    BY <1>7 DEF Sent, Slot
  <2>3. e.paquet = p /\ e.lu = last_clock /\ ~e.file
    OBVIOUS
  <2> HIDE DEF e
  <2>4. p \notin DOMAIN file
    BY <1>1 DEF Traffic
  <2>5. restants' \subseteq restants /\ last_clock <= last_clock
    BY <1>1
  <2> QED BY <1>1, <1>5, <1>7, <2>1, <2>2, <2>3, <2>4, <2>5, Sends
<1>8. ASSUME NEW etat \in Etats, NEW d \in AppliedDelays, UNCHANGED envois,
             direction \in {LINK_FORWARD, LINK_REVERSE},
             file' = [q \in DOMAIN file \cup {p} |->
                        IF q = p THEN Slot(direction, etat, d, TRUE) ELSE file[q]]
      PROVE  LinkInv'
  <2> DEFINE s == Slot(direction, etat, d, TRUE)
  <2>1. d \in Nat /\ (jitter = 0 => d = delay % MaxDelay)
    BY <1>1, Applied
  <2>2. s \in Slots /\ s.lu = last_clock /\ s.ts = Date(last_clock, d)
    BY <1>1, <1>8, <2>1, SlotTrue
  <2> HIDE DEF s
  <2>3. file' = [q \in DOMAIN file \cup {p} |-> IF q = p THEN s ELSE file[q]]
    BY <1>8 DEF s
  <2> QED BY <1>1, <1>5, <1>8, <2>1, <2>2, <2>3, Queues
<1> QED BY <1>4, <1>6, <1>7, <1>8

(* LinkInv is inductive.                                                    *)
LEMMA AlwaysLinkInv == Spec => []LinkInv
<1> USE LinkAssumption
<1>1. Init => LinkInv
  <2> SUFFICES ASSUME Init PROVE LinkInv
    OBVIOUS
  <2>1. Control
    <3>1. link_direction \subseteq {LINK_FORWARD, LINK_REVERSE}
      BY DEF Init
    <3>2. last_clock \in Nat /\ delay \in Nat /\ jitter \in Nat
      BY DEF Init
    <3>3. pc = "select" /\ lisible \in BOOLEAN /\ src_addr = NoAddr
      BY Zenon DEF Init
    <3>4. occupe \in 0..MaxBusy
      BY DEF Init
    <3> QED BY <3>1, <3>2, <3>3, <3>4 DEF Control
  <2>2. DOMAIN file = {} /\ envois = <<>> /\ restants = Paquets
    BY DEF Init
  <2>3. envois \in Seq(Envois) /\ DOMAIN envois = {}
    BY <2>2, EmptySeq, LenProperties
  <2> QED BY <2>1, <2>2, <2>3 DEF LinkInv, Traffic, Regular, InOrder
<1>2. LinkInv /\ [Next]_vars => LinkInv'
  <2> SUFFICES ASSUME LinkInv, [Next]_vars PROVE LinkInv'
    OBVIOUS
  <2>1. CASE SelectTimer \/ SelectReady \/ SelectFails
    BY <2>1, SelectKeeps
  <2>2. CASE Deliver
    BY <2>2, DeliverKeeps
  <2>3. CASE ReadNothing
    <3>1. /\ Control' /\ UNCHANGED <<options, last_clock, file, restants, envois>>
          /\ last_clock' >= last_clock
      BY <2>3 DEF LinkInv, ReadNothing, Busy, Stop, Control, options
    <3> QED BY <3>1, Quiet
  <2>4. CASE Read
    BY <2>4, ProcessKeeps DEF Read
  <2>5. CASE UNCHANGED vars
    <3>1. /\ Control' /\ UNCHANGED <<options, last_clock, file, restants, envois>>
          /\ last_clock' >= last_clock
      BY <2>5 DEF LinkInv, vars, Control, options
    <3> QED BY <3>1, Quiet
  <2> QED BY <2>1, <2>2, <2>3, <2>4, <2>5 DEF Next
<1> QED BY <1>1, <1>2, PTL DEF Spec

(* Types; a datagram of the link simulator is not in the queue and sent at  *)
(* once, nor sent twice, whatever select and the socket do.                 *)
THEOREM LinkTypeCorrect == Spec => []TypeOK
<1>1. LinkInv => TypeOK
  BY DEF LinkInv, Control, Traffic, TypeOK, Slots, Dates
<1> QED BY <1>1, AlwaysLinkInv, PTL

(* Without jitter the link is first in, first out, for every delay and      *)
(* every precision of the clock: link_sim.c leaves expiration dates without *)
(* their carry, but all of them are as wrong as each other.                 *)
THEOREM LinkInOrder == Spec => []InOrder
<1>1. LinkInv => InOrder
  BY DEF LinkInv
<1> QED BY <1>1, AlwaysLinkInv, PTL

(* select never sleeps past the head of the queue, for every date and       *)
(* clock: where timeval_diff loses a borrow, get_queue_timeout answers 1.   *)
THEOREM LinkNoOversleep == Spec => []NoOversleep
<1>1. LinkInv => NoOversleep
  <2> SUFFICES ASSUME LinkInv, NEW p \in Tetes
               PROVE  \/ get_queue_timeout(p) <= 1
                      \/ last_clock + get_queue_timeout(p) <= Millis(file[p].ts)
    BY DEF NoOversleep
  <2>1. last_clock \in Nat /\ file[p].ts \in Dates
    BY DEF LinkInv, Control, Traffic, Slots, Tetes
  <2> QED BY <2>1, QueueTimeout
<1> QED BY <1>1, AlwaysLinkInv, PTL
=============================================================================
