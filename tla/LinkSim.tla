------------------------------- MODULE LinkSim ------------------------------
(***************************************************************************)
(* The link simulator that the transfers are tested through                *)
(* (tools/Linksimulator, file link_sim.c): one thread that relays          *)
(* datagrams between the first host that speaks to it and a destination,   *)
(* and drops, alters or delays those of the simulated direction.           *)
(*                                                                         *)
(* Time is counted in milliseconds.  The packet queue is the one           *)
(* PriorityQueue specifies and MinQueue implements: its head is a slot of  *)
(* least expiration date, any of them when several are equal.              *)
(***************************************************************************)
EXTENDS Integers, Sequences, FiniteSets

CONSTANTS
  Paquets,            \* the datagrams that will reach the simulator
  Hotes, Dest,        \* the hosts, and the one it forwards to
  MsPerSec,           \* milliseconds in a second (1000)
  MaxDelay,           \* the delay is reduced modulo this (10000)
  Delays, Jitters,    \* values of the options -d and -j
  Effets,             \* effects with a rate above 0: "loss", "cut", "error"
  MaxStep,            \* longest wait for a datagram considered
  MaxLate,            \* longest delay of select's timer considered
  MaxBusy             \* how often the socket may be busy (EAGAIN)

LINK_FORWARD == "forward"
LINK_REVERSE == "reverse"
NoAddr       == "no address"

ASSUME LinkAssumption ==
  /\ MsPerSec \in Nat \ {0} /\ MaxDelay \in Nat \ {0} /\ Dest \in Hotes /\ NoAddr \notin Hotes
  /\ Delays \subseteq Nat /\ Jitters \subseteq Nat
  /\ MaxStep \in Nat /\ MaxLate \in Nat /\ MaxBusy \in Nat

VARIABLES
  delay, jitter, link_direction, \* the options
  pc,          \* which call of proxy_loop runs
  last_clock,  \* in milliseconds
  lisible,     \* FD_ISSET(sfd, &rfds)
  src_addr,    \* NoAddr before has_source_addr
  file,        \* pkt_queue: packet -> its slot
  restants,    \* the datagrams not read yet
  envois,      \* what was sent, in order
  occupe       \* how often the socket was busy

options == <<delay, jitter, link_direction>>
vars    == <<options, pc, last_clock, lisible, src_addr, file, restants, envois, occupe>>

-----------------------------------------------------------------------------
Timeval(ms) == [tv_sec |-> ms \div MsPerSec, tv_usec |-> ms % MsPerSec]

(* left > right                                                             *)
SecOnly(left, right) == left.tv_sec > right.tv_sec
timeval_cmp(left, right) ==
  IF left.tv_sec = right.tv_sec THEN left.tv_usec > right.tv_usec
                                ELSE left.tv_sec > right.tv_sec

(* a - b.  A borrow that leaves no whole second leaves tv_usec negative.    *)
NoBorrow(a, b) ==
  LET usec == a.tv_usec - b.tv_usec
  IN [tv_sec  |-> a.tv_sec - b.tv_sec,
      tv_usec |-> IF usec < 0 THEN usec + MsPerSec ELSE usec]
timeval_diff(a, b) ==
  LET sec  == a.tv_sec - b.tv_sec
      usec == a.tv_usec - b.tv_usec
  IN IF usec >= 0 THEN [tv_sec |-> sec, tv_usec |-> usec]
     ELSE [tv_sec |-> sec - 1, tv_usec |-> IF sec = 1 THEN usec ELSE usec + MsPerSec]

Millis(t) == t.tv_sec * MsPerSec + t.tv_usec

(* The slots minq_peek may return.                                          *)
Tetes == {p \in DOMAIN file : \A q \in DOMAIN file : ~timeval_cmp(file[p].ts, file[q].ts)}

(* How long select waits for the slot p at the head of the queue.           *)
NoFloor(p) ==
  LET t == Millis(timeval_diff(file[p].ts, Timeval(last_clock))) IN IF t <= 0 THEN 0 ELSE t
get_queue_timeout(p) ==
  LET timeout == timeval_diff(file[p].ts, Timeval(last_clock))
  IN IF timeout.tv_sec < 0 \/ (timeout.tv_sec = 0 /\ timeout.tv_usec <= 0)
     THEN 1 ELSE Millis(timeout)

(* What simulate_link may add to the current date.                          *)
AppliedDelays ==
  LET total ==
        IF jitter = 0 THEN {delay}
        ELSE IF jitter > delay THEN 0..(delay + jitter - 1)
        ELSE {delay + r - jitter : r \in 0..(2 * jitter - 1)}
  IN {d % MaxDelay : d \in total}

(* Its expiration date: a carry of tv_usec does not reach tv_sec.           *)
Expiration(d) ==
  LET now == Timeval(last_clock)
  IN [tv_sec |-> now.tv_sec + (d \div MsPerSec), tv_usec |-> now.tv_usec + (d % MsPerSec)]

-----------------------------------------------------------------------------
(* main's options, and proxy_loop's first update_time.                      *)
Init ==
  /\ delay \in Delays /\ jitter \in Jitters
  /\ link_direction \in {{LINK_FORWARD}, {LINK_REVERSE}, {LINK_FORWARD, LINK_REVERSE}}
  /\ pc = "select" /\ last_clock \in 0..MsPerSec-1 /\ lisible = FALSE
  /\ src_addr = NoAddr /\ file = [p \in {} |-> 0]
  /\ restants = Paquets /\ envois = <<>> /\ occupe = 0

Stop == pc' = "stop"

(* The socket is busy: the call gives up until the next round.              *)
Busy == occupe < MaxBusy /\ occupe' = occupe + 1

(* select, then update_time: the head's timeout has passed, ...             *)
SelectTimer ==
  /\ pc = "select"
  /\ \E p \in Tetes, late \in 0..MaxLate : last_clock' = last_clock + get_queue_timeout(p) + late
  /\ lisible' = FALSE /\ pc' = "deliver"
  /\ UNCHANGED <<options, src_addr, file, restants, envois, occupe>>

(* ... or the socket is said to be readable.                                *)
SelectReady ==
  /\ pc = "select" /\ (restants # {} \/ occupe < MaxBusy)
  /\ \E ms \in 0..MaxStep : last_clock' = last_clock + ms
  /\ lisible' = TRUE /\ pc' = "deliver"
  /\ UNCHANGED <<options, src_addr, file, restants, envois, occupe>>

(* select or the clock fails.                                               *)
SelectFails ==
  /\ pc = "select" /\ Stop
  /\ UNCHANGED <<options, last_clock, lisible, src_addr, file, restants, envois, occupe>>

-----------------------------------------------------------------------------
AddrOf(direction, src) == IF direction = LINK_FORWARD THEN Dest ELSE src

Sent(p, s, src) ==
  Append(envois, [paquet |-> p, a |-> AddrOf(s.direction, src), etat |-> s.etat,
                  lu |-> s.lu, file |-> s.file])

Expired(p) == timeval_cmp(Timeval(last_clock), file[p].ts)

AfterKept(p) == file
After(p)     == [q \in DOMAIN file \ {p} |-> file[q]]

(* deliver_delayed_pkt: the expired slots in their order, until the socket  *)
(* is busy or fails.                                                        *)
Deliver ==
  /\ pc = "deliver"
  /\ \/ \E p \in Tetes :
          /\ Expired(p)
          /\ envois' = Sent(p, file[p], src_addr)
          /\ file' = After(p)
          /\ UNCHANGED <<pc, occupe>>
     \/ /\ \E p \in Tetes : Expired(p)
        /\ \/ Busy /\ pc' = IF lisible THEN "process" ELSE "select"
           \/ Stop /\ UNCHANGED occupe
        /\ UNCHANGED <<file, envois>>
     \/ /\ ~\E p \in Tetes : Expired(p)
        /\ pc' = IF lisible THEN "process" ELSE "select"
        /\ UNCHANGED <<file, envois, occupe>>
  /\ UNCHANGED <<options, last_clock, lisible, src_addr, restants>>

-----------------------------------------------------------------------------
(* recvfrom has nothing to read, or fails.                                  *)
ReadNothing ==
  /\ pc = "process"
  /\ \/ Busy /\ pc' = "select"
     \/ Stop /\ UNCHANGED occupe
  /\ UNCHANGED <<options, last_clock, lisible, src_addr, file, restants, envois>>

Direction(from, src) ==
  IF from = src THEN LINK_FORWARD ELSE IF from = Dest THEN LINK_REVERSE ELSE "none"

Slot(direction, etat, d, differe) ==
  [ts |-> Expiration(d), direction |-> direction, etat |-> etat,
   lu |-> last_clock, file |-> differe]

(* write_out without delay: any error ends the loop.                        *)
WriteOut(p, s, src) ==
  \/ envois' = Sent(p, s, src) /\ pc' = "select"
  \/ Stop /\ UNCHANGED envois

(* simulate_link: dropped, or altered or not and then delayed or not.       *)
Simulate(p, direction, src) ==
  \/ "loss" \in Effets /\ pc' = "select" /\ UNCHANGED <<file, envois>>
  \/ \E etat \in {"intact"} \cup (Effets \ {"loss"}) :
       \/ /\ delay = 0
          /\ WriteOut(p, Slot(direction, etat, 0, FALSE), src)
          /\ UNCHANGED file
       \/ /\ delay # 0
          /\ \E d \in AppliedDelays :
               file' = [q \in DOMAIN file \cup {p} |->
                          IF q = p THEN Slot(direction, etat, d, TRUE) ELSE file[q]]
          /\ pc' = "select" /\ UNCHANGED envois
  \/ delay # 0 /\ Stop /\ UNCHANGED <<file, envois>>

(* process_incoming_pkt: a malformed datagram, one of an alien, one of the  *)
(* direction that is not simulated, one of the simulated direction.         *)
Process(p, from) ==
  /\ pc = "process"
  /\ restants' = restants \ {p}
  /\ \/ pc' = "select" /\ UNCHANGED <<src_addr, file, envois>>
     \/ LET src       == IF src_addr = NoAddr THEN from ELSE src_addr
            direction == Direction(from, src)
        IN /\ src_addr' = src
           /\ \/ direction = "none" /\ pc' = "select" /\ UNCHANGED <<file, envois>>
              \/ /\ direction \notin link_direction \cup {"none"}
                 /\ WriteOut(p, Slot(direction, "intact", 0, FALSE), src)
                 /\ UNCHANGED file
              \/ direction \in link_direction /\ Simulate(p, direction, src)
  /\ UNCHANGED <<options, last_clock, lisible, occupe>>

Read == \E p \in restants, from \in Hotes : Process(p, from)

Next == SelectTimer \/ SelectReady \/ SelectFails \/ Deliver \/ ReadNothing \/ Read

Spec == Init /\ [][Next]_vars

(* select returns once its timeout has passed, and the thread goes on.      *)
FairSpec ==
  Spec /\ WF_vars(SelectTimer) /\ WF_vars(Deliver) /\ WF_vars(ReadNothing \/ Read)

-----------------------------------------------------------------------------
(* Types; no slot is queued and sent, or sent twice.                        *)
TypeOK ==
  /\ pc \in {"select", "deliver", "process", "stop"}
  /\ last_clock \in Nat /\ lisible \in BOOLEAN /\ src_addr \in Hotes \cup {NoAddr}
  /\ DOMAIN file \subseteq Paquets \ restants
  /\ \A p \in DOMAIN file : file[p].ts \in [tv_sec : Nat, tv_usec : 0..(2 * MsPerSec - 2)]
  /\ \A m \in DOMAIN envois : envois[m].paquet \in Paquets \ (restants \cup DOMAIN file)
  /\ \A m, n \in DOMAIN envois : envois[m].paquet = envois[n].paquet => m = n
  /\ occupe \in 0..MaxBusy

(* Without jitter the link is first in, first out: of two delayed packets   *)
(* read at different dates, the first read leaves first, whichever way they *)
(* go and although expiration dates are not normalised.                     *)
InOrder ==
  jitter = 0 =>
    \A m \in DOMAIN envois : envois[m].file =>
      /\ \A n \in DOMAIN envois : n > m /\ envois[n].file => envois[m].lu <= envois[n].lu
      /\ \A q \in DOMAIN file : envois[m].lu <= file[q].lu

(* select never sleeps past the expiration of the queue's head, but for the *)
(* millisecond that an overdue one waits.                                   *)
NoOversleep ==
  pc = "select" => \A p \in Tetes :
    \/ get_queue_timeout(p) <= 1
    \/ last_clock + get_queue_timeout(p) <= Millis(file[p].ts)

(* A queued packet is sent in the end, unless the loop ends, although an    *)
(* expiration date equal to the current one has not expired.                *)
QueuedSent ==
  \A p \in Paquets : p \in DOMAIN file ~> (p \notin DOMAIN file \/ pc = "stop")
=============================================================================
