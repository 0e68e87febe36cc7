-------------------------- MODULE LongFile20Proofs --------------------------
(***************************************************************************)
(* Group 20's handler keeps its place in a file of any length, for every   *)
(* sequence number space, window and threshold that LongFile20 admits.     *)
(***************************************************************************)
EXTENDS LongFile20, FiniteSetTheorems, SequenceTheorems, TLAPS

Seqnums == 0..SeqMod-1

(* A list of selective acknowledgements is no longer than a window.         *)
Few(S) == IsFiniteSet(S) /\ Cardinality(S) <= MaxWindow

(* Messages, arrivals on the handler's queue, and handlers.                 *)
Acks == [type : {"ACK", "SACK"}, seqnum : Seqnums, sack : SUBSET Seqnums,
         window : 1..MaxWindow, total : Nat]
Arrivals == [m : Acks \cup {Serve!GET}, window : 0..MaxWindow]
Etats == {"libre", "debut", "envoi", "attente", "fini", "muet"}
Handlers ==
  [etat : Etats, base : Nat, lus : Nat, eof : BOOLEAN, reste : SUBSET Nat,
   fenetre : 0..MaxWindow, file : Seq(Arrivals), select : SUBSET Seqnums, recus : Nat,
   silences : Nat, boucle : BOOLEAN, tour : Nat]

TypeInv ==
  /\ existe \in BOOLEAN /\ taille \in 0..MaxMorceaux /\ ecrit \in 0..taille
  /\ fils \in [1..1 -> Handlers] /\ versServeur \subseteq Acks \cup {Serve!GET}

(* What is known of an acknowledgement that is read now or later.           *)
Fresh(a) ==
  /\ a.seqnum = a.total % SeqMod /\ Few(Serve!Select20(a))
  /\ a.total <= ecrit /\ ecrit <= a.total + MaxAge
QueueInv(q) == \A i \in 1..Len(q) : q[i].m # Serve!GET => Fresh(q[i].m)

(* The handler's place: its turn counts the multiples of SeqMod, and        *)
(* about_to_loop is set in the part of a turn above LoopHigh.               *)
Place(f) ==
  /\ f.base = f.tour * SeqMod + (f.base % SeqMod)
  /\ f.boucle <=> f.base % SeqMod > LoopHigh
PlaceInv(f) == Place(f) /\ f.base <= ecrit /\ Few(f.select)

(* While the handler may send, nothing beyond two windows was sent.         *)
Alive(f) == f.etat \notin {"fini", "muet"}
Reach(f) == f.base + 2 * MaxWindow
ReachInv(f) ==
  Alive(f) =>
    /\ ecrit <= Reach(f)
    /\ \A i \in 0..taille-1 : Serve!Paquet(i) \in versClient => i < Reach(f)

(* The inductive invariant.                                                 *)
Inv ==
  /\ TypeInv /\ \A a \in Acquits : Fresh(a)
  /\ QueueInv(fils[1].file) /\ PlaceInv(fils[1]) /\ ReachInv(fils[1])

-----------------------------------------------------------------------------
(* Arithmetic modulo SeqMod.                                                *)

(* Quotient and remainder.                                                  *)
LEMMA Division ==
  ASSUME NEW a \in Int
  PROVE  /\ a % SeqMod \in Seqnums /\ a \div SeqMod \in Int
         /\ a = SeqMod * (a \div SeqMod) + (a % SeqMod)
BY LongFileAssumption DEF Seqnums

(* A turn forward, and a turn back, are at least SeqMod.                    *)
LEMMA Turn ==
  ASSUME NEW q \in Int
  PROVE  /\ q >= 1 => SeqMod * q >= SeqMod
         /\ q <= -1 => SeqMod * q <= -SeqMod
<1>1. ASSUME q >= 1 PROVE SeqMod * q >= SeqMod
  BY <1>1, LongFileAssumption
<1>2. ASSUME q <= -1 PROVE SeqMod * q <= -SeqMod
  BY <1>2, LongFileAssumption
<1> QED BY <1>1, <1>2

(* They are unique.                                                         *)
LEMMA Unique ==
  ASSUME NEW q1 \in Int, NEW q2 \in Int, NEW r1 \in Seqnums, NEW r2 \in Seqnums,
         SeqMod * q1 + r1 = SeqMod * q2 + r2
  PROVE  q1 = q2 /\ r1 = r2
<1>1. SeqMod \in Nat \ {0} /\ r1 \in 0..SeqMod-1 /\ r2 \in 0..SeqMod-1
  BY LongFileAssumption DEF Seqnums
<1>2. SeqMod * (q1 - q2) = r2 - r1
  BY <1>1
<1>3. ~(q1 - q2 >= 1)
  BY <1>1, <1>2, Turn
<1>4. ~(q1 - q2 <= -1)
  BY <1>1, <1>2, Turn
<1>5. q1 = q2
  BY <1>3, <1>4
<1> QED BY <1>1, <1>2, <1>5

(* A number in the form q turns and r is r on the circle.                   *)
LEMMA Remainder ==
  ASSUME NEW a \in Int, NEW q \in Int, NEW r \in Seqnums, a = SeqMod * q + r
  PROVE  a % SeqMod = r
BY Division, Unique

(* Moving forward by less than a turn wraps at most once.                   *)
LEMMA Forward ==
  ASSUME NEW b \in Nat, NEW t \in Nat, b = t * SeqMod + (b % SeqMod), NEW d \in Seqnums
  PROVE  LET r == b % SeqMod
         IN  /\ r + d < SeqMod => (b + d) % SeqMod = r + d
             /\ r + d >= SeqMod => (b + d) % SeqMod = r + d - SeqMod
<1> DEFINE r == b % SeqMod
<1>1. r \in Seqnums /\ SeqMod \in Nat \ {0}
  BY Division, LongFileAssumption
<1>2. b = SeqMod * t + r
  BY <1>1
<1> HIDE DEF r
<1>3. r \in 0..SeqMod-1 /\ d \in 0..SeqMod-1
  BY <1>1 DEF Seqnums
<1>4. ASSUME r + d < SeqMod PROVE (b + d) % SeqMod = r + d
  <2>1. b + d = SeqMod * t + (r + d)
    BY <1>1, <1>2, <1>3
  <2>2. r + d \in Seqnums
    BY <1>1, <1>3, <1>4 DEF Seqnums
  <2>3. b + d \in Int
    BY <1>3
  <2> QED BY <2>1, <2>2, <2>3, Remainder
<1>5. ASSUME r + d >= SeqMod PROVE (b + d) % SeqMod = r + d - SeqMod
  <2>1. b + d = SeqMod * (t + 1) + (r + d - SeqMod)
    BY <1>1, <1>2, <1>3
  <2>2. r + d - SeqMod \in Seqnums
    BY <1>1, <1>3, <1>5 DEF Seqnums
  <2>3. b + d \in Int /\ t + 1 \in Int
    BY <1>3
  <2> QED BY <2>1, <2>2, <2>3, Remainder
<1> QED BY <1>4, <1>5 DEF r

(* How far the acknowledgement of a morceaux seems to be ahead of b: as far *)
(* as it is, or, when it is behind, a turn more.                            *)
LEMMA SeemsAhead ==
  ASSUME NEW a \in Nat, NEW b \in Nat, a - b < SeqMod, b - a <= SeqMod
  PROVE  /\ a >= b => ((a % SeqMod) - b) % SeqMod = a - b
         /\ a < b => ((a % SeqMod) - b) % SeqMod = a - b + SeqMod
<1> DEFINE q == a \div SeqMod
           r == a % SeqMod
<1>1. r \in Seqnums /\ q \in Int /\ a = SeqMod * q + r /\ SeqMod \in Nat \ {0}
  BY Division, LongFileAssumption
<1> HIDE DEF q, r
<1>2. r \in 0..SeqMod-1
  BY <1>1 DEF Seqnums
<1>3. r - b = SeqMod * (-q) + (a - b) /\ r - b = SeqMod * (-q - 1) + (a - b + SeqMod)
  BY <1>1, <1>2
<1>4. r - b \in Int /\ -q \in Int /\ -q - 1 \in Int
  BY <1>1, <1>2
<1>5. ASSUME a >= b PROVE (r - b) % SeqMod = a - b
  <2>1. a - b \in Seqnums
    BY <1>1, <1>5 DEF Seqnums
  <2> QED BY <1>3, <1>4, <2>1, Remainder
<1>6. ASSUME a < b PROVE (r - b) % SeqMod = a - b + SeqMod
  <2>1. a - b + SeqMod \in Seqnums
    BY <1>1, <1>6 DEF Seqnums
  <2> QED BY <1>3, <1>4, <2>1, Remainder
<1> QED BY <1>5, <1>6 DEF r

(* Two numbers less than a turn apart differ on the circle.                 *)
LEMMA SameNumber ==
  ASSUME NEW i \in Nat, NEW j \in Nat, i - j < SeqMod, j - i < SeqMod,
         i % SeqMod = j % SeqMod
  PROVE  i = j
<1>1. /\ i = SeqMod * (i \div SeqMod) + (i % SeqMod) /\ i \div SeqMod \in Int
      /\ j = SeqMod * (j \div SeqMod) + (j % SeqMod) /\ j \div SeqMod \in Int
      /\ i % SeqMod \in Seqnums /\ SeqMod \in Nat \ {0}
  BY Division, LongFileAssumption
<1> DEFINE p == i \div SeqMod
           q == j \div SeqMod
           r == i % SeqMod
<1>2. i = SeqMod * p + r /\ j = SeqMod * q + r /\ p \in Int /\ q \in Int /\ r \in Int
  BY <1>1 DEF Seqnums
<1> HIDE DEF p, q, r
<1>3. i - j = SeqMod * (p - q)
  BY <1>1, <1>2
<1>4. ~(p - q >= 1) /\ ~(p - q <= -1)
  BY <1>1, <1>2, <1>3, Turn
<1>5. p = q
  BY <1>2, <1>4
<1> QED BY <1>2, <1>5
-----------------------------------------------------------------------------
(* What the handler sends.                                                  *)

(* The cardinality PeerServers uses is that of FiniteSets.                  *)
LEMMA SameCardinality ==
  \A S : Serve!Cardinality(S) = Cardinality(S)
BY DEF Serve!Cardinality, Cardinality

(* Intervals of n numbers.                                                  *)
LEMMA Interval ==
  ASSUME NEW b \in Nat, NEW n \in Nat
  PROVE  IsFiniteSet(b..b+n-1) /\ Cardinality(b..b+n-1) = n
<1> DEFINE c == b+n-1
<1>1. b \in Int /\ c \in Int /\ c = b+n-1
  OBVIOUS
<1> HIDE DEF c
<1>2. IsFiniteSet(b..c) /\ Cardinality(b..c) = IF b > c THEN 0 ELSE c-b+1
  BY <1>1, FS_Interval
<1>3. Cardinality(b..c) = n
  BY <1>1, <1>2
<1> QED BY <1>1, <1>2, <1>3

(* Of the numbers in two windows at most one window is in a list.           *)
LEMMA ListedFew ==
  ASSUME NEW b \in Nat, NEW S, Few(S),
         NEW K, K = {j \in b..b+2*MaxWindow-1 : j % SeqMod \in S}
  PROVE  IsFiniteSet(K) /\ Cardinality(K) \in 0..MaxWindow
<1> DEFINE g == [j \in K |-> j % SeqMod]
<1>1. 2 * MaxWindow < SeqMod /\ MaxWindow \in Nat /\ SeqMod \in Nat \ {0}
  BY LongFileAssumption
<1>2. g \in [K -> S]
  OBVIOUS
<1>3. ASSUME NEW i \in K, NEW j \in K, g[i] = g[j] PROVE i = j
  <2>1. i % SeqMod = j % SeqMod
    BY <1>3
  <2>2. i \in Nat /\ j \in Nat /\ i - j < SeqMod /\ j - i < SeqMod
    BY <1>1
  <2> QED BY <2>1, <2>2, SameNumber
<1>4. g \in Injection(K, S)
  BY <1>2, <1>3 DEF Injection, IsInjective
<1>5. IsFiniteSet(K) /\ Cardinality(K) <= Cardinality(S)
  BY <1>4, FS_Injection DEF Few
<1>6. Cardinality(K) \in Nat /\ Cardinality(S) \in Nat /\ Cardinality(S) <= MaxWindow
  BY <1>5, FS_CardinalityType DEF Few
<1> QED BY <1>1, <1>5, <1>6

(* Everything sent is less than two windows past the handler's place.       *)
LEMMA BlocsReach ==
  ASSUME taille \in Nat, NEW f \in Handlers, Few(f.select), NEW i \in Serve!Blocs20(f)
  PROVE  i \in f.base..taille-1 /\ i < Reach(f)
<1> DEFINE b == f.base
           libres == {j \in b..taille-1 : j % SeqMod \notin f.select}
           L == {j \in libres : j < i}
           J == b..b+2*MaxWindow-1
           K == {j \in J : j % SeqMod \in f.select}
<1>1. b \in Nat /\ f.fenetre \in 0..MaxWindow /\ MaxWindow \in Nat /\ 2*MaxWindow \in Nat
  BY LongFileAssumption DEF Handlers
<1>2. i \in libres /\ Serve!Cardinality(L) < f.fenetre
  BY DEF Serve!Blocs20
<1>3. i \in b..taille-1
  BY <1>2
<1>4. Cardinality(L) < f.fenetre
  BY <1>2, SameCardinality
<1>5. IsFiniteSet(K) /\ Cardinality(K) \in 0..MaxWindow
  BY <1>1, ListedFew
<1>6. IsFiniteSet(J) /\ Cardinality(J) = 2 * MaxWindow
  BY <1>1, Interval
<1>7. J \cap K = K
  OBVIOUS
<1>8. IsFiniteSet(J \ K) /\ Cardinality(J \ K) = 2 * MaxWindow - Cardinality(K)
  <2>1. IsFiniteSet(J \ K) /\ Cardinality(J \ K) = Cardinality(J) - Cardinality(J \cap K)
    BY <1>6, FS_Difference
  <2> QED BY <1>6, <1>7, <2>1
<1>9. IsFiniteSet(L)
  <2>1. IsFiniteSet(b..taille-1)
    <3>1. b \in Int /\ taille - 1 \in Int
      BY <1>1
    <3> HIDE DEF b
    <3> QED BY <3>1, FS_Interval
  <2>2. L \in SUBSET (b..taille-1)
    OBVIOUS
  <2> QED BY <2>1, <2>2, FS_Subset
<1>10. ASSUME i >= b + 2 * MaxWindow PROVE FALSE
  <2>1. J \ K \subseteq L
    <3> SUFFICES ASSUME NEW j \in J, j % SeqMod \notin f.select PROVE j \in L
      OBVIOUS
    <3>1. j \in b..taille-1 /\ j < i
      BY <1>1, <1>3, <1>10
    <3> QED BY <3>1
  <2> HIDE DEF J, K, L
  <2>2. Cardinality(J \ K) <= Cardinality(L)
    BY <1>9, <2>1, FS_Subset
  <2>3. Cardinality(L) \in Nat
    BY <1>9, FS_CardinalityType
  <2> QED BY <1>1, <1>4, <1>5, <1>8, <2>2, <2>3
<1> QED BY <1>1, <1>3, <1>10 DEF Reach

(* What a client lists is few.                                              *)
LEMMA SackFew ==
  ASSUME NEW n \in Nat, NEW S \in SUBSET {(n + j) % SeqMod : j \in 1..MaxWindow-1},
         NEW w \in 1..MaxWindow, NEW a, a = Ack(n, S, w)
  PROVE  a \in Acks /\ a.total = n /\ a.seqnum = n % SeqMod /\ Few(Serve!Select20(a))
<1> DEFINE T == {(n + j) % SeqMod : j \in 1..MaxWindow-1}
           g == [j \in 1..MaxWindow-1 |-> (n + j) % SeqMod]
<1>1. MaxWindow \in Nat \ {0} /\ n % SeqMod \in Seqnums
      /\ \A j \in 1..MaxWindow-1 : (n + j) % SeqMod \in Seqnums
  <2>1. MaxWindow \in Nat \ {0}
    BY LongFileAssumption
  <2>2. \A j \in 1..MaxWindow-1 : n + j \in Int
    OBVIOUS
  <2> QED BY <2>1, <2>2, Division
<1>2. a.type \in {"ACK", "SACK"} /\ (a.type = "SACK" => S # {}) /\ a.seqnum = n % SeqMod
      /\ a.sack = S /\ a.window = w /\ a.total = n
  BY DEF Ack
<1>3. S \in SUBSET Seqnums
  BY <1>1
<1>4. a \in Acks
  BY <1>1, <1>3 DEF Ack, Acks
<1>5. IsFiniteSet(1..MaxWindow-1) /\ Cardinality(1..MaxWindow-1) = MaxWindow - 1
  <2>1. 1 \in Nat /\ MaxWindow - 1 \in Nat
    BY <1>1
  <2>2. 1+(MaxWindow-1)-1 = MaxWindow-1
    BY <1>1
  <2>3. /\ IsFiniteSet(1..1+(MaxWindow-1)-1)
        /\ Cardinality(1..1+(MaxWindow-1)-1) = MaxWindow - 1
    BY <2>1, Interval
  <2> QED BY <2>2, <2>3
<1>6. g \in Surjection(1..MaxWindow-1, T)
  BY DEF Surjection
<1>7. IsFiniteSet(T) /\ Cardinality(T) <= MaxWindow - 1
  BY <1>5, <1>6, FS_Surjection
<1>8. IsFiniteSet(S) /\ Cardinality(S) <= Cardinality(T)
  BY <1>7, FS_Subset
<1>9. Cardinality(S) \in Nat /\ Cardinality(T) \in Nat
  BY <1>7, <1>8, FS_CardinalityType
<1>10. Few(S)
  BY <1>1, <1>7, <1>8, <1>9 DEF Few
<1>11. Serve!Select20(a) = S
  BY <1>2 DEF Serve!Select20
<1> QED BY <1>2, <1>4, <1>10, <1>11

-----------------------------------------------------------------------------
(* The handler reads an acknowledgement.                                    *)

(* A place d further on, counted as Avance20 counts: the wrap is between a  *)
(* place above LoopHigh and one below LoopLow, and only there.              *)
LEMMA PlaceAdvances ==
  ASSUME NEW f \in Handlers, Place(f), NEW d \in 0..MaxAvance,
         NEW n, n = (f.base + d) % SeqMod, NEW g, g = Serve!Avance20(f, n)
  PROVE  /\ g \in Handlers /\ Place(g) /\ g.base = f.base + d
         /\ g.etat = f.etat /\ g.file = f.file /\ g.select = f.select /\ g.recus = f.recus
<1> DEFINE r == f.base % SeqMod
           b == f.boucle \/ n > LoopHigh
           p == b /\ n < LoopLow
           t == f.tour + IF p THEN 1 ELSE 0
<1>1. /\ SeqMod \in Nat \ {0} /\ MaxAvance \in Nat /\ LoopLow \in Nat /\ LoopHigh \in Nat
      /\ MaxAvance <= LoopLow /\ LoopLow <= LoopHigh + 1 /\ LoopHigh < SeqMod - MaxAvance
  BY LongFileAssumption
<1>2. f.base \in Nat /\ f.tour \in Nat /\ f.boucle \in BOOLEAN
  BY DEF Handlers
<1>3. r \in Seqnums /\ f.base = f.tour * SeqMod + r /\ (f.boucle <=> r > LoopHigh)
  BY <1>2, Division DEF Place
<1>4. d \in Seqnums
  BY <1>1 DEF Seqnums
<1>5. /\ r + d < SeqMod => n = r + d
      /\ r + d >= SeqMod => n = r + d - SeqMod
  BY <1>2, <1>3, <1>4, Forward
<1>6. g = [f EXCEPT !.boucle = b /\ ~p, !.tour = t, !.base = (t * SeqMod) + n]
  BY DEF Serve!Avance20
<1> HIDE DEF r
<1>7. r \in 0..SeqMod-1 /\ d \in 0..MaxAvance
  BY <1>3 DEF Seqnums
<1>8. f.tour * SeqMod \in Int /\ (f.tour + 1) * SeqMod = f.tour * SeqMod + SeqMod
  BY <1>1, <1>2
<1>9. (r + d < SeqMod /\ n = r + d) \/ (r + d >= SeqMod /\ n = r + d - SeqMod)
  BY <1>1, <1>5, <1>7
<1>10. n \in Nat /\ n < SeqMod
  BY <1>1, <1>7, <1>9
<1>11. p <=> r + d >= SeqMod
  BY <1>1, <1>3, <1>7, <1>9
<1>12. (b /\ ~p) <=> n > LoopHigh
  BY <1>1, <1>3, <1>7, <1>9, <1>11
<1>13. t \in Nat /\ t * SeqMod = f.tour * SeqMod + IF r + d >= SeqMod THEN SeqMod ELSE 0
  <2>1. CASE r + d >= SeqMod
    <3>1. t = f.tour + 1
      BY <1>11, <2>1
    <3> QED BY <1>2, <1>8, <2>1, <3>1
  <2>2. CASE ~(r + d >= SeqMod)
    <3>1. t = f.tour
      BY <1>2, <1>11, <2>2
    <3> QED BY <1>2, <1>8, <2>2, <3>1
  <2> QED BY <2>1, <2>2
<1> DEFINE e == b /\ ~p
<1>14. e \in BOOLEAN
  BY Zenon
<1> HIDE DEF b, p, t
<1>15. (t * SeqMod) + n = f.base + d
  BY <1>1, <1>3, <1>7, <1>8, <1>9, <1>13
<1>16. f.base + d \in Nat
  BY <1>2, <1>7, <1>1
<1>17. /\ g \in Handlers /\ g.boucle = e /\ g.tour = t /\ g.base = f.base + d
       /\ g.etat = f.etat /\ g.file = f.file /\ g.select = f.select /\ g.recus = f.recus
  <2>1. g = [f EXCEPT !.boucle = e, !.tour = t, !.base = f.base + d]
    BY <1>6, <1>15
  <2> HIDE DEF e
  <2>2. t \in Nat
    BY <1>13
  <2> DEFINE c == f.base + d
  <2>3. c \in Nat /\ g = [f EXCEPT !.boucle = e, !.tour = t, !.base = c]
    BY <1>16, <2>1
  <2> HIDE DEF c
  <2>4. /\ g \in Handlers /\ g.boucle = e /\ g.tour = t /\ g.base = c
        /\ g.etat = f.etat /\ g.file = f.file /\ g.select = f.select /\ g.recus = f.recus
    BY ONLY f \in Handlers, <1>14, <2>2, <2>3 DEF Handlers
  <2> QED BY <2>4 DEF c
<1>18. Place(g)
  <2>1. g.base % SeqMod = n
    BY <1>17
  <2> QED BY <1>12, <1>15, <1>17, <2>1 DEF Place
<1> QED BY <1>17, <1>18

(* Of the packets in its queue only an acknowledgement of a place at most   *)
(* MaxAvance ahead moves the handler, and to that place: one that is older  *)
(* looks further ahead than that.                                           *)
LEMMA Lit20Place ==
  ASSUME ecrit \in Nat, NEW f \in Handlers, PlaceInv(f), ecrit <= Reach(f),
         NEW p \in Arrivals, p.m # Serve!GET => Fresh(p.m),
         NEW g, g = Serve!Lit20(f, p)
  PROVE  /\ g \in Handlers /\ PlaceInv(g) /\ g.base \in f.base..f.base+MaxAvance
         /\ g.etat = f.etat /\ g.file = f.file /\ g.recus = f.recus
<1> DEFINE m == p.m
           h == [f EXCEPT !.fenetre = p.window, !.silences = 0, !.select = Serve!Select20(m)]
<1>1. /\ SeqMod \in Nat \ {0} /\ MaxAvance \in Nat /\ MaxAge \in Nat /\ MaxWindow \in Nat
      /\ MaxAge < SeqMod - MaxAvance /\ 2 * MaxWindow < SeqMod /\ f.base \in Nat
  BY LongFileAssumption DEF Handlers
<1>2. CASE g = f
  <2>1. f.base \in f.base..f.base+MaxAvance
    BY <1>1
  <2> QED BY <1>2, <2>1
<1>3. CASE Serve!IsAck(m) /\ ~((m.seqnum - f.base) % SeqMod > MaxAvance)
  <2>1. m # Serve!GET
    BY <1>3 DEF Serve!IsAck, Serve!GET
  <2>2. m \in Acks /\ Fresh(m) /\ p.window \in 0..MaxWindow
    BY <2>1 DEF Arrivals
  <2>3. /\ m.total \in Nat /\ m.seqnum = m.total % SeqMod /\ Few(Serve!Select20(m))
        /\ m.total <= ecrit /\ ecrit <= m.total + MaxAge
    BY <2>2 DEF Acks, Fresh
  <2>4. Serve!Select20(m) \in SUBSET Seqnums
    <3>1. 0 \in Seqnums /\ m.sack \in SUBSET Seqnums
      BY <1>1, <2>2 DEF Acks, Seqnums
    <3> QED BY <3>1 DEF Serve!Select20
  <2>5. f.base <= ecrit /\ ecrit <= f.base + 2 * MaxWindow
    BY DEF PlaceInv, Reach
  <2>6. m.total - f.base < SeqMod /\ f.base - m.total <= MaxAge
    BY <1>1, <2>3, <2>5
  <2>7. m.total >= f.base /\ m.total - f.base <= MaxAvance
    <3>1. /\ m.total >= f.base => (m.seqnum - f.base) % SeqMod = m.total - f.base
          /\ m.total < f.base => (m.seqnum - f.base) % SeqMod = m.total - f.base + SeqMod
      <4>1. f.base - m.total <= SeqMod
        BY <1>1, <2>3, <2>6
      <4> QED BY <1>1, <2>3, <2>6, <4>1, SeemsAhead
    <3>2. ASSUME m.total < f.base PROVE FALSE
      BY <1>1, <1>3, <2>3, <2>6, <3>1, <3>2
    <3> QED BY <1>1, <1>3, <2>3, <3>1, <3>2
  <2>8. /\ h \in Handlers /\ h.select = Serve!Select20(m)
        /\ h.boucle = f.boucle /\ h.tour = f.tour /\ h.base = f.base
        /\ h.etat = f.etat /\ h.file = f.file /\ h.recus = f.recus
    BY <2>2, <2>4 DEF Handlers
  <2>9. g = h \/ g = Serve!Avance20(h, m.seqnum)
    BY <1>3 DEF Serve!Lit20
  <2> HIDE DEF h, m
  <2>10. Place(h)
    BY <2>8 DEF PlaceInv, Place
  <2>11. CASE g = h
    <3>1. h.base \in f.base..f.base+MaxAvance
      BY <1>1, <2>8
    <3> QED BY <2>3, <2>5, <2>8, <2>10, <2>11, <3>1 DEF PlaceInv
  <2>12. CASE g = Serve!Avance20(h, m.seqnum)
    <3> DEFINE d == m.total - f.base
    <3>1. d \in 0..MaxAvance /\ h.base + d = m.total /\ f.base + d = m.total
      BY <1>1, <2>3, <2>7, <2>8
    <3>2. m.seqnum = (h.base + d) % SeqMod
      BY <2>3, <3>1
    <3> HIDE DEF d
    <3>3. /\ g \in Handlers /\ Place(g) /\ g.base = h.base + d
          /\ g.etat = h.etat /\ g.file = h.file /\ g.select = h.select /\ g.recus = h.recus
      BY <2>8, <2>10, <2>12, <3>1, <3>2, PlaceAdvances
    <3>4. g.base = m.total /\ g.base \in f.base..f.base+MaxAvance
      BY <1>1, <2>3, <2>7, <3>1, <3>3
    <3> QED BY <2>3, <2>8, <3>3, <3>4 DEF PlaceInv
  <2> QED BY <2>9, <2>11, <2>12
<1>4. g = f \/ (Serve!IsAck(m) /\ ~((m.seqnum - f.base) % SeqMod > MaxAvance))
  BY DEF Serve!Lit20
<1> QED BY <1>2, <1>3, <1>4

-----------------------------------------------------------------------------
(* The invariant.                                                           *)

(* What is known of an acknowledgement stays known while the client writes  *)
(* nothing more.                                                            *)
LEMMA SameFresh ==
  ASSUME ecrit' = ecrit, NEW a
  PROVE  Fresh(a)' <=> Fresh(a)
BY DEF Fresh, Serve!Select20

(* The frame of the handler's steps.                                        *)
LEMMA HandlerFrame ==
  ASSUME Inv, UNCHANGED <<existe, taille, ecrit, versServeur>>,
         fils' \in [1..1 -> Handlers], QueueInv(fils'[1].file), PlaceInv(fils'[1]),
         Alive(fils'[1]) => Alive(fils[1]) /\ fils'[1].base >= fils[1].base,
         Alive(fils'[1]) => \A i \in 0..taille-1 : Serve!Paquet(i) \in versClient' =>
           Serve!Paquet(i) \in versClient \/ i < Reach(fils'[1])
  PROVE  Inv'
<1>1. TypeInv'
  BY DEF Inv, TypeInv
<1>2. \A a \in Acquits' : Fresh(a)'
  BY SameFresh DEF Inv, Acquits, Serve!GET
<1>3. QueueInv(fils[1].file)'
  BY SameFresh DEF QueueInv, Serve!GET
<1>4. PlaceInv(fils[1])'
  BY DEF PlaceInv, Place, Few
<1>5. ASSUME Alive(fils'[1]) PROVE ecrit' <= Reach(fils'[1])
                                   /\ \A i \in 0..taille'-1 :
                                        Serve!Paquet(i)' \in versClient' => i < Reach(fils'[1])
  <2>1. /\ Alive(fils[1]) /\ fils'[1].base >= fils[1].base
        /\ fils'[1].base \in Nat /\ fils[1].base \in Nat /\ MaxWindow \in Nat
    BY <1>5, LongFileAssumption DEF Inv, TypeInv, Handlers
  <2>2. Reach(fils[1]) <= Reach(fils'[1]) /\ Reach(fils[1]) \in Nat /\ Reach(fils'[1]) \in Nat
    BY <2>1 DEF Reach
  <2>3. ecrit \in Nat /\ ecrit' = ecrit /\ taille' = taille /\ ecrit <= Reach(fils[1])
    BY <2>1 DEF Inv, TypeInv, ReachInv
  <2>4. ASSUME NEW i \in 0..taille'-1, Serve!Paquet(i)' \in versClient'
        PROVE  i < Reach(fils'[1])
    <3>1. Serve!Paquet(i)' = Serve!Paquet(i) /\ i \in 0..taille-1
      BY <2>3 DEF Serve!Paquet
    <3>2. Serve!Paquet(i) \in versClient \/ i < Reach(fils'[1])
      BY <1>5, <2>4, <3>1
    <3>3. Serve!Paquet(i) \in versClient => i < Reach(fils[1])
      BY <2>1, <3>1 DEF Inv, ReachInv
    <3> QED BY <2>2, <3>2, <3>3
  <2> QED BY <2>2, <2>3, <2>4
<1>6. ReachInv(fils[1])'
  BY <1>5 DEF ReachInv, Alive, Reach
<1> QED BY <1>1, <1>2, <1>3, <1>4, <1>6 DEF Inv

(* The handler is one.                                                      *)
LEMMA OneHandler ==
  ASSUME TypeInv
  PROVE  /\ fils \in [1..1 -> Handlers] /\ fils[1] \in Handlers
         /\ \A g \in Handlers : /\ [fils EXCEPT ![1] = g] \in [1..1 -> Handlers]
                                /\ [fils EXCEPT ![1] = g][1] = g
BY DEF TypeInv

(* End packets and the answer to the request are no morceaux.               *)
LEMMA NotData ==
  ASSUME taille \in Nat, NEW i \in 0..taille-1, NEW n
  PROVE  Serve!Paquet(i) # Serve!CONN /\ Serve!Paquet(i) # Serve!FIN(n)
<1>1. Serve!Paquet(i).type = "DATA"
  BY DEF Serve!Paquet
<1>2. Serve!CONN.type = "CONN" /\ Serve!FIN(n).type = "FIN"
  BY DEF Serve!CONN, Serve!FIN
<1> QED BY <1>1, <1>2

(* Packets of different morceaux are different.                             *)
LEMMA PaquetInjective ==
  ASSUME taille \in Nat, NEW i \in 0..taille-1, NEW j \in 0..taille-1,
         Serve!Paquet(i) = Serve!Paquet(j)
  PROVE  i = j
<1>1. Serve!Paquet(i).morceau = i /\ Serve!Paquet(j).morceau = j
  BY DEF Serve!Paquet
<1> QED BY <1>1

(* The request and its first answer.                                        *)
LEMMA DebutInv ==
  ASSUME Inv, Serve!Nouveau20 \/ Serve!Debut20, ecrit' = ecrit
  PROVE  Inv'
<1> DEFINE f == fils[1]
<1>1. /\ f \in Handlers /\ TypeInv /\ QueueInv(f.file) /\ PlaceInv(f)
      /\ UNCHANGED <<existe, taille, versServeur>>
  BY OneHandler DEF Inv, Serve!Nouveau20, Serve!Debut20, Serve!Repos
<1>2. 1 \in 0..MaxWindow /\ f.base \in Nat
  BY <1>1, LongFileAssumption DEF Handlers
<1>3. CASE Serve!Nouveau20
  <2> DEFINE g == [f EXCEPT !.etat = "debut"]
  <2>1. /\ g \in Handlers /\ g.file = f.file /\ g.base = f.base /\ g.select = f.select
        /\ g.tour = f.tour /\ g.boucle = f.boucle
    BY <1>1 DEF Handlers, Etats
  <2>2. fils' = [fils EXCEPT ![1] = g] /\ versClient' = versClient /\ f.etat = "libre"
    BY <1>3 DEF Serve!Nouveau20
  <2> HIDE DEF g
  <2>3. fils' \in [1..1 -> Handlers] /\ fils'[1] = g
    BY <1>1, <2>1, <2>2, OneHandler
  <2>4. PlaceInv(g)
    BY <1>1, <2>1 DEF PlaceInv, Place
  <2>5. Alive(f) /\ g.base >= f.base
    BY <1>2, <2>1, <2>2 DEF Alive
  <2> HIDE DEF f
  <2> QED BY <1>1, <2>1, <2>2, <2>3, <2>4, <2>5, HandlerFrame DEF f
<1>4. CASE Serve!Debut20
  <2> DEFINE g == [f EXCEPT !.etat = IF existe THEN "envoi" ELSE "fini", !.fenetre = 1]
  <2>1. /\ g \in Handlers /\ g.file = f.file /\ g.base = f.base /\ g.select = f.select
        /\ g.tour = f.tour /\ g.boucle = f.boucle
    BY <1>1, <1>2 DEF Handlers, Etats
  <2>2. /\ fils' = [fils EXCEPT ![1] = g] /\ f.etat = "debut"
        /\ versClient' = versClient \cup {IF existe THEN Serve!CONN ELSE Serve!FIN(0)}
    <3>1. [fils EXCEPT ![1].etat = IF existe THEN "envoi" ELSE "fini", ![1].fenetre = 1]
            = [fils EXCEPT ![1] = g]
      BY <1>1 DEF TypeInv, Handlers
    <3> QED BY <1>4, <3>1 DEF Serve!Debut20, Serve!Envoie
  <2> HIDE DEF g
  <2>3. fils' \in [1..1 -> Handlers] /\ fils'[1] = g
    BY <1>1, <2>1, <2>2, OneHandler
  <2>4. PlaceInv(g)
    BY <1>1, <2>1 DEF PlaceInv, Place
  <2>5. Alive(f) /\ g.base >= f.base
    BY <1>2, <2>1, <2>2 DEF Alive
  <2>6. \A i \in 0..taille-1 : Serve!Paquet(i) \in versClient' => Serve!Paquet(i) \in versClient
    BY <1>1, <2>2, NotData DEF TypeInv
  <2> HIDE DEF f
  <2> QED BY <1>1, <2>1, <2>3, <2>4, <2>5, <2>6, HandlerFrame DEF f
<1> QED BY <1>3, <1>4

(* A packet goes on the queue.                                              *)
LEMMA DeposeInv ==
  ASSUME Inv, ecrit' = ecrit,
         \/ Serve!Depose20(Serve!GET, 0)
         \/ \E m \in Acquits : Serve!Depose20(m, m.window)
  PROVE  Inv' /\ fils'[1].base = fils[1].base
<1> DEFINE f == fils[1]
<1>1. f \in Handlers /\ TypeInv /\ QueueInv(f.file) /\ PlaceInv(f) /\ f.file \in Seq(Arrivals)
      /\ f.base \in Nat
  BY OneHandler DEF Inv, Handlers
<1>2. PICK m, w : /\ Serve!Depose20(m, w) /\ [m |-> m, window |-> w] \in Arrivals
                  /\ (m # Serve!GET => Fresh(m))
  <2>1. CASE Serve!Depose20(Serve!GET, 0)
    <3>1. 0 \in 0..MaxWindow
      BY LongFileAssumption
    <3> QED BY <2>1, <3>1 DEF Arrivals
  <2>2. ASSUME NEW m \in Acquits, Serve!Depose20(m, m.window)
        PROVE  [m |-> m, window |-> m.window] \in Arrivals /\ Fresh(m)
    <3>1. m \in Acks /\ Fresh(m)
      BY <1>1 DEF Inv, TypeInv, Acquits
    <3>2. m.window \in 0..MaxWindow
      BY <3>1, LongFileAssumption DEF Acks
    <3> QED BY <3>1, <3>2 DEF Arrivals
  <2> QED BY <2>1, <2>2
<1> DEFINE a == [m |-> m, window |-> w]
           q == Append(f.file, a)
           g == [f EXCEPT !.file = q]
<1>3. /\ fils' = [fils EXCEPT ![1] = g] /\ versClient' = versClient
      /\ UNCHANGED <<existe, taille, versServeur>> /\ f.etat \in {"debut", "envoi", "attente"}
  BY <1>1, <1>2 DEF Serve!Depose20, Serve!Repos
<1>4. a \in Arrivals /\ a.m = m
  BY <1>2
<1> HIDE DEF a
<1>5. q \in Seq(Arrivals) /\ Len(q) = Len(f.file) + 1 /\ Len(f.file) \in Nat
      /\ \A i \in 1..Len(q) : q[i] = IF i <= Len(f.file) THEN f.file[i] ELSE a
  BY <1>1, <1>4, AppendProperties, LenProperties
<1>6. QueueInv(q)
  <2> SUFFICES ASSUME NEW i \in 1..Len(q), q[i].m # Serve!GET PROVE Fresh(q[i].m)
    BY DEF QueueInv
  <2>1. CASE i \in 1..Len(f.file)
    <3>1. q[i] = f.file[i]
      BY <1>5, <2>1
    <3> QED BY <1>1, <2>1, <3>1 DEF QueueInv
  <2>2. CASE ~(i \in 1..Len(f.file))
    <3>1. q[i] = a
      BY <1>5, <2>2
    <3> QED BY <1>2, <1>4, <3>1
  <2> QED BY <2>1, <2>2
<1> HIDE DEF q
<1>7. /\ g \in Handlers /\ g.file = q /\ g.base = f.base /\ g.select = f.select
      /\ g.tour = f.tour /\ g.boucle = f.boucle
  BY <1>1, <1>5 DEF Handlers
<1> HIDE DEF g
<1>8. fils' \in [1..1 -> Handlers] /\ fils'[1] = g
  BY <1>1, <1>3, <1>7, OneHandler
<1>9. PlaceInv(g)
  BY <1>1, <1>7 DEF PlaceInv, Place
<1>10. Alive(f) /\ g.base >= f.base
  BY <1>1, <1>3, <1>7 DEF Alive
<1>11. fils'[1].base = f.base
  BY <1>7, <1>8
<1> HIDE DEF f
<1>12. Inv'
  BY <1>3, <1>6, <1>7, <1>8, <1>9, <1>10, HandlerFrame DEF f
<1> QED BY <1>11, <1>12 DEF f

(* A handler that has not begun or has ended.                               *)
LEMMA LibreHandler ==
  /\ Serve!Libre \in Handlers
  /\ \A e \in {"fini", "muet", "libre"} :
       /\ [Serve!Libre EXCEPT !.etat = e] \in Handlers
       /\ [Serve!Libre EXCEPT !.etat = e].file = <<>>
       /\ [Serve!Libre EXCEPT !.etat = e].base = 0
       /\ [Serve!Libre EXCEPT !.etat = e].select = {}
       /\ [Serve!Libre EXCEPT !.etat = e].tour = 0
       /\ [Serve!Libre EXCEPT !.etat = e].boucle = FALSE
       /\ [Serve!Libre EXCEPT !.etat = e].etat = e
<1>1. <<>> \in Seq(Arrivals) /\ 0 \in 0..MaxWindow
  BY EmptySeq, LongFileAssumption
<1> QED BY <1>1 DEF Serve!Libre, Handlers, Etats

(* Its place is the beginning of the file.                                  *)
LEMMA StartPlace ==
  ASSUME ecrit \in Nat, NEW g, g.base = 0, g.tour = 0, g.boucle = FALSE, g.select = {},
         g.file = <<>>
  PROVE  PlaceInv(g) /\ QueueInv(g.file)
<1>1. SeqMod \in Nat \ {0} /\ MaxWindow \in Nat /\ LoopHigh \in Nat
  BY LongFileAssumption
<1>2. 0 % SeqMod = 0 /\ 0 * SeqMod = 0
  BY <1>1
<1>3. Few(g.select)
  BY <1>1, FS_EmptySet DEF Few
<1>4. QueueInv(g.file)
  BY EmptySeq DEF QueueInv
<1> QED BY <1>1, <1>2, <1>3, <1>4 DEF PlaceInv, Place

(* The handler sends the packets of a window, or the end packet.            *)
LEMMA EnvoiInv ==
  ASSUME Inv, Serve!Envoi20, ecrit' = ecrit
  PROVE  Inv' /\ (Alive(fils'[1]) => fils'[1].base = fils[1].base)
<1> DEFINE f == fils[1]
<1>1. /\ f \in Handlers /\ TypeInv /\ QueueInv(f.file) /\ PlaceInv(f) /\ f.etat = "envoi"
      /\ UNCHANGED <<existe, taille, versServeur>> /\ f.base \in Nat /\ taille \in Nat
  BY OneHandler DEF Inv, Serve!Envoi20, Serve!Repos, Handlers, TypeInv
<1>2. CASE /\ Serve!Blocs20(f) = {}
           /\ fils' = [fils EXCEPT ![1] = [Serve!Libre EXCEPT !.etat = "fini"]]
  <2> DEFINE g == [Serve!Libre EXCEPT !.etat = "fini"]
  <2>1. /\ g \in Handlers /\ g.file = <<>> /\ g.base = 0 /\ g.select = {}
        /\ g.tour = 0 /\ g.boucle = FALSE /\ g.etat = "fini"
    BY LibreHandler
  <2> HIDE DEF g
  <2>2. fils' \in [1..1 -> Handlers] /\ fils'[1] = g
    BY <1>1, <1>2, <2>1, OneHandler DEF g
  <2>3. ecrit \in Nat
    BY <1>1 DEF TypeInv
  <2>4. QueueInv(g.file) /\ PlaceInv(g) /\ ~Alive(g)
    BY <2>1, <2>3, StartPlace DEF Alive
  <2> HIDE DEF f
  <2> QED BY <1>1, <2>2, <2>4, HandlerFrame
<1>3. CASE /\ versClient' = versClient \cup {Serve!Paquet(i) : i \in Serve!Blocs20(f)}
           /\ fils' = [fils EXCEPT ![1].etat = "attente", ![1].select = {}, ![1].recus = 0]
  <2> DEFINE g == [f EXCEPT !.etat = "attente", !.select = {}, !.recus = 0]
  <2>1. /\ g \in Handlers /\ g.file = f.file /\ g.base = f.base /\ g.select = {}
        /\ g.tour = f.tour /\ g.boucle = f.boucle
    BY <1>1 DEF Handlers, Etats
  <2>2. fils' = [fils EXCEPT ![1] = g]
    <3>1. [fils EXCEPT ![1].etat = "attente", ![1].select = {}, ![1].recus = 0]
            = [fils EXCEPT ![1] = g]
      BY <1>1 DEF TypeInv, Handlers
    <3> QED BY <1>3, <3>1
  <2> HIDE DEF g
  <2>3. fils' \in [1..1 -> Handlers] /\ fils'[1] = g
    BY <1>1, <2>1, <2>2, OneHandler
  <2>4. Few({})
    BY FS_EmptySet, LongFileAssumption DEF Few
  <2>5. PlaceInv(g)
    BY <1>1, <2>1, <2>4 DEF PlaceInv, Place
  <2>6. ASSUME NEW i \in 0..taille-1, Serve!Paquet(i) \in versClient'
        PROVE  Serve!Paquet(i) \in versClient \/ i < Reach(g)
    <3>1. CASE Serve!Paquet(i) \in versClient
      BY <3>1
    <3>2. CASE \E j \in Serve!Blocs20(f) : Serve!Paquet(i) = Serve!Paquet(j)
      <4>1. PICK j \in Serve!Blocs20(f) : Serve!Paquet(i) = Serve!Paquet(j)
        BY <3>2
      <4>2. j \in f.base..taille-1 /\ j < Reach(f)
        BY <1>1, <4>1, BlocsReach DEF PlaceInv
      <4>3. j \in 0..taille-1
        BY <1>1, <4>2
      <4>4. i = j
        BY <1>1, <4>1, <4>3, PaquetInjective
      <4> QED BY <2>1, <4>2, <4>4 DEF Reach
    <3> QED BY <1>3, <2>6, <3>1, <3>2
  <2>7. Alive(f) /\ g.base >= f.base
    BY <1>1, <2>1 DEF Alive
  <2> HIDE DEF f
  <2> QED BY <1>1, <2>1, <2>3, <2>5, <2>6, <2>7, HandlerFrame DEF f
<1> QED BY <1>2, <1>3 DEF Serve!Envoi20, Serve!Envoie

(* What is left of the queue when its newest packet is read.                *)
LEMMA QueueFront ==
  ASSUME NEW q \in Seq(Arrivals), QueueInv(q), q # <<>>, NEW n, n = Len(q)
  PROVE  /\ q[n] \in Arrivals /\ (q[n].m # Serve!GET => Fresh(q[n].m))
         /\ SubSeq(q, 1, n - 1) \in Seq(Arrivals) /\ QueueInv(SubSeq(q, 1, n - 1))
<1>1. n \in Nat \ {0}
  BY LenProperties, EmptySeq
<1>2. q[n] \in Arrivals /\ n \in 1..Len(q)
  BY <1>1, ElementOfSeq
<1>3. \A i \in 1..n-1 : q[i] \in Arrivals /\ i \in 1..Len(q)
  BY <1>1, ElementOfSeq
<1> DEFINE s == SubSeq(q, 1, n - 1)
<1>4. s \in Seq(Arrivals) /\ Len(s) = n - 1 /\ \A i \in 1..n-1 : s[i] = q[i]
  BY <1>1, <1>3, SubSeqProperties
<1> HIDE DEF s
<1>5. QueueInv(s)
  <2> SUFFICES ASSUME NEW i \in 1..n-1, s[i].m # Serve!GET PROVE Fresh(s[i].m)
    BY <1>4 DEF QueueInv
  <2>1. s[i] = q[i]
    BY <1>4
  <2> QED BY <1>3, <2>1 DEF QueueInv
<1> QED BY <1>2, <1>4, <1>5 DEF QueueInv, s

(* The handler reads a packet, clears its queue or waits in vain.           *)
LEMMA AttenteInv ==
  ASSUME Inv, Serve!Attente20, ecrit' = ecrit
  PROVE  Inv' /\ (Alive(fils'[1]) => fils'[1].base \in fils[1].base..fils[1].base+MaxAvance)
<1> DEFINE f == fils[1]
           n == Len(f.file)
           h == [f EXCEPT !.file = SubSeq(@, 1, n - 1), !.recus = @ + 1]
           p == f.file[n]
           l == Serve!Lit20(h, p)
<1>1. /\ f \in Handlers /\ TypeInv /\ QueueInv(f.file) /\ PlaceInv(f) /\ f.etat = "attente"
      /\ UNCHANGED <<existe, taille, versServeur, versClient>> /\ f.file \in Seq(Arrivals)
      /\ f.base \in Nat /\ ecrit \in Nat /\ ecrit <= Reach(f) /\ MaxAvance \in Nat
  <2>1. f \in Handlers /\ TypeInv /\ QueueInv(f.file) /\ PlaceInv(f) /\ ReachInv(f)
    BY OneHandler DEF Inv
  <2>2. f.etat = "attente" /\ UNCHANGED <<existe, taille, versServeur, versClient>>
    BY DEF Serve!Attente20, Serve!Repos
  <2>3. f.file \in Seq(Arrivals) /\ f.base \in Nat /\ MaxAvance \in Nat
    BY <2>1, LongFileAssumption DEF Handlers
  <2>4. ecrit \in Nat
    BY <2>1 DEF TypeInv
  <2>5. ecrit <= Reach(f)
    BY <2>1, <2>2 DEF ReachInv, Alive
  <2> QED BY <2>1, <2>2, <2>3, <2>4, <2>5
<1>2. \/ /\ f.file = <<>>
         /\ fils' = [fils EXCEPT ![1] =
              IF f.silences + 1 >= MaxMuet THEN [Serve!Libre EXCEPT !.etat = "muet"]
              ELSE [f EXCEPT !.silences = @ + 1, !.etat = "envoi"]]
      \/ /\ f.file # <<>>
         /\ fils' = [fils EXCEPT ![1] = IF l.recus < MaxAcks THEN l
                                        ELSE [l EXCEPT !.file = <<>>, !.etat = "envoi"]]
  BY DEF Serve!Attente20
<1>3. ASSUME NEW g \in Handlers, fils' = [fils EXCEPT ![1] = g], QueueInv(g.file), PlaceInv(g),
             Alive(g) => g.base \in f.base..f.base+MaxAvance
      PROVE  Inv' /\ (Alive(fils'[1]) => fils'[1].base \in f.base..f.base+MaxAvance)
  <2>1. fils' \in [1..1 -> Handlers] /\ fils'[1] = g
    BY <1>1, <1>3, OneHandler
  <2>2. Alive(g) => Alive(f) /\ g.base >= f.base
    BY <1>1, <1>3 DEF Alive
  <2> HIDE DEF f
  <2> QED BY <1>1, <1>3, <2>1, <2>2, HandlerFrame DEF f
<1>4. f.base \in f.base..f.base+MaxAvance
  BY <1>1
<1>5. CASE /\ f.silences + 1 >= MaxMuet
           /\ fils' = [fils EXCEPT ![1] = [Serve!Libre EXCEPT !.etat = "muet"]]
  <2> DEFINE g == [Serve!Libre EXCEPT !.etat = "muet"]
  <2>1. /\ g \in Handlers /\ g.file = <<>> /\ g.base = 0 /\ g.select = {}
        /\ g.tour = 0 /\ g.boucle = FALSE /\ g.etat = "muet"
    BY LibreHandler
  <2>2. fils' = [fils EXCEPT ![1] = g]
    BY <1>5
  <2> HIDE DEF f, g
  <2>3. QueueInv(g.file) /\ PlaceInv(g) /\ ~Alive(g)
    BY <1>1, <2>1, StartPlace DEF Alive, TypeInv
  <2> QED BY <1>3, <2>1, <2>2, <2>3 DEF f
<1>6. CASE fils' = [fils EXCEPT ![1] = [f EXCEPT !.silences = @ + 1, !.etat = "envoi"]]
  <2> DEFINE g == [f EXCEPT !.silences = @ + 1, !.etat = "envoi"]
  <2>1. /\ g \in Handlers /\ g.file = f.file /\ g.base = f.base /\ g.select = f.select
        /\ g.tour = f.tour /\ g.boucle = f.boucle
    <3>1. f.silences + 1 \in Nat /\ "envoi" \in Etats
      BY <1>1 DEF Handlers, Etats
    <3> QED BY <1>1, <3>1 DEF Handlers
  <2>2. fils' = [fils EXCEPT ![1] = g]
    BY <1>6
  <2> HIDE DEF g
  <2>3. QueueInv(g.file) /\ PlaceInv(g)
    BY <1>1, <2>1 DEF PlaceInv, Place
  <2> HIDE DEF f
  <2> QED BY <1>3, <1>4, <2>1, <2>2, <2>3 DEF f
<1>7. CASE /\ f.file # <<>>
           /\ fils' = [fils EXCEPT ![1] = IF l.recus < MaxAcks THEN l
                                          ELSE [l EXCEPT !.file = <<>>, !.etat = "envoi"]]
  <2> DEFINE q == SubSeq(f.file, 1, n - 1)
  <2>1. /\ p \in Arrivals /\ (p.m # Serve!GET => Fresh(p.m))
        /\ q \in Seq(Arrivals) /\ QueueInv(q)
    BY <1>1, <1>7, QueueFront
  <2>4. /\ h \in Handlers /\ h.file = q /\ h.base = f.base /\ h.select = f.select
        /\ h.tour = f.tour /\ h.boucle = f.boucle /\ h.etat = f.etat
    <3>1. f.recus + 1 \in Nat
      BY <1>1 DEF Handlers
    <3> HIDE DEF q
    <3>2. h = [f EXCEPT !.file = q, !.recus = @ + 1]
      BY DEF q
    <3> QED BY <1>1, <2>1, <3>1, <3>2 DEF Handlers
  <2> HIDE DEF h, p, q
  <2>5. PlaceInv(h) /\ ecrit <= Reach(h)
    BY <1>1, <2>4 DEF PlaceInv, Place, Reach
  <2>6. /\ l \in Handlers /\ PlaceInv(l) /\ l.base \in f.base..f.base+MaxAvance
        /\ l.etat = f.etat /\ l.file = q
    BY <1>1, <2>1, <2>4, <2>5, Lit20Place
  <2> HIDE DEF l
  <2>7. CASE fils' = [fils EXCEPT ![1] = l]
    <3> HIDE DEF f
    <3> QED BY <1>3, <2>1, <2>6, <2>7 DEF f
  <2>8. CASE fils' = [fils EXCEPT ![1] = [l EXCEPT !.file = <<>>, !.etat = "envoi"]]
    <3> DEFINE g == [l EXCEPT !.file = <<>>, !.etat = "envoi"]
    <3>1. /\ g \in Handlers /\ g.file = <<>> /\ g.base = l.base /\ g.select = l.select
          /\ g.tour = l.tour /\ g.boucle = l.boucle
      <4>1. <<>> \in Seq(Arrivals) /\ "envoi" \in Etats
        BY EmptySeq DEF Etats
      <4> QED BY <2>6, <4>1 DEF Handlers
    <3>2. fils' = [fils EXCEPT ![1] = g]
      BY <2>8
    <3> HIDE DEF g
    <3>3. QueueInv(g.file)
      BY <3>1, EmptySeq DEF QueueInv
    <3>4. PlaceInv(g)
      BY <2>6, <3>1 DEF PlaceInv, Place
    <3> HIDE DEF f
    <3> QED BY <1>3, <2>6, <3>1, <3>2, <3>3, <3>4 DEF f
  <2> QED BY <1>7, <2>7, <2>8
<1> QED BY <1>2, <1>5, <1>6, <1>7

(* The client writes what was sent and acknowledges it.                     *)
LEMMA RecoitInv ==
  ASSUME Inv, NEW n \in 0..taille, NEW w \in 1..MaxWindow,
         NEW S \in SUBSET {(n + j) % SeqMod : j \in 1..MaxWindow-1}, Recoit(n, S, w)
  PROVE  Inv'
<1> DEFINE f == fils[1]
           x == Ack(n, S, w)
<1>1. /\ TypeInv /\ QueueInv(f.file) /\ PlaceInv(f) /\ ReachInv(f)
      /\ \A a \in Acquits : Fresh(a)
      /\ taille \in Nat /\ ecrit \in 0..taille /\ MaxAge \in Nat /\ f \in Handlers
      /\ f.file \in Seq(Arrivals)
  BY LongFileAssumption, OneHandler DEF Inv, TypeInv, Handlers
<1>2. /\ n \in ecrit..taille /\ ecrit' = n
      /\ \A i \in ecrit..n-1 : Serve!Paquet(i) \in versClient
      /\ \A a \in Acquits \cup EnFile : n <= a.total + MaxAge
      /\ versServeur' = versServeur \cup {x}
      /\ UNCHANGED <<existe, taille, fils, enreg, versClient>>
  BY DEF Recoit
<1>3. x \in Acks /\ x.total = n /\ x.seqnum = n % SeqMod /\ Few(Serve!Select20(x))
  <2>1. n \in Nat
    BY <1>1
  <2> QED BY <2>1, SackFew
<1>4. Fresh(x)'
  BY <1>1, <1>2, <1>3 DEF Fresh, Serve!Select20, Few
<1> HIDE DEF x
<1>5. ASSUME NEW a \in Acks, Fresh(a), n <= a.total + MaxAge PROVE Fresh(a)'
  <2>1. a.total \in Nat /\ a.total <= ecrit /\ ecrit <= n /\ ecrit \in Nat /\ n \in Nat
    BY <1>1, <1>2, <1>5 DEF Fresh, Acks
  <2> QED BY <1>2, <1>5, <2>1 DEF Fresh, Serve!Select20, Few
<1>6. \A a \in Acquits' : Fresh(a)'
  <2> SUFFICES ASSUME NEW a \in Acquits' PROVE Fresh(a)'
    OBVIOUS
  <2>1. CASE a = x
    BY <1>4, <2>1 DEF Fresh, Serve!Select20
  <2>2. CASE a \in Acquits
    <3>1. a \in Acks /\ Fresh(a) /\ n <= a.total + MaxAge
      BY <1>1, <1>2, <2>2 DEF Acquits, TypeInv
    <3> QED BY <1>5, <3>1
  <2> QED BY <1>2, <2>1, <2>2 DEF Acquits, Serve!GET
<1>7. QueueInv(fils[1].file)'
  <2> SUFFICES ASSUME NEW i \in 1..Len(f.file), NEW a, a = f.file[i].m, a # Serve!GET
               PROVE  Fresh(a)'
    BY <1>2 DEF QueueInv, Serve!GET
  <2>1. f.file[i] \in Arrivals
    BY <1>1, ElementOfSeq
  <2>2. a \in Acks /\ Fresh(a)
    BY <1>1, <2>1 DEF Arrivals, QueueInv
  <2>3. n <= a.total + MaxAge
    BY <1>2 DEF EnFile
  <2> QED BY <1>5, <2>2, <2>3
<1>8. TypeInv'
  <2>1. ecrit' \in 0..taille'
    BY <1>1, <1>2
  <2>2. versServeur' \subseteq Acks \cup {Serve!GET}
    BY <1>1, <1>2, <1>3 DEF TypeInv
  <2> QED BY <1>1, <1>2, <2>1, <2>2 DEF TypeInv, Serve!GET
<1>9. PlaceInv(fils[1])'
  <2>1. f.base \in Nat /\ f.base <= ecrit /\ ecrit <= ecrit'
    BY <1>1, <1>2 DEF Handlers, PlaceInv
  <2>2. f.base <= ecrit'
    BY <1>1, <1>2, <2>1
  <2> QED BY <1>1, <1>2, <2>2 DEF PlaceInv, Place, Few
<1>10. ASSUME Alive(f) PROVE ecrit' <= Reach(f)
  <2>1. Reach(f) \in Nat /\ ecrit <= Reach(f)
    <3>1. f.base \in Nat /\ MaxWindow \in Nat
      BY <1>1, LongFileAssumption DEF Handlers
    <3>2. Reach(f) \in Nat
      BY <3>1 DEF Reach
    <3> QED BY <1>1, <1>10, <3>2 DEF ReachInv
  <2>2. CASE n > ecrit
    <3>1. n-1 \in ecrit..n-1 /\ n-1 \in 0..taille-1
      BY <1>1, <1>2, <2>2
    <3>2. n-1 < Reach(f)
      BY <1>1, <1>2, <1>10, <3>1 DEF ReachInv
    <3> QED BY <1>1, <1>2, <2>1, <3>2
  <2>3. CASE n = ecrit
    BY <1>2, <2>1, <2>3
  <2> QED BY <1>1, <1>2, <2>2, <2>3
<1>11. ReachInv(fils[1])'
  <2>1. \A i : Serve!Paquet(i)' = Serve!Paquet(i)
    BY <1>2 DEF Serve!Paquet
  <2> QED BY <1>1, <1>2, <1>10, <2>1 DEF ReachInv, Alive, Reach
<1> QED BY <1>6, <1>7, <1>8, <1>9, <1>11 DEF Inv

(* A loss, and nothing at all.                                              *)
LEMMA IdleInv ==
  ASSUME Inv, (\E m \in Acquits : Perd(m)) \/ UNCHANGED vars
  PROVE  Inv'
<1>1. UNCHANGED <<existe, taille, ecrit, fils, versClient>> /\ versServeur' \subseteq versServeur
  BY DEF Perd, vars
<1>2. TypeInv'
  BY <1>1 DEF Inv, TypeInv, Serve!GET
<1>3. \A a \in Acquits' : Fresh(a)'
  BY <1>1, SameFresh DEF Inv, Acquits, Serve!GET
<1>4. QueueInv(fils[1].file)'
  BY <1>1, SameFresh DEF Inv, QueueInv, Serve!GET
<1>5. PlaceInv(fils[1])'
  BY <1>1 DEF Inv, PlaceInv, Place, Few
<1>6. ReachInv(fils[1])'
  <2>1. \A i : Serve!Paquet(i)' = Serve!Paquet(i)
    BY <1>1 DEF Serve!Paquet
  <2> QED BY <1>1, <2>1 DEF Inv, ReachInv, Alive, Reach
<1> QED BY <1>2, <1>3, <1>4, <1>5, <1>6 DEF Inv

(* At the start.                                                            *)
LEMMA InitInv == Init => Inv
<1> SUFFICES ASSUME Init PROVE Inv
  OBVIOUS
<1>1. /\ fils = <<Serve!Libre>> /\ ecrit = 0 /\ versServeur = {Serve!GET} /\ versClient = {}
      /\ existe \in BOOLEAN /\ taille \in 0..MaxMorceaux
  BY LongFileAssumption DEF Init
<1>2. fils[1] = Serve!Libre /\ fils \in [1..1 -> Handlers]
  BY <1>1, LibreHandler
<1>3. TypeInv
  BY <1>1, <1>2, LongFileAssumption DEF TypeInv
<1>4. Acquits = {}
  BY <1>1 DEF Acquits
<1>5. Serve!Libre.base = 0 /\ Serve!Libre.tour = 0 /\ Serve!Libre.boucle = FALSE
      /\ Serve!Libre.select = {} /\ Serve!Libre.file = <<>>
  BY DEF Serve!Libre
<1>6. PlaceInv(fils[1]) /\ QueueInv(fils[1].file)
  BY <1>1, <1>2, <1>5, StartPlace
<1>7. ReachInv(fils[1])
  BY <1>1, <1>2, <1>5, LongFileAssumption DEF ReachInv, Reach
<1> QED BY <1>3, <1>4, <1>6, <1>7 DEF Inv

(* Every step keeps it, and leaves the handler at its place or a little     *)
(* further.                                                                 *)
LEMMA InvStep ==
  ASSUME Inv, [Next]_vars
  PROVE  /\ Inv'
         /\ Serving(fils[1]) /\ Serving(fils'[1])
              => fils'[1].base \in fils[1].base..fils[1].base+MaxAvance
<1> DEFINE Same == fils'[1].base = fils[1].base
           Near == fils'[1].base \in fils[1].base..fils[1].base+MaxAvance
<1>1. fils[1].base \in Nat /\ MaxAvance \in Nat /\ fils[1] \in Handlers
      /\ fils \in [1..1 -> Handlers]
  BY OneHandler, LongFileAssumption DEF Inv, Handlers
<1>2. Same => Near
  BY <1>1
<1>3. \A f : Serving(f) => Alive(f)
  BY DEF Serving, Alive
<1> HIDE DEF Same, Near
<1>4. CASE Handler
  <2>1. CASE Serve!Nouveau20 \/ Serve!Debut20
    <3>1. ~Serving(fils[1])
      BY <2>1 DEF Serve!Nouveau20, Serve!Debut20, Serving
    <3> QED BY <1>4, <2>1, <3>1, DebutInv DEF Handler
  <2>2. CASE Serve!Envoi20
    BY <1>2, <1>3, <1>4, <2>2, EnvoiInv DEF Handler, Same, Near
  <2>3. CASE Serve!Attente20
    BY <1>3, <1>4, <2>3, AttenteInv DEF Handler, Near
  <2>4. CASE \/ Serve!Depose20(Serve!GET, 0)
             \/ \E m \in Acquits : Serve!Depose20(m, m.window)
    <3>1. ecrit' = ecrit
      BY <1>4 DEF Handler
    <3>2. Inv' /\ Same
      BY <2>4, <3>1, DeposeInv DEF Same
    <3> QED BY <1>2, <3>2 DEF Near
  <2> QED BY <1>4, <2>1, <2>2, <2>3, <2>4 DEF Handler
<1>5. CASE Client
  <2>1. PICK n \in 0..taille, w \in 1..MaxWindow :
          \E S \in SUBSET {(n + j) % SeqMod : j \in 1..MaxWindow-1} : Recoit(n, S, w)
    BY <1>5 DEF Client
  <2>2. Same
    BY <2>1 DEF Recoit, Same
  <2> QED BY <1>2, <2>1, <2>2, RecoitInv DEF Near
<1>6. CASE (\E m \in Acquits : Perd(m)) \/ UNCHANGED vars
  <2>1. Same
    BY <1>6 DEF Perd, vars, Same
  <2> QED BY <1>2, <1>6, <2>1, IdleInv DEF Near
<1> QED BY <1>4, <1>5, <1>6 DEF Next

(* The invariant, in every behaviour.                                       *)
LEMMA AlwaysInv == Spec => []Inv
<1>1. Init => Inv
  BY InitInv
<1>2. Inv /\ [Next]_vars => Inv'
  BY InvStep
<1> QED BY <1>1, <1>2, PTL DEF Spec

-----------------------------------------------------------------------------
(* However long the file, group 20's server never reads past a morceau the  *)
(* client has not written: about_to_loop and file_segment_num_mult count    *)
(* every turn once, whatever acknowledgements are lost, late or repeated.   *)
THEOREM LongForgottenMeansWritten == Spec => []ForgottenMeansWritten
<1>1. Inv => ForgottenMeansWritten
  BY DEF Inv, PlaceInv, ForgottenMeansWritten
<1> QED BY <1>1, AlwaysInv, PTL

(* What it sends under the number the client waits for is the morceau the   *)
(* client waits for, in every turn.                                         *)
THEOREM LongSentIsExpected == Spec => []SentIsExpected
<1>1. Inv => SentIsExpected
  <2> SUFFICES ASSUME Inv, fils[1].etat = "envoi", NEW i \in Serve!Blocs20(fils[1]),
                      i % SeqMod = ecrit % SeqMod
               PROVE  i = ecrit
    BY DEF SentIsExpected
  <2>1. /\ fils[1] \in Handlers /\ Few(fils[1].select) /\ taille \in Nat /\ ecrit \in Nat
        /\ fils[1].base <= ecrit
    BY OneHandler DEF Inv, TypeInv, PlaceInv
  <2>2. i \in fils[1].base..taille-1 /\ i < Reach(fils[1])
    BY <2>1, BlocsReach
  <2>3. ecrit <= Reach(fils[1])
    BY DEF Inv, ReachInv, Alive
  <2>4. fils[1].base \in Nat /\ 2 * MaxWindow < SeqMod /\ MaxWindow \in Nat /\ SeqMod \in Nat
    BY <2>1, LongFileAssumption DEF Handlers
  <2>5. i \in Nat /\ i - ecrit < SeqMod /\ ecrit - i < SeqMod
    BY <2>1, <2>2, <2>3, <2>4 DEF Reach
  <2> QED BY <2>1, <2>5, SameNumber
<1> QED BY <1>1, AlwaysInv, PTL

(* A late acknowledgement never moves it back, and one further ahead than   *)
(* max_ack_advance never moves it forward.                                  *)
THEOREM LongAdvancesByWindow == Spec => AdvancesByWindow
<1>1. Inv /\ [Next]_vars =>
        [Serving(fils[1]) /\ Serving(fils'[1])
           => fils'[1].base \in fils[1].base..fils[1].base+MaxAvance]_vars
  BY InvStep
<1> QED BY <1>1, AlwaysInv, PTL DEF Spec, AdvancesByWindow
=============================================================================
