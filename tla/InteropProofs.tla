---------------------------- MODULE InteropProofs ---------------------------
(***************************************************************************)
(* Theorems about Interop, for every pair of programs and every value of   *)
(* the constants.                                                          *)
(***************************************************************************)
EXTENDS Interop, FiniteSetTheorems, SequenceTheorems, TLAPS

(* How long the files may be (the code's numbers are SeqMod = 2048,         *)
(* HalfMod = 1024 and MaxAvance = 63).  Group 20's server takes an          *)
(* acknowledgement at most MaxAvance ahead of its base for a new one: an    *)
(* old one must be further than that on the circle.  Our server and 42's    *)
(* take one less than half the numbers ahead for a new one.                 *)
Short20   == (\E d \in Duos : d[1] = 20) => MaxMorceaux + MaxAvance < SeqMod
ShortHalf == (\E d \in Duos : d[1] \in {0, 42}) => MaxMorceaux < HalfMod

(* The sequence numbers, and the mark of an end packet in a buffer.         *)
Seqnums == 0..SeqMod-1
VIDE == Peer!VIDE

(* The client has packet s and has told so, or may: it is written, or held  *)
(* beyond the packet it waits for; there is nothing to have after the file. *)
Held(s) ==
  s < Len(ecrit) \/ (s > Len(ecrit) /\ s \in DOMAIN buffer) \/ s >= taille

(* Acknowledgements of our client and of the others', windows included.     *)
OurAcks  == [type : {"ACK", "SACK"}, seqnum : Seqnums, sack : SUBSET Seqnums]
PeerAcks == [type : {"ACK", "SACK"}, seqnum : Seqnums, sack : SUBSET Seqnums,
             window : Nat \ {0}]
Acks == OurAcks \cup PeerAcks

(* What an acknowledgement says is true: everything before its number is    *)
(* written (group 61's client also counts the end packet), and what its     *)
(* SACK lists is held.                                                      *)
AckTrue(m) ==
  /\ \/ m.seqnum <= Len(ecrit)
     \/ duo[2] = 61 /\ Len(ecrit) = taille /\ m.seqnum = taille + 1
  /\ \A s \in Serve!Select20(m) : Held(s)

(* A DATA packet has its own number; an end packet comes after the file, or *)
(* (from group 20's server) carries the number of a packet that is held.    *)
PacketTrue(m) ==
  \/ m = Ours!CONN
  \/ \E i \in 0..taille-1 : m = Ours!DATA(i)
  \/ m = Ours!FIN(taille)
  \/ \E b \in 0..taille-1 : duo[1] = 20 /\ Held(b) /\ m = Ours!FIN(b)

(* The pair and the file requested.                                         *)
FichierInv ==
  /\ duo \in Duos /\ duo \in Couples /\ existe \in BOOLEAN
  /\ taille \in 0..MaxMorceaux /\ (~existe => taille = 0)

(* What the client has written, and where it is.                            *)
EcritInv ==
  /\ ecrit \in Seq(Nat) /\ Len(ecrit) <= taille /\ attendu \in Seqnums
  /\ \A i \in 1..Len(ecrit) : ecrit[i] = i - 1
  /\ pc = "run" => attendu = Len(ecrit)
  /\ pc = "done" => Len(ecrit) = taille

(* The packet of number s in a client's buffer.                             *)
SlotTrue(s, p) ==
  \/ p = s /\ s \in 0..taille-1
  \/ p = VIDE /\ duo[2] \in {20, 61} /\ s \in Seqnums /\ (s = taille \/ s < Len(ecrit))

(* The client's buffer: never the packet it waits for, but for group 20's   *)
(* process_window, and nothing beyond its window.                           *)
BufferInv ==
  /\ \A s \in DOMAIN buffer : SlotTrue(s, buffer[s])
  /\ duo[2] # 20 => Len(ecrit) \notin DOMAIN buffer
  /\ duo[2] # 0 /\ pc = "run" => \A s \in DOMAIN buffer : Peer!Ahead(s) < Place

(* The packets on the network.                                              *)
NetInv ==
  /\ \A m \in versClient : PacketTrue(m)
  /\ versServeur \subseteq Acks \cup {Ours!GET}
  /\ \A m \in versServeur \ {Ours!GET} : AckTrue(m)
  /\ dernier_ack # Ours!NoAck => dernier_ack \in Acks /\ AckTrue(dernier_ack)

(* Our server.                                                              *)
NousInv ==
  /\ session \in BOOLEAN /\ fini \in BOOLEAN /\ fin_envoye \in BOOLEAN
  /\ base \in Seqnums /\ lus \in 0..taille
  /\ \A s \in DOMAIN memoire : s \in 0..lus-1 /\ memoire[s] = s
  /\ (fini => lus = taille) /\ (fin_envoye => fini)

(* The other groups' handlers.                                              *)
AckArrivals == [m : Acks, window : Nat \ {0}]
Arrivals == AckArrivals \cup [m : {Serve!GET}, window : {0}]
Etats ==
  {"libre", "session", "demarre", "debut", "envoi", "attente", "fin", "fini", "muet"}
Handlers ==
  [etat : Etats, base : Nat, lus : Nat, eof : BOOLEAN, reste : SUBSET Nat,
   fenetre : Int, file : Seq(Arrivals), select : SUBSET Seqnums, recus : Nat,
   silences : Nat, boucle : BOOLEAN, tour : Nat]

(* The acknowledgements in a handler's queue are true.                      *)
QueueTrue(q) == \A i \in 1..Len(q) : q[i].m # Serve!GET => AckTrue(q[i].m)

(* What each group keeps of the file.                                       *)
Handler61(f) == f.reste \subseteq 0..taille
Handler42(f) ==
  /\ f.lus <= taille /\ f.reste \subseteq 0..f.lus-1 /\ (f.eof => f.lus = taille)
  /\ f.file \in Seq(AckArrivals)
Handler20(f) ==
  /\ f.tour = 0 /\ f.base <= Len(ecrit) /\ (f.boucle => f.base > LoopHigh)
  /\ f.etat \in {"envoi", "attente"} => f.fenetre > 0
  /\ \A s \in f.select : Held(s)

(* All the handlers, those whose client talks to another one included.      *)
FilsInv ==
  /\ fils \in [1..MaxFils -> Handlers] /\ enreg \in 0..MaxFils
  /\ \A t \in 1..MaxFils :
       /\ QueueTrue(fils[t].file)
       /\ duo[1] = 61 => Handler61(fils[t])
       /\ duo[1] = 42 => Handler42(fils[t])
       /\ duo[1] = 20 => Handler20(fils[t])

(* The inductive invariant.                                                 *)
Integrity ==
  /\ FichierInv /\ EcritInv /\ BufferInv /\ NetInv /\ NousInv /\ FilsInv

-----------------------------------------------------------------------------
(* What a server forgets is held.                                           *)
OursForgets ==
  /\ base <= Len(ecrit) \/ (Len(ecrit) = taille /\ base = taille + 1)
  /\ \A i \in 0..lus-1 : i \in DOMAIN memoire \/ Held(i)
  /\ fin_envoye => Len(ecrit) = taille

(* 42: what was read is kept until it is written.                           *)
Forgets42(f) ==
  /\ f.base <= Len(ecrit)
  /\ \A i \in 0..f.lus-1 : i \in f.reste \/ i < Len(ecrit)

(* 61: the same of the whole file.                                          *)
Forgets61(f) ==
  f.etat = "session" => \A i \in 0..taille-1 : i \in f.reste \/ i < Len(ecrit)

(* Inductive with Integrity.                                                *)
Delivery ==
  /\ duo[1] = 0 => OursForgets
  /\ duo[1] = 42 => \A t \in 1..MaxFils : Forgets42(fils[t])
  /\ duo[1] = 61 => \A t \in 1..MaxFils : Forgets61(fils[t])
  /\ FinMeansDelivered

-----------------------------------------------------------------------------
(* Sequence number arithmetic, in the form each program uses it.            *)

(* Numbers of a file shorter than the sequence number space are their own   *)
(* sequence numbers, and what `%' returns is a sequence number.             *)
LEMMA Numbers ==
  /\ SeqMod \in Nat \ {0} /\ HalfMod \in Nat \ {0} /\ SeqMod = 2 * HalfMod
  /\ \A x \in Int : x % SeqMod \in Seqnums
  /\ \A x \in Seqnums : x % SeqMod = x
  /\ \A x \in SeqMod..2*SeqMod-1 : x % SeqMod = x - SeqMod
  /\ SeqMod % SeqMod = 0
BY InteropAssumption DEF Seqnums

(* A number just past the space loses one turn.                             *)
LEMMA Wrapped ==
  ASSUME NEW x \in SeqMod..2*SeqMod-1
  PROVE  x % SeqMod = x - SeqMod
BY Numbers

(* How far a is ahead of b on the circle.                                   *)
LEMMA Distance ==
  ASSUME NEW a \in Seqnums, NEW b \in Seqnums
  PROVE  (a - b) % SeqMod = IF a >= b THEN a - b ELSE a - b + SeqMod
BY InteropAssumption DEF Seqnums

(* The packets of the servers are true ones.                                *)
LEMMA PaquetTrue ==
  ASSUME FichierInv, NEW i \in 0..taille
  PROVE  PacketTrue(Serve!Paquet(i))
BY DEF PacketTrue, Serve!Paquet, Ours!DATA, Ours!FIN, FichierInv

-----------------------------------------------------------------------------
(* The writing loops.                                                       *)

(* What a writing loop takes from the packets f: k of them, from the one    *)
(* the client waits for to the first that is missing or is an end packet.   *)
LEMMA WritesTrue ==
  ASSUME FichierInv, EcritInv, pc = "run",
         NEW f, \A s \in DOMAIN f : SlotTrue(s, f[s]),
         NEW k \in 0..SeqMod, Peer!Writes(f, k)
  PROVE  /\ ecrit' \in Seq(Nat) /\ Len(ecrit') \in Len(ecrit)..taille
         /\ \A i \in 1..Len(ecrit') : ecrit'[i] = i - 1
         /\ DOMAIN buffer' = DOMAIN f \ (attendu..attendu+k-1)
         /\ \A s \in DOMAIN buffer' : buffer'[s] = f[s]
         /\ attendu' \in Seqnums /\ attendu \notin DOMAIN buffer'
         /\ Peer!EndsAt(f, k) => /\ Len(ecrit') = taille /\ taille \notin DOMAIN buffer'
                                 /\ attendu' \in {0, taille + 1}
         /\ ~Peer!EndsAt(f, k) => /\ attendu' = Len(ecrit') /\ Len(ecrit') = attendu + k
                                  /\ attendu' \notin DOMAIN f
<1> USE InteropAssumption
<1> DEFINE e == Peer!EndsAt(f, k)
           w == IF e THEN k - 1 ELSE k
           suite == [j \in 1..w |-> f[Peer!Seq0(j - 1)]]
<1>1. /\ taille \in Nat /\ taille < SeqMod /\ attendu \in Nat /\ attendu <= taille
      /\ attendu = Len(ecrit) /\ SeqMod \in Nat \ {0}
  BY DEF FichierInv, EcritInv, Seqnums
<1>2. \A j \in 0..SeqMod-1 : attendu + j < SeqMod => Peer!Seq0(j) = attendu + j
  <2> SUFFICES ASSUME NEW j \in 0..SeqMod-1, attendu + j < SeqMod
               PROVE  Peer!Seq0(j) = attendu + j
    OBVIOUS
  <2>1. attendu + j \in Seqnums
    BY <1>1 DEF Seqnums
  <2> QED BY <2>1, Numbers DEF Peer!Seq0
<1>3. /\ \A j \in 0..k-1 : Peer!Seq0(j) \in DOMAIN f
      /\ \A j \in 1..k-1 : f[Peer!Seq0(j - 1)] # VIDE
      /\ e \/ Peer!Seq0(k) \notin DOMAIN f
      /\ attendu' = Peer!Seq0(k)
      /\ buffer' = [s \in DOMAIN f \ {Peer!Seq0(j) : j \in 0..k-1} |-> f[s]]
      /\ ecrit' = ecrit \o suite
  BY DEF Peer!Writes, Peer!EndsAt, VIDE
<1>4. \A s \in DOMAIN f : s >= attendu =>
         (s < taille /\ f[s] = s) \/ (s = taille /\ f[s] = VIDE)
  BY <1>1 DEF SlotTrue, Seqnums
<1>5. attendu + k <= taille + 1
  <2> SUFFICES ASSUME attendu + k > taille + 1 PROVE FALSE
    BY <1>1
  <2> DEFINE j == taille - attendu
  <2>1. j \in 0..k-1 /\ j + 1 \in 1..k-1 /\ Peer!Seq0(j) = taille
    BY <1>1, <1>2
  <2>2. f[taille] = VIDE
    BY <1>1, <1>3, <1>4, <2>1
  <2>3. f[Peer!Seq0((j + 1) - 1)] # VIDE
    <3> HIDE DEF j
    <3> QED BY <1>3, <2>1
  <2> QED BY <2>1, <2>2, <2>3, <1>1
<1>6. \A j \in 0..k-1 : Peer!Seq0(j) = attendu + j
  BY <1>1, <1>2, <1>5
<1>7. {Peer!Seq0(j) : j \in 0..k-1} = attendu..attendu+k-1
  <2>1. \A s \in attendu..attendu+k-1 : s - attendu \in 0..k-1 /\ Peer!Seq0(s - attendu) = s
    BY <1>1, <1>6
  <2>2. \A j \in 0..k-1 : Peer!Seq0(j) \in attendu..attendu+k-1
    BY <1>1, <1>6
  <2> QED BY <2>1, <2>2
<1>8. e => k > 0 /\ attendu + k = taille + 1
  <2> SUFFICES ASSUME e PROVE k > 0 /\ attendu + k = taille + 1
    OBVIOUS
  <2>1. k > 0 /\ f[Peer!Seq0(k - 1)] = VIDE
    BY DEF Peer!EndsAt, VIDE
  <2>2. Peer!Seq0(k - 1) = attendu + (k - 1) /\ attendu + (k - 1) \in DOMAIN f
    BY <2>1, <1>1, <1>3, <1>6
  <2>3. VIDE = -1
    BY DEF VIDE, Peer!VIDE
  <2> QED BY <2>1, <2>2, <2>3, <1>1, <1>4
<1>9. ~e => attendu + k <= taille /\ attendu' = attendu + k /\ attendu' \notin DOMAIN f
  <2> SUFFICES ASSUME ~e
               PROVE  attendu + k <= taille /\ attendu' = attendu + k /\ attendu' \notin DOMAIN f
    OBVIOUS
  <2>1. attendu + k <= taille
    <3> SUFFICES ASSUME attendu + k = taille + 1 PROVE FALSE
      BY <1>1, <1>5
    <3>1. k - 1 \in 0..k-1 /\ attendu + (k - 1) = taille
      BY <1>1
    <3>2. k > 0 /\ Peer!Seq0(k - 1) = taille /\ taille \in DOMAIN f
      BY <1>3, <1>6, <3>1
    <3>3. f[Peer!Seq0(k - 1)] = VIDE
      BY <3>2, <1>1, <1>4
    <3> QED BY <3>2, <3>3 DEF Peer!EndsAt, VIDE
  <2>2. attendu + k \in Seqnums
    BY <2>1, <1>1 DEF Seqnums
  <2>3. Peer!Seq0(k) = attendu + k
    BY <2>2, Numbers DEF Peer!Seq0
  <2> QED BY <2>1, <2>3, <1>3
<1>10. w \in Nat /\ attendu + w <= taille /\ (e => attendu + w = taille) /\ w <= k
  BY <1>1, <1>8, <1>9
<1>11. \A j \in 1..w : suite[j] = attendu + j - 1
  <2> SUFFICES ASSUME NEW j \in 1..w PROVE suite[j] = attendu + j - 1
    OBVIOUS
  <2>1. j - 1 \in 0..k-1 /\ attendu + (j - 1) < taille
    BY <1>1, <1>10
  <2>2. Peer!Seq0(j - 1) = attendu + (j - 1) /\ Peer!Seq0(j - 1) \in DOMAIN f
    BY <1>3, <1>6, <2>1
  <2> HIDE DEF w
  <2> QED BY <1>1, <1>4, <2>1, <2>2
<1> HIDE DEF w
<1>12. suite \in Seq(Nat) /\ Len(suite) = w
  <2>1. \A j \in 1..w : suite[j] \in Nat
    BY <1>1, <1>10, <1>11
  <2>2. suite \in [1..w -> Nat]
    BY <2>1
  <2>3. suite \in Seq(Nat) /\ DOMAIN suite = 1..w
    <3> HIDE DEF suite
    <3> QED BY <2>2, <1>10, SeqDef
  <2> HIDE DEF suite
  <2> QED BY <2>3, <1>10, LenProperties
<1> HIDE DEF suite
<1>13. /\ ecrit' \in Seq(Nat) /\ Len(ecrit') = attendu + w
       /\ \A i \in 1..attendu + w :
            ecrit'[i] = IF i <= attendu THEN ecrit[i] ELSE suite[i - attendu]
  <2>1. ecrit \in Seq(Nat) /\ Len(ecrit) = attendu
    BY DEF EcritInv
  <2>2. /\ ecrit \o suite \in Seq(Nat) /\ Len(ecrit \o suite) = Len(ecrit) + Len(suite)
        /\ \A i \in 1..Len(ecrit) + Len(suite) :
             (ecrit \o suite)[i] = IF i <= Len(ecrit) THEN ecrit[i] ELSE suite[i - Len(ecrit)]
    BY <2>1, <1>12, ConcatProperties
  <2>3. ecrit' = ecrit \o suite
    BY <1>3
  <2>4. Len(suite) = w
    BY <1>12
  <2> QED BY <2>1, <2>2, <2>3, <2>4, Zenon
<1>14. \A i \in 1..Len(ecrit') : ecrit'[i] = i - 1
  <2> SUFFICES ASSUME NEW i \in 1..attendu+w PROVE ecrit'[i] = i - 1
    BY <1>13
  <2>1. CASE i <= attendu
    BY <1>1, <1>13, <2>1 DEF EcritInv
  <2>2. CASE i > attendu
    <3>1. i - attendu \in 1..w
      BY <1>1, <1>10, <2>2
    <3>2. ecrit'[i] = suite[i - attendu]
      BY <1>1, <1>13, <2>2
    <3> QED BY <1>1, <1>11, <3>1, <3>2
  <2> QED BY <1>1, <1>10, <2>1, <2>2
<1>15. /\ DOMAIN buffer' = DOMAIN f \ (attendu..attendu+k-1)
       /\ \A s \in DOMAIN buffer' : buffer'[s] = f[s]
  BY <1>3, <1>7
<1>16. attendu' \in Seqnums
  <2>1. attendu + k \in Int
    BY <1>1
  <2> QED BY <2>1, <1>3, Numbers DEF Peer!Seq0
<1>17. attendu \notin DOMAIN buffer'
  <2>1. CASE k = 0
    BY <2>1, <1>1, <1>8, <1>9, <1>15
  <2>2. CASE k > 0
    BY <2>2, <1>1, <1>15
  <2> QED BY <2>1, <2>2
<1>18. e => taille \notin DOMAIN buffer'
  BY <1>1, <1>8, <1>15
<1>19. ~e => Len(ecrit') = attendu + k
  BY <1>13 DEF w
<1>20. e => attendu' \in {0, taille + 1}
  <2> SUFFICES ASSUME e PROVE attendu' \in {0, taille + 1}
    OBVIOUS
  <2>1. attendu' = (taille + 1) % SeqMod
    BY <1>3, <1>8 DEF Peer!Seq0
  <2>2. CASE taille + 1 = SeqMod
    BY <1>1, <2>1, <2>2, Numbers
  <2>3. CASE taille + 1 \in Seqnums
    BY <2>1, <2>3, Numbers
  <2> QED BY <1>1, <2>2, <2>3 DEF Seqnums
<1>21. Len(ecrit') \in Len(ecrit)..taille /\ (e => Len(ecrit') = taille)
  BY <1>1, <1>10, <1>13 DEF EcritInv
<1>22. ~e => attendu' = Len(ecrit') /\ attendu' \notin DOMAIN f
  BY <1>9, <1>19
<1> QED BY <1>13, <1>14, <1>15, <1>16, <1>17, <1>18, <1>19, <1>20, <1>21, <1>22, Zenon

(* The cardinality the other modules use is that of FiniteSets.             *)
LEMMA SameCardinality ==
  \A S : Peer!Cardinality(S) = Cardinality(S)
BY DEF Peer!Cardinality, Cardinality

(* A buffer with a free place is a window of at least one packet.           *)
LEMMA FreePlace ==
  ASSUME NEW K, IsFiniteSet(K), Cardinality(K) <= Place - 1
  PROVE  Peer!Free(K) \in Nat \ {0}
<1>1. Cardinality(K) \in Nat
  BY FS_CardinalityType
<1>2. Place \in Nat
  BY InteropAssumption
<1> QED BY <1>1, <1>2, SameCardinality DEF Peer!Free

(* Two packets at the same distance are the same.                           *)
LEMMA DistanceInjective ==
  ASSUME NEW a \in Seqnums, NEW s \in Seqnums, NEW t \in Seqnums,
         (s - a) % SeqMod = (t - a) % SeqMod
  PROVE  s = t
<1>1. /\ (s - a) % SeqMod = IF s >= a THEN s - a ELSE s - a + SeqMod
      /\ (t - a) % SeqMod = IF t >= a THEN t - a ELSE t - a + SeqMod
  BY Distance
<1> QED BY <1>1, InteropAssumption DEF Seqnums

(* A client whose buffer does not hold the packet it waits for has room for *)
(* it: the window it advertises is not 0.                                   *)
LEMMA RoomForOne ==
  ASSUME NEW a \in Seqnums, NEW K \in SUBSET Seqnums, a \notin K,
         \A s \in K : (s - a) % SeqMod < Place
  PROVE  Peer!Free(K) \in Nat \ {0}
<1> USE InteropAssumption
<1> DEFINE f == [s \in K |-> (s - a) % SeqMod]
<1>1. \A s \in K : f[s] \in 1..Place-1
  <2> SUFFICES ASSUME NEW s \in K PROVE (s - a) % SeqMod \in 1..Place-1
    OBVIOUS
  <2>1. (s - a) % SeqMod = IF s >= a THEN s - a ELSE s - a + SeqMod
    BY Distance
  <2> QED BY <2>1 DEF Seqnums
<1>2. \A s, t \in K : f[s] = f[t] => s = t
  BY DistanceInjective
<1>3. f \in Injection(K, 1..Place-1)
  <2>1. f \in [K -> 1..Place-1]
    BY <1>1
  <2> HIDE DEF f
  <2> QED BY <2>1, <1>2, Zenon DEF Injection, IsInjective
<1>4. IsFiniteSet(1..Place-1) /\ Cardinality(1..Place-1) = Place - 1
  BY FS_Interval
<1>5. IsFiniteSet(K) /\ Cardinality(K) <= Place - 1
  BY <1>3, <1>4, FS_Injection
<1> QED BY <1>5, FreePlace

(* A client's step only adds to what is written and held.                   *)
Grows ==
  /\ UNCHANGED <<duo, existe, taille>>
  /\ Len(ecrit) <= Len(ecrit') /\ \A s \in Seqnums : Held(s) => Held(s)'

(* An acknowledgement that is true stays true.                              *)
LEMMA AckGrows ==
  ASSUME FichierInv, EcritInv, EcritInv', Grows, NEW m \in Acks, AckTrue(m)
  PROVE  AckTrue(m)'
<1>1. Serve!Select20(m) \subseteq Seqnums
  BY InteropAssumption DEF Serve!Select20, Acks, OurAcks, PeerAcks, Seqnums
<1>2. Serve!Select20(m)' = Serve!Select20(m)
  BY DEF Serve!Select20
<1>3. /\ duo' = duo /\ taille' = taille /\ Len(ecrit) \in Nat /\ Len(ecrit') \in Nat
      /\ Len(ecrit) <= Len(ecrit') /\ Len(ecrit') <= taille /\ taille \in Nat
  BY LenProperties DEF Grows, EcritInv, FichierInv
<1>4. m.seqnum \in Nat
  BY DEF Acks, OurAcks, PeerAcks, Seqnums
<1>5. \A s \in Serve!Select20(m) : Held(s)'
  BY <1>1 DEF AckTrue, Grows
<1>6. \/ m.seqnum <= Len(ecrit')
      \/ duo'[2] = 61 /\ Len(ecrit') = taille' /\ m.seqnum = taille' + 1
  BY <1>3, <1>4 DEF AckTrue
<1> QED BY <1>2, <1>5, <1>6 DEF AckTrue

(* A packet in flight that is true stays true.                              *)
LEMMA PacketGrows ==
  ASSUME FichierInv, Grows, NEW m, PacketTrue(m)
  PROVE  PacketTrue(m)'
<1>1. duo' = duo /\ taille' = taille
  BY DEF Grows
<1>2. \A b \in 0..taille-1 : Held(b) => Held(b)'
  BY InteropAssumption DEF Grows, FichierInv, Seqnums
<1> QED BY <1>1, <1>2 DEF PacketTrue, Ours!CONN, Ours!DATA, Ours!FIN

(* What a client's step may do.                                             *)
ClientStep ==
  /\ Grows
  /\ UNCHANGED <<session, base, lus, memoire, fini, fin_envoye, fils, enreg, versClient>>

(* The frame of a client's step.                                            *)
LEMMA ClientFrame ==
  ASSUME Integrity, Grows, EcritInv', BufferInv',
         UNCHANGED <<session, base, lus, memoire, fini, fin_envoye, fils, enreg, versClient>>,
         \A m \in versServeur' :
            m \in versServeur \/ m = Ours!GET \/ (m \in Acks /\ AckTrue(m)'),
         dernier_ack' = dernier_ack \/ (dernier_ack' \in Acks /\ AckTrue(dernier_ack)')
  PROVE  Integrity' /\ ClientStep
<1>1. /\ FichierInv /\ EcritInv /\ BufferInv /\ NetInv /\ NousInv /\ FilsInv
      /\ UNCHANGED <<duo, existe, taille>>
  BY DEF Integrity, Grows
<1>2. FichierInv'
  BY <1>1 DEF FichierInv
<1>3. NousInv'
  BY <1>1 DEF NousInv
<1>4. \A m \in Acks : AckTrue(m) => AckTrue(m)'
  BY <1>1, AckGrows
<1>5. NetInv'
  <2>1. \A m \in versClient' : PacketTrue(m)'
    BY <1>1, PacketGrows DEF NetInv
  <2>2. versServeur' \subseteq Acks \cup {Ours!GET}
    BY <1>1 DEF NetInv
  <2>3. \A m \in versServeur' \ {Ours!GET} : AckTrue(m)'
    BY <1>1, <1>4 DEF NetInv
  <2>4. CASE dernier_ack' = dernier_ack
    <3>1. dernier_ack # Ours!NoAck => AckTrue(dernier_ack)'
      BY <1>1, <1>4, <2>4 DEF NetInv, AckTrue
    <3> QED BY <1>1, <2>1, <2>2, <2>3, <2>4, <3>1 DEF NetInv
  <2>5. CASE dernier_ack' \in Acks /\ AckTrue(dernier_ack)'
    BY <2>1, <2>2, <2>3, <2>5 DEF NetInv
  <2> QED BY <2>4, <2>5
<1>6. FilsInv'
  <2> SUFFICES ASSUME NEW t \in 1..MaxFils
               PROVE  /\ QueueTrue(fils[t].file)'
                      /\ duo[1] = 61 => Handler61(fils[t])'
                      /\ duo[1] = 42 => Handler42(fils[t])'
                      /\ duo[1] = 20 => Handler20(fils[t])'
    BY <1>1 DEF FilsInv
  <2> DEFINE f == fils[t]
  <2>1. /\ f \in Handlers /\ QueueTrue(f.file) /\ f' = f
        /\ duo[1] = 61 => Handler61(f)
        /\ duo[1] = 42 => Handler42(f)
        /\ duo[1] = 20 => Handler20(f)
    BY <1>1 DEF FilsInv
  <2>2. f.file \in Seq(Arrivals) /\ f.select \subseteq Seqnums /\ f.base \in Nat
    BY <2>1 DEF Handlers
  <2> HIDE DEF f
  <2>3. QueueTrue(f.file)'
    <3>1. \A i \in 1..Len(f.file) : f.file[i].m = Serve!GET \/ f.file[i].m \in Acks
      BY <2>2, LenProperties DEF Arrivals, AckArrivals
    <3> QED BY <2>1, <3>1, <1>4 DEF QueueTrue, Serve!GET
  <2>4. duo[1] = 61 => Handler61(f)'
    BY <1>1, <2>1 DEF Handler61
  <2>5. duo[1] = 42 => Handler42(f)'
    BY <1>1, <2>1 DEF Handler42
  <2>6. duo[1] = 20 => Handler20(f)'
    <3>1. Len(ecrit) \in Nat /\ Len(ecrit') \in Nat /\ Len(ecrit) <= Len(ecrit')
      BY <1>1, LenProperties DEF EcritInv, Grows
    <3> QED BY <2>1, <2>2, <3>1 DEF Handler20, Grows
  <2> QED BY <2>3, <2>4, <2>5, <2>6 DEF f
<1>7. EcritInv' /\ BufferInv' /\ ClientStep
  BY DEF ClientStep
<1> QED BY <1>2, <1>3, <1>5, <1>6, <1>7 DEF Integrity

(* The client after a writing loop over its buffer, or its buffer and one   *)
(* packet more.                                                             *)
LEMMA AfterWriting ==
  ASSUME FichierInv, EcritInv, BufferInv, pc = "run", duo[2] # 0,
         UNCHANGED <<duo, existe, taille>>,
         NEW f, NEW k \in 0..SeqMod, Peer!Writes(f, k),
         DOMAIN buffer \subseteq DOMAIN f,
         \A s \in DOMAIN f : SlotTrue(s, f[s]) /\ Peer!Ahead(s) < Place,
         pc' = IF Peer!EndsAt(f, k) THEN "done" ELSE pc
  PROVE  /\ EcritInv' /\ BufferInv' /\ Grows
         /\ Peer!Free(DOMAIN buffer') \in Nat \ {0}
         /\ Len(ecrit') \notin DOMAIN buffer'
         /\ ~Peer!EndsAt(f, k) => attendu' = Len(ecrit')
         /\ Peer!EndsAt(f, k) => Len(ecrit') = taille /\ attendu' \in {0, taille + 1}
<1> USE InteropAssumption
<1> DEFINE e == Peer!EndsAt(f, k)
<1>1. /\ taille \in Nat /\ taille < SeqMod /\ attendu \in Nat /\ attendu <= taille
      /\ attendu = Len(ecrit) /\ SeqMod \in Nat \ {0} /\ attendu \in Seqnums
  BY DEF FichierInv, EcritInv, Seqnums
<1>2. /\ ecrit' \in Seq(Nat) /\ Len(ecrit') \in Len(ecrit)..taille
      /\ \A i \in 1..Len(ecrit') : ecrit'[i] = i - 1
      /\ DOMAIN buffer' = DOMAIN f \ (attendu..attendu+k-1)
      /\ \A s \in DOMAIN buffer' : buffer'[s] = f[s]
      /\ attendu' \in Seqnums /\ attendu \notin DOMAIN buffer'
      /\ e => /\ Len(ecrit') = taille /\ taille \notin DOMAIN buffer'
              /\ attendu' \in {0, taille + 1}
      /\ ~e => /\ attendu' = Len(ecrit') /\ Len(ecrit') = attendu + k
               /\ attendu' \notin DOMAIN f
  BY WritesTrue
<1> HIDE DEF e
<1>3. pc' = IF e THEN "done" ELSE "run"
  BY DEF e
<1>4. EcritInv'
  BY <1>1, <1>2, <1>3 DEF EcritInv
<1>5. Len(ecrit') \notin DOMAIN buffer'
  BY <1>1, <1>2
<1>6. DOMAIN buffer' \subseteq Seqnums /\ DOMAIN f \subseteq Seqnums
  BY <1>1, <1>2 DEF SlotTrue, Seqnums
<1>7. BufferInv'
  <2>1. \A s \in DOMAIN buffer' : SlotTrue(s, buffer[s])'
    <3> SUFFICES ASSUME NEW s \in DOMAIN buffer' PROVE SlotTrue(s, buffer[s])'
      OBVIOUS
    <3>1. SlotTrue(s, f[s]) /\ buffer'[s] = f[s] /\ s \in Seqnums
      BY <1>2, <1>6
    <3>2. s < Len(ecrit) => s < Len(ecrit')
      BY <1>1, <1>2, <3>1 DEF Seqnums
    <3> QED BY <3>1, <3>2 DEF SlotTrue, VIDE, Peer!VIDE
  <2>2. ~e => \A s \in DOMAIN buffer' : (s - attendu') % SeqMod < Place
    <3> SUFFICES ASSUME ~e, NEW s \in DOMAIN buffer' PROVE (s - attendu') % SeqMod < Place
      OBVIOUS
    <3>1. /\ s \in Seqnums /\ s \notin attendu..attendu+k-1 /\ (s - attendu) % SeqMod < Place
          /\ attendu' = attendu + k
      BY <1>2, <1>6 DEF Peer!Ahead
    <3>2. /\ (s - attendu) % SeqMod = IF s >= attendu THEN s - attendu ELSE s - attendu + SeqMod
          /\ (s - attendu') % SeqMod = IF s >= attendu' THEN s - attendu' ELSE s - attendu' + SeqMod
      BY <1>1, <1>2, <3>1, Distance
    <3>3. (s - attendu') % SeqMod <= (s - attendu) % SeqMod /\ (s - attendu') % SeqMod \in Int
      <4>1. s \in Int /\ attendu' = attendu + k /\ (s < attendu \/ s >= attendu + k)
        BY <1>1, <3>1 DEF Seqnums
      <4>2. CASE s < attendu
        BY <4>1, <4>2, <1>1, <3>2
      <4>3. CASE s >= attendu + k
        <5>1. s >= attendu /\ s >= attendu' /\ s - attendu' <= s - attendu /\ s - attendu' \in Int
          BY <4>1, <4>3, <1>1
        <5>2. (s - attendu) % SeqMod = s - attendu /\ (s - attendu') % SeqMod = s - attendu'
          BY <3>2, <5>1
        <5> QED BY <5>1, <5>2
      <4> QED BY <4>1, <4>2, <4>3
    <3>4. (s - attendu) % SeqMod \in Int /\ Place \in Int
      BY <1>1, <3>1 DEF Seqnums
    <3> QED BY <3>1, <3>3, <3>4
  <2> QED BY <1>3, <1>5, <2>1, <2>2 DEF BufferInv, Peer!Ahead
<1>8. Grows
  <2> SUFFICES ASSUME NEW s \in Seqnums, Held(s) PROVE Held(s)'
    BY <1>1, <1>2 DEF Grows
  <2>1. CASE e
    BY <1>1, <1>2, <2>1 DEF Held, Seqnums
  <2>2. CASE ~e
    BY <1>1, <1>2, <2>2 DEF Held, Seqnums
  <2> QED BY <2>1, <2>2
<1>9. Peer!Free(DOMAIN buffer') \in Nat \ {0}
  <2>1. \A s \in DOMAIN buffer' : (s - attendu) % SeqMod < Place
    BY <1>2 DEF Peer!Ahead
  <2>2. DOMAIN buffer' \in SUBSET Seqnums /\ attendu \notin DOMAIN buffer'
    BY <1>2, <1>6
  <2> QED BY <1>1, <2>1, <2>2, RoomForOne
<1> QED BY <1>2, <1>4, <1>5, <1>7, <1>8, <1>9 DEF e

(* The client after it put packet m in its buffer, without writing.         *)
LEMMA AfterBuffering ==
  ASSUME FichierInv, EcritInv, BufferInv, pc = "run", duo[2] # 0,
         UNCHANGED <<duo, existe, taille, ecrit, attendu, pc>>,
         NEW n \in Seqnums, NEW p, SlotTrue(n, p), Peer!Ahead(n) < Place,
         duo[2] # 20 => n # attendu,
         buffer' = [s \in DOMAIN buffer \cup {n} |-> IF s = n THEN p ELSE buffer[s]]
  PROVE  /\ EcritInv' /\ BufferInv' /\ Grows
         /\ duo[2] # 20 => Peer!Free(DOMAIN buffer') \in Nat \ {0}
<1> USE InteropAssumption
<1>1. DOMAIN buffer' = DOMAIN buffer \cup {n}
  OBVIOUS
<1>2. EcritInv'
  BY DEF EcritInv
<1>3. \A s \in DOMAIN buffer' : SlotTrue(s, buffer[s])'
  BY DEF BufferInv, SlotTrue, VIDE
<1>4. \A s \in DOMAIN buffer' : (s - attendu) % SeqMod < Place
  BY DEF BufferInv, Peer!Ahead
<1>5. attendu = Len(ecrit) /\ attendu \in Seqnums
  BY DEF EcritInv
<1>6. DOMAIN buffer' \in SUBSET Seqnums
  BY <1>1 DEF BufferInv, SlotTrue, FichierInv, Seqnums
<1>7. BufferInv'
  BY <1>1, <1>3, <1>4, <1>5 DEF BufferInv, Peer!Ahead
<1>8. Grows
  BY <1>1, <1>5 DEF Grows, Held, Seqnums
<1>9. duo[2] # 20 => Peer!Free(DOMAIN buffer') \in Nat \ {0}
  <2>1. duo[2] # 20 => attendu \notin DOMAIN buffer'
    BY <1>1, <1>5 DEF BufferInv
  <2> QED BY <1>4, <1>5, <1>6, <2>1, RoomForOne
<1> QED BY <1>2, <1>7, <1>8, <1>9

(* The client after a step that leaves its file and its buffer alone.       *)
LEMMA AfterNothing ==
  ASSUME FichierInv, EcritInv, BufferInv, pc = "run",
         UNCHANGED <<duo, existe, taille, ecrit, attendu, buffer>>,
         pc' = "done" => Len(ecrit) = taille
  PROVE  EcritInv' /\ BufferInv' /\ Grows
BY InteropAssumption DEF EcritInv, BufferInv, Grows, SlotTrue, Peer!Ahead, Held, FichierInv, Seqnums

(* What a packet that reaches a client carries.                             *)
LEMMA Incoming ==
  ASSUME FichierInv, EcritInv, NEW m, PacketTrue(m), Peer!IsData(m)
  PROVE  /\ m.seqnum \in Seqnums /\ m.seqnum <= taille
         /\ m.type = "DATA" => m.morceau = m.seqnum /\ m.seqnum < taille
         /\ m.type = "FIN" => m.seqnum = taille \/ Held(m.seqnum)
         /\ m.seqnum \notin DOMAIN buffer /\ (m.type = "DATA" \/ duo[2] \in {20, 61})
              => SlotTrue(m.seqnum, Peer!Payload(m))
<1> USE InteropAssumption
<1>1. \A i \in 0..taille : i \in Seqnums /\ i % SeqMod = i
  BY Numbers DEF FichierInv, Seqnums
<1>2. taille \in Nat /\ Len(ecrit) \in Nat
  BY LenProperties DEF FichierInv, EcritInv
<1>3. CASE \E i \in 0..taille-1 : m = Ours!DATA(i)
  <2>1. PICK i \in 0..taille-1 : m = Ours!DATA(i)
    BY <1>3
  <2>2. m.type = "DATA" /\ m.seqnum = i /\ m.morceau = i
    BY <1>1, <1>2, <2>1 DEF Ours!DATA
  <2> QED BY <1>1, <1>2, <2>2 DEF SlotTrue, Peer!Payload
<1>4. ASSUME NEW b \in 0..taille, m = Ours!FIN(b), b = taille \/ Held(b)
      PROVE  /\ m.type = "FIN" /\ m.seqnum = b /\ Peer!Payload(m) = VIDE
             /\ b \notin DOMAIN buffer => b = taille \/ b < Len(ecrit)
  <2>1. m.type = "FIN" /\ m.seqnum = b
    BY <1>1, <1>4 DEF Ours!FIN
  <2> QED BY <1>2, <1>4, <2>1 DEF Peer!Payload, VIDE, Held
<1>5. ASSUME NEW b \in 0..taille, m = Ours!FIN(b), b = taille \/ Held(b)
      PROVE  /\ m.type = "FIN" /\ m.seqnum = b /\ b \in Seqnums
             /\ b \notin DOMAIN buffer /\ duo[2] \in {20, 61} => SlotTrue(b, Peer!Payload(m))
  <2>1. /\ m.type = "FIN" /\ m.seqnum = b /\ Peer!Payload(m) = VIDE
        /\ b \notin DOMAIN buffer => b = taille \/ b < Len(ecrit)
    BY <1>4, <1>5
  <2> QED BY <1>1, <2>1 DEF SlotTrue
<1>6. CASE m = Ours!FIN(taille)
  BY <1>2, <1>5, <1>6
<1>7. CASE \E b \in 0..taille-1 : duo[1] = 20 /\ Held(b) /\ m = Ours!FIN(b)
  <2>1. PICK b \in 0..taille-1 : Held(b) /\ m = Ours!FIN(b)
    BY <1>7
  <2>2. b \in 0..taille
    BY <1>2
  <2> QED BY <1>2, <1>5, <2>1, <2>2
<1>8. m # Ours!CONN
  BY DEF Peer!IsData, Ours!CONN
<1> QED BY <1>3, <1>6, <1>7, <1>8 DEF PacketTrue

(* The acknowledgement of everything written is true.                       *)
LEMMA CumulativeTrue ==
  ASSUME EcritInv', NEW m, m = Peer!CumulativeAck,
         Peer!Free(DOMAIN buffer') \in Nat \ {0},
         \/ attendu' = Len(ecrit')
         \/ duo'[2] = 61 /\ Len(ecrit') = taille' /\ attendu' \in {0, taille' + 1}
  PROVE  m \in Acks /\ AckTrue(m)'
<1>1. m.type = "ACK" /\ m.seqnum = attendu' /\ m.sack = {}
  BY DEF Peer!CumulativeAck, Peer!Ack
<1>2. attendu' \in Seqnums /\ Len(ecrit') \in Nat
  BY LenProperties DEF EcritInv
<1>3. m \in Acks
  BY <1>2 DEF Peer!CumulativeAck, Peer!Ack, Acks, PeerAcks
<1>4. Serve!Select20(m) = {}
  BY <1>1 DEF Serve!Select20
<1>5. \/ m.seqnum <= Len(ecrit')
      \/ duo'[2] = 61 /\ Len(ecrit') = taille' /\ m.seqnum = taille' + 1
  BY <1>1, <1>2
<1> QED BY <1>3, <1>4, <1>5 DEF AckTrue, Serve!Select20

(* A client of group 42 or 61 advertises a window at any time.              *)
LEMMA FreeNow ==
  ASSUME FichierInv, EcritInv, BufferInv, pc = "run", duo[2] \in {42, 61}
  PROVE  Peer!Free(DOMAIN buffer) \in Nat \ {0}
<1>1. attendu = Len(ecrit) /\ attendu \in Seqnums /\ attendu \notin DOMAIN buffer
  BY DEF EcritInv, BufferInv
<1>2. DOMAIN buffer \in SUBSET Seqnums
  BY InteropAssumption DEF BufferInv, SlotTrue, FichierInv, Seqnums
<1>3. \A s \in DOMAIN buffer : (s - attendu) % SeqMod < Place
  BY DEF BufferInv, Peer!Ahead
<1> QED BY <1>1, <1>2, <1>3, RoomForOne

-----------------------------------------------------------------------------
(* The clients of the other groups.                                         *)

(* A packet in group 61's receiving window is less than a window ahead.     *)
LEMMA InWindowAhead61 ==
  ASSUME attendu \in Seqnums, NEW s \in Seqnums, Peer!InWindow61(s)
  PROVE  Peer!Ahead(s) < Place
<1>1. Peer!Ahead(s) = IF s >= attendu THEN s - attendu ELSE s - attendu + SeqMod
  BY Distance DEF Peer!Ahead
<1>2. CASE attendu + Place < SeqMod
  BY <1>1, <1>2, InteropAssumption DEF Peer!InWindow61, Seqnums
<1>3. CASE ~(attendu + Place < SeqMod)
  <2>1. attendu + Place \in SeqMod..2*SeqMod-1
    BY <1>3, InteropAssumption DEF Seqnums
  <2>2. (attendu + Place) % SeqMod = attendu + Place - SeqMod
    BY <2>1, Wrapped, InteropAssumption DEF Seqnums
  <2>3. s >= attendu \/ s < attendu + Place - SeqMod
    BY <1>3, <2>2 DEF Peer!InWindow61
  <2>4. CASE s >= attendu
    BY <1>1, <1>3, <2>4, InteropAssumption DEF Seqnums
  <2>5. CASE s < attendu
    BY <1>1, <2>3, <2>5, InteropAssumption DEF Seqnums
  <2> QED BY <2>4, <2>5 DEF Seqnums
<1> QED BY <1>2, <1>3

(* Group 61's client takes a packet.                                        *)
LEMMA Recv61 ==
  ASSUME Integrity, NEW m \in versClient, PeerClient(61, Peer!Client61Recv(m))
  PROVE  Integrity' /\ ClientStep
<1> USE InteropAssumption
<1>1. /\ duo[2] = 61 /\ UNCHANGED <<duo, existe, taille, fils, enreg, versClient, dernier_ack>>
      /\ UNCHANGED <<session, base, lus, memoire, fini, fin_envoye>>
      /\ pc = "run" /\ Peer!IsData(m)
      /\ \E r \in Peer!Requests61 :
           \/ Peer!AddPacket61(m) /\ versServeur' = versServeur \cup r \cup {Peer!CumulativeAck}
           \/ Peer!Refuse61(m) /\ versServeur' = versServeur \cup r
  BY DEF PeerClient, serveur, pairs, Peer!Client61Recv
<1>2. FichierInv /\ EcritInv /\ BufferInv /\ PacketTrue(m) /\ attendu = Len(ecrit)
  BY <1>1 DEF Integrity, NetInv, EcritInv
<1>3. PICK r \in Peer!Requests61 :
           \/ Peer!AddPacket61(m) /\ versServeur' = versServeur \cup r \cup {Peer!CumulativeAck}
           \/ Peer!Refuse61(m) /\ versServeur' = versServeur \cup r
  BY <1>1
<1>4. r \subseteq {Ours!GET}
  BY DEF Peer!Requests61, Peer!GET, Ours!GET
<1>5. /\ m.seqnum \in Seqnums
      /\ m.seqnum \notin DOMAIN buffer => SlotTrue(m.seqnum, Peer!Payload(m))
  BY <1>1, <1>2, Incoming
<1>6. CASE UNCHANGED <<attendu, buffer, ecrit, pc>>
  <2>1. EcritInv' /\ BufferInv' /\ Grows
    BY <1>1, <1>2, <1>6, AfterNothing
  <2>2. Peer!Free(DOMAIN buffer') \in Nat \ {0} /\ attendu' = Len(ecrit')
    BY <1>1, <1>2, <1>6, FreeNow
  <2>3. \A a : a = Peer!CumulativeAck => a \in Acks /\ AckTrue(a)'
    BY <2>1, <2>2, CumulativeTrue
  <2> QED BY <1>1, <1>3, <1>4, <2>1, <2>3, ClientFrame
<1>7. CASE Peer!AddPacket61(m) /\ ~UNCHANGED <<attendu, buffer, ecrit, pc>>
  <2>1. Peer!InWindow61(m.seqnum) /\ m.seqnum \notin DOMAIN buffer
    BY <1>7 DEF Peer!AddPacket61, Peer!ecriture
  <2>2. Peer!Ahead(m.seqnum) < Place
    BY <1>2, <1>5, <2>1, InWindowAhead61 DEF EcritInv
  <2>3. versServeur' \subseteq versServeur \cup {Ours!GET, Peer!CumulativeAck}
    BY <1>3, <1>4
  <2>4. CASE m.seqnum # attendu /\ buffer' = Peer!With(m) /\ UNCHANGED <<attendu, ecrit, pc>>
    <3>1. buffer' = [s \in DOMAIN buffer \cup {m.seqnum} |->
                       IF s = m.seqnum THEN Peer!Payload(m) ELSE buffer[s]]
      BY <2>4 DEF Peer!With
    <3>2. /\ SlotTrue(m.seqnum, Peer!Payload(m)) /\ m.seqnum # attendu
          /\ UNCHANGED <<duo, existe, taille, ecrit, attendu, pc>>
          /\ pc = "run" /\ duo[2] # 0 /\ duo[2] # 20 /\ m.seqnum \in Seqnums
      BY <1>1, <1>5, <2>1, <2>4
    <3>3. /\ EcritInv' /\ BufferInv' /\ Grows
          /\ Peer!Free(DOMAIN buffer') \in Nat \ {0}
      BY <1>2, <2>2, <3>1, <3>2, AfterBuffering
    <3>4. attendu' = Len(ecrit')
      BY <1>2, <2>4
    <3>5. \A a : a = Peer!CumulativeAck => a \in Acks /\ AckTrue(a)'
      BY <3>3, <3>4, CumulativeTrue
    <3> QED BY <1>1, <2>3, <3>3, <3>5, ClientFrame
  <2>5. CASE \E k \in 1..SeqMod :
               /\ Peer!Writes(Peer!With(m), k)
               /\ pc' = IF Peer!EndsAt(Peer!With(m), k) THEN "done" ELSE pc
    <3> DEFINE f == Peer!With(m)
    <3>1. PICK k \in 1..SeqMod : Peer!Writes(f, k) /\ pc' = IF Peer!EndsAt(f, k) THEN "done" ELSE pc
      BY <2>5
    <3>2. DOMAIN f = DOMAIN buffer \cup {m.seqnum}
      BY DEF Peer!With
    <3>3. \A s \in DOMAIN f : f[s] = IF s = m.seqnum THEN Peer!Payload(m) ELSE buffer[s]
      BY DEF Peer!With
    <3> HIDE DEF f
    <3>4. \A s \in DOMAIN f : SlotTrue(s, f[s]) /\ Peer!Ahead(s) < Place
      BY <1>1, <1>2, <1>5, <2>1, <2>2, <3>2, <3>3 DEF BufferInv
    <3>5. k \in 0..SeqMod /\ DOMAIN buffer \subseteq DOMAIN f
      BY <3>2
    <3>6. /\ EcritInv' /\ BufferInv' /\ Grows
          /\ Peer!Free(DOMAIN buffer') \in Nat \ {0}
          /\ ~Peer!EndsAt(f, k) => attendu' = Len(ecrit')
          /\ Peer!EndsAt(f, k) => Len(ecrit') = taille /\ attendu' \in {0, taille + 1}
      BY <1>1, <1>2, <3>1, <3>4, <3>5, AfterWriting
    <3>7. \A a : a = Peer!CumulativeAck => a \in Acks /\ AckTrue(a)'
      BY <1>1, <3>6, CumulativeTrue
    <3> QED BY <1>1, <2>3, <3>6, <3>7, ClientFrame
  <2> QED BY <1>7, <2>4, <2>5 DEF Peer!AddPacket61, Peer!ecriture
<1> QED BY <1>3, <1>6, <1>7 DEF Peer!Refuse61, Peer!ecriture

(* Group 42's client takes a packet.                                        *)
LEMMA Recv42 ==
  ASSUME Integrity, NEW m \in versClient, PeerClient(42, Peer!Client42Recv(m))
  PROVE  Integrity' /\ ClientStep
<1> USE InteropAssumption
<1>1. /\ duo[2] = 42 /\ UNCHANGED <<duo, existe, taille, fils, enreg, versClient, dernier_ack>>
      /\ UNCHANGED <<session, base, lus, memoire, fini, fin_envoye>>
      /\ pc = "run" /\ Peer!IsData(m)
      /\ versServeur' = versServeur \cup {Peer!CumulativeAck}
  BY DEF PeerClient, serveur, pairs, Peer!Client42Recv
<1>2. FichierInv /\ EcritInv /\ BufferInv /\ PacketTrue(m) /\ attendu = Len(ecrit)
  BY <1>1 DEF Integrity, NetInv, EcritInv
<1>3. /\ m.seqnum \in Seqnums
      /\ m.type = "FIN" => m.seqnum = taille \/ Held(m.seqnum)
      /\ m.seqnum \notin DOMAIN buffer /\ m.type = "DATA" => SlotTrue(m.seqnum, Peer!Payload(m))
  BY <1>1, <1>2, Incoming
<1> DEFINE f == Peer!With(m)
<1>4. /\ DOMAIN f = DOMAIN buffer \cup {m.seqnum}
      /\ \A s \in DOMAIN f : f[s] = IF s = m.seqnum THEN Peer!Payload(m) ELSE buffer[s]
  BY DEF Peer!With
<1>5. CASE UNCHANGED <<attendu, buffer, ecrit>> /\ (pc' = "done" => Len(ecrit) = taille)
  <2>1. EcritInv' /\ BufferInv' /\ Grows
    BY <1>1, <1>2, <1>5, AfterNothing
  <2>2. Peer!Free(DOMAIN buffer') \in Nat \ {0} /\ attendu' = Len(ecrit')
    BY <1>1, <1>2, <1>5, FreeNow
  <2>3. \A a : a = Peer!CumulativeAck => a \in Acks /\ AckTrue(a)'
    BY <2>1, <2>2, CumulativeTrue
  <2> QED BY <1>1, <2>1, <2>3, ClientFrame
<1>6. CASE /\ m.type = "FIN" /\ UNCHANGED <<attendu, buffer, ecrit>>
           /\ pc' = IF m.seqnum = attendu THEN "done" ELSE pc
  <2>1. m.seqnum = attendu => attendu = taille
    BY <1>2, <1>3, <1>6 DEF Held, EcritInv, FichierInv, Seqnums
  <2> QED BY <1>1, <1>2, <1>5, <1>6, <2>1
<1>7. CASE m.type = "DATA" /\ m.seqnum = attendu /\ pc' = pc /\ \E k \in 1..SeqMod : Peer!Writes(f, k)
  <2>1. PICK k \in 1..SeqMod : Peer!Writes(f, k)
    BY <1>7
  <2>2. m.seqnum \notin DOMAIN buffer
    BY <1>1, <1>2, <1>7 DEF BufferInv
  <2> HIDE DEF f
  <2>3. Peer!Ahead(attendu) < Place
    <3>1. attendu \in Seqnums
      BY <1>2 DEF EcritInv
    <3>2. (attendu - attendu) % SeqMod = IF attendu >= attendu THEN attendu - attendu
                                          ELSE attendu - attendu + SeqMod
      BY <3>1, Distance
    <3> QED BY <3>1, <3>2 DEF Peer!Ahead, Seqnums
  <2>4. \A s \in DOMAIN f : SlotTrue(s, f[s]) /\ Peer!Ahead(s) < Place
    BY <1>1, <1>2, <1>3, <1>4, <1>7, <2>2, <2>3 DEF BufferInv
  <2>5. k \in 0..SeqMod /\ DOMAIN buffer \subseteq DOMAIN f
    BY <1>4
  <2>6. ~Peer!EndsAt(f, k)
    <3>1. \A s \in DOMAIN f : f[s] \in Nat
      BY <1>1, <1>2, <2>4 DEF SlotTrue, FichierInv
    <3>2. k > 0 => Peer!Seq0(k - 1) \in DOMAIN f
      BY <2>1 DEF Peer!Writes
    <3> QED BY <3>1, <3>2 DEF Peer!EndsAt, Peer!VIDE
  <2>7. /\ EcritInv' /\ BufferInv' /\ Grows
        /\ Peer!Free(DOMAIN buffer') \in Nat \ {0} /\ attendu' = Len(ecrit')
    BY <1>1, <1>2, <1>7, <2>1, <2>4, <2>5, <2>6, AfterWriting
  <2>8. \A a : a = Peer!CumulativeAck => a \in Acks /\ AckTrue(a)'
    BY <2>7, CumulativeTrue
  <2> QED BY <1>1, <2>7, <2>8, ClientFrame
<1>8. CASE /\ m.type = "DATA" /\ Peer!InWindow42(m.seqnum) /\ m.seqnum # attendu
           /\ buffer' = Peer!Buffer42(m) /\ UNCHANGED <<attendu, ecrit, pc>>
  <2>1. CASE buffer' = buffer
    BY <1>1, <1>5, <1>8, <2>1
  <2>2. CASE buffer' = f /\ m.seqnum \notin DOMAIN buffer
    <3>1. buffer' = [s \in DOMAIN buffer \cup {m.seqnum} |->
                       IF s = m.seqnum THEN Peer!Payload(m) ELSE buffer[s]]
      BY <2>2 DEF Peer!With
    <3>2. /\ SlotTrue(m.seqnum, Peer!Payload(m)) /\ m.seqnum # attendu
          /\ UNCHANGED <<duo, existe, taille, ecrit, attendu, pc>> /\ Peer!Ahead(m.seqnum) < Place
          /\ pc = "run" /\ duo[2] # 0 /\ duo[2] # 20 /\ m.seqnum \in Seqnums
      BY <1>1, <1>3, <1>8, <2>2 DEF Peer!InWindow42
    <3>3. /\ EcritInv' /\ BufferInv' /\ Grows
          /\ Peer!Free(DOMAIN buffer') \in Nat \ {0}
      BY <1>2, <3>1, <3>2, AfterBuffering
    <3>4. attendu' = Len(ecrit')
      BY <1>2, <1>8
    <3>5. \A a : a = Peer!CumulativeAck => a \in Acks /\ AckTrue(a)'
      BY <3>3, <3>4, CumulativeTrue
    <3> QED BY <1>1, <3>3, <3>5, ClientFrame
  <2> QED BY <1>8, <2>1, <2>2 DEF Peer!Buffer42
<1>9. CASE UNCHANGED <<attendu, buffer, ecrit, pc>>
  BY <1>1, <1>5, <1>9
<1> HIDE DEF f
<1> QED BY <1>6, <1>7, <1>8, <1>9 DEF Peer!Client42Recv, PeerClient, Peer!ecriture, f

(* Steps of a peer's client without a packet: a request, a timeout, the     *)
(* answer to the request.                                                   *)
LEMMA PeerIdle ==
  ASSUME Integrity, NEW g, g # 0,
         \/ PeerClient(g, Peer!Client61Turn) \/ PeerClient(g, Peer!Client61Conn)
         \/ PeerClient(g, Peer!Client42Try \/ Peer!Client42Timeout)
         \/ PeerClient(g, Peer!Client20Try \/ Peer!Client20Timeout)
         \/ PeerClient(g, Peer!Client20Conn)
  PROVE  Integrity' /\ ClientStep
<1>1. /\ UNCHANGED <<duo, existe, taille, fils, enreg, versClient, dernier_ack>>
      /\ UNCHANGED <<session, base, lus, memoire, fini, fin_envoye, attendu, buffer, ecrit>>
      /\ pc = "run" /\ pc' # "done" /\ versServeur' \subseteq versServeur \cup {Ours!GET}
  BY DEF PeerClient, serveur, pairs, Peer!Client61Turn, Peer!Client61Conn, Peer!Requests61,
         Peer!Client42Try, Peer!Client42Timeout, Peer!Client20Try, Peer!Client20Timeout,
         Peer!Client20Conn, Peer!ClientSilence, Peer!ecriture, Peer!GET, Ours!GET
<1>2. EcritInv' /\ BufferInv' /\ Grows
  BY <1>1, AfterNothing DEF Integrity
<1> QED BY <1>1, <1>2, ClientFrame

(* Group 20's client takes a packet.                                        *)
LEMMA Recv20 ==
  ASSUME Integrity, NEW m \in versClient, PeerClient(20, Peer!Client20Recv(m))
  PROVE  Integrity' /\ ClientStep
<1> USE InteropAssumption
<1>1. /\ duo[2] = 20 /\ UNCHANGED <<duo, existe, taille, fils, enreg, versClient, dernier_ack>>
      /\ UNCHANGED <<session, base, lus, memoire, fini, fin_envoye, attendu, ecrit, pc>>
      /\ pc = "run" /\ Peer!IsData(m)
  BY DEF PeerClient, serveur, pairs, Peer!Client20Recv
<1>2. FichierInv /\ EcritInv /\ BufferInv /\ NetInv /\ PacketTrue(m) /\ attendu = Len(ecrit)
  BY <1>1 DEF Integrity, NetInv, EcritInv
<1>3. /\ m.seqnum \in Seqnums
      /\ m.seqnum \notin DOMAIN buffer => SlotTrue(m.seqnum, Peer!Payload(m))
  BY <1>1, <1>2, Incoming
<1>4. CASE buffer' = buffer
  <2>1. EcritInv' /\ BufferInv' /\ Grows
    BY <1>1, <1>2, <1>4, AfterNothing DEF EcritInv
  <2>2. \A a : a = Peer!Last20 => a \in Acks /\ AckTrue(a)'
    <3> SUFFICES ASSUME NEW a, a = Peer!Last20 PROVE a \in Acks /\ AckTrue(a)'
      OBVIOUS
    <3>1. CASE dernier_ack.type = "NONE"
      <4>1. a = Peer!Ack("ACK", 0, {}, Place)
        BY <3>1 DEF Peer!Last20
      <4>2. a \in Acks /\ a.seqnum = 0 /\ a.type = "ACK" /\ a.sack = {}
        BY <4>1, Numbers DEF Peer!Ack, Acks, PeerAcks, Seqnums
      <4> QED BY <1>1, <1>2, <4>2, LenProperties DEF AckTrue, Serve!Select20, EcritInv
    <3>2. CASE dernier_ack.type # "NONE"
      <4>1. a = dernier_ack /\ dernier_ack # Ours!NoAck
        BY <3>2 DEF Peer!Last20, Ours!NoAck
      <4>2. a \in Acks /\ AckTrue(a)
        BY <1>2, <4>1 DEF NetInv, AckTrue
      <4> QED BY <1>2, <2>1, <4>2, AckGrows
    <3> QED BY <3>1, <3>2
  <2>3. versServeur' \subseteq versServeur \cup {Peer!Last20}
    BY DEF PeerClient, Peer!Client20Recv
  <2> QED BY <1>1, <2>1, <2>2, <2>3, ClientFrame
<1>5. CASE /\ m.seqnum \notin DOMAIN buffer /\ Peer!Ahead(m.seqnum) < Place
           /\ buffer' = Peer!With(m) /\ versServeur' = versServeur
  <2>1. buffer' = [s \in DOMAIN buffer \cup {m.seqnum} |->
                     IF s = m.seqnum THEN Peer!Payload(m) ELSE buffer[s]]
    BY <1>5 DEF Peer!With
  <2>2. SlotTrue(m.seqnum, Peer!Payload(m)) /\ Peer!Ahead(m.seqnum) < Place /\ duo[2] # 0
    BY <1>1, <1>3, <1>5
  <2>3. EcritInv' /\ BufferInv' /\ Grows
    BY <1>1, <1>2, <1>3, <2>1, <2>2, AfterBuffering
  <2> QED BY <1>1, <1>5, <2>3, ClientFrame
<1> QED BY <1>4, <1>5 DEF PeerClient, Peer!Client20Recv

(* Group 20's client writes what follows and says what it holds.            *)
LEMMA Process20 ==
  ASSUME Integrity, ClientProcess
  PROVE  Integrity' /\ ClientStep
<1> USE InteropAssumption
<1>1. /\ duo[2] = 20 /\ UNCHANGED <<duo, existe, taille, fils, enreg, versClient>>
      /\ UNCHANGED <<session, base, lus, memoire, fini, fin_envoye>> /\ pc = "run"
  BY DEF ClientProcess, PeerClient, serveur, pairs, Peer!Client20Process
<1>2. FichierInv /\ EcritInv /\ BufferInv
  BY DEF Integrity
<1>3. PICK k \in 0..SeqMod :
        /\ Peer!Writes(buffer, k)
        /\ \/ Peer!EndsAt(buffer, k) /\ pc' = "done" /\ UNCHANGED <<dernier_ack, versServeur>>
           \/ /\ ~Peer!EndsAt(buffer, k) /\ pc' = pc
              /\ dernier_ack' = Peer!SackOrAck20
              /\ versServeur' = versServeur \cup {Peer!SackOrAck20}
  BY DEF ClientProcess, PeerClient, Peer!Client20Process
<1>4. \A s \in DOMAIN buffer : SlotTrue(s, buffer[s]) /\ Peer!Ahead(s) < Place
  BY <1>1, <1>2 DEF BufferInv
<1>5. /\ EcritInv' /\ BufferInv' /\ Grows
      /\ Peer!Free(DOMAIN buffer') \in Nat \ {0}
      /\ Len(ecrit') \notin DOMAIN buffer'
      /\ ~Peer!EndsAt(buffer, k) => attendu' = Len(ecrit')
  BY <1>1, <1>2, <1>3, <1>4, AfterWriting
<1>6. CASE Peer!EndsAt(buffer, k)
  BY <1>1, <1>3, <1>5, <1>6, ClientFrame
<1>7. CASE ~Peer!EndsAt(buffer, k)
  <2>1. DOMAIN buffer' \subseteq Seqnums /\ attendu' \in Seqnums
    BY <1>1, <1>2, <1>5 DEF BufferInv, SlotTrue, FichierInv, Seqnums, EcritInv
  <2>2. \A a : a = Peer!SackOrAck20 => a \in Acks /\ AckTrue(a)'
    <3> SUFFICES ASSUME NEW a, a = Peer!SackOrAck20 PROVE a \in Acks /\ AckTrue(a)'
      OBVIOUS
    <3> DEFINE K == DOMAIN buffer'
    <3>1. /\ a.type = IF K = {} THEN "ACK" ELSE "SACK"
          /\ a.seqnum = attendu' /\ a.sack = IF K = {0} THEN {} ELSE K
      BY DEF Peer!SackOrAck20, Peer!Ack
    <3>2. a \in Acks
      BY <1>5, <2>1 DEF Peer!SackOrAck20, Peer!Ack, Acks, PeerAcks
    <3>3. Serve!Select20(a) = K
      BY <3>1 DEF Serve!Select20
    <3>4. \A s \in K : Held(s)'
      BY <1>5, <2>1, LenProperties DEF Held, EcritInv, Seqnums
    <3>5. a.seqnum <= Len(ecrit')
      BY <1>5, <1>7, <2>1, <3>1 DEF Seqnums
    <3>6. Serve!Select20(a)' = Serve!Select20(a)
      BY DEF Serve!Select20
    <3> HIDE DEF K
    <3> QED BY <3>2, <3>3, <3>4, <3>5, <3>6 DEF AckTrue
  <2>3. /\ dernier_ack' = Peer!SackOrAck20
        /\ versServeur' = versServeur \cup {Peer!SackOrAck20}
    BY <1>3, <1>7
  <2>4. dernier_ack' \in Acks /\ AckTrue(dernier_ack)'
    BY <2>2, <2>3 DEF AckTrue
  <2> QED BY <1>1, <1>5, <2>2, <2>3, <2>4, ClientFrame
<1> QED BY <1>6, <1>7

-----------------------------------------------------------------------------
(* Our client.                                                              *)

(* Its writing loop is that of the others, over its buffer and the packet.  *)
LEMMA SameWriting ==
  ASSUME FichierInv, EcritInv, BufferInv, pc = "run", duo[2] = 0,
         NEW m, m.type = "DATA", m.morceau = m.seqnum, m.seqnum < taille,
         NEW k \in 0..SeqMod-1, Ours!InSequence(m, k)
  PROVE  /\ Peer!Writes(Peer!With(m), k + 1) /\ ~Peer!EndsAt(Peer!With(m), k + 1)
         /\ \A s \in DOMAIN Peer!With(m) : SlotTrue(s, Peer!With(m)[s])
         /\ DOMAIN buffer \subseteq DOMAIN Peer!With(m)
<1> USE InteropAssumption
<1> DEFINE f == Peer!With(m)
           vides == {Ours!Suivant(j) : j \in 1..k}
<1>1. /\ taille \in Nat /\ taille < SeqMod /\ attendu \in Nat /\ attendu < taille
      /\ attendu = Len(ecrit) /\ SeqMod \in Nat \ {0} /\ m.seqnum = attendu
      /\ attendu \in Seqnums
  BY DEF FichierInv, EcritInv, Seqnums, Ours!InSequence
<1>2. /\ vides \subseteq DOMAIN buffer /\ Ours!Suivant(k + 1) \notin DOMAIN buffer
      /\ ecrit' = ecrit \o [j \in 1..k+1 |->
                    IF j = 1 THEN m.morceau ELSE buffer[Ours!Suivant(j - 1)]]
      /\ attendu' = Ours!Suivant(k + 1)
      /\ buffer' = [s \in DOMAIN buffer \ vides |-> buffer[s]]
  BY DEF Ours!InSequence, Ours!Without
<1>3. \A j \in 0..SeqMod : Peer!Seq0(j) = Ours!Suivant(j)
  BY DEF Peer!Seq0, Ours!Suivant
<1>4. Peer!Seq0(0) = attendu
  <2>1. attendu + 0 = attendu
    BY <1>1
  <2> QED BY <1>1, <2>1, Numbers DEF Peer!Seq0
<1>5. attendu \notin DOMAIN buffer /\ \A s \in DOMAIN buffer : buffer[s] = s /\ s \in 0..taille-1
  BY <1>1 DEF BufferInv, SlotTrue
<1>6. /\ DOMAIN f = DOMAIN buffer \cup {attendu}
      /\ f[attendu] = attendu /\ \A s \in DOMAIN buffer : f[s] = buffer[s]
  BY <1>1, <1>5 DEF Peer!With, Peer!Payload
<1> HIDE DEF f
<1>7. \A s \in DOMAIN f : f[s] = s /\ s \in 0..taille-1
  BY <1>1, <1>5, <1>6
<1>8. attendu + k < SeqMod - 1
  <2> SUFFICES ASSUME attendu + k >= SeqMod - 1 PROVE FALSE
    BY <1>1
  <2> DEFINE j == SeqMod - 1 - attendu
  <2>1. j \in 1..k
    BY <1>1
  <2>2. Ours!Suivant(j) = SeqMod - 1
    <3>1. attendu + j = SeqMod - 1 /\ SeqMod - 1 \in Seqnums
      BY <1>1 DEF Seqnums
    <3> QED BY <3>1, Numbers DEF Ours!Suivant
  <2>3. Ours!Suivant(j) \in DOMAIN buffer
    <3> HIDE DEF j
    <3> QED BY <1>2, <2>1
  <2> QED BY <1>1, <1>5, <2>2, <2>3
<1>9. \A j \in 0..k+1 : Peer!Seq0(j) = attendu + j
  <2> SUFFICES ASSUME NEW j \in 0..k+1 PROVE Peer!Seq0(j) = attendu + j
    OBVIOUS
  <2>1. attendu + j \in Seqnums
    BY <1>1, <1>8 DEF Seqnums
  <2> QED BY <2>1, Numbers DEF Peer!Seq0
<1>10. \A j \in 1..k : Peer!Seq0(j) \in DOMAIN buffer
  BY <1>2, <1>3
<1>11. \A j \in 0..k : Peer!Seq0(j) \in DOMAIN f
  <2> SUFFICES ASSUME NEW j \in 0..k PROVE Peer!Seq0(j) \in DOMAIN f
    OBVIOUS
  <2>1. CASE j = 0
    BY <1>4, <1>6, <2>1
  <2>2. CASE j \in 1..k
    BY <1>6, <1>10, <2>2
  <2> QED BY <2>1, <2>2
<1>12. \A j \in 1..k+1 : ~Peer!EndsAt(f, j)
  <2> SUFFICES ASSUME NEW j \in 1..k+1 PROVE ~Peer!EndsAt(f, j)
    OBVIOUS
  <2>1. j - 1 \in 0..k
    OBVIOUS
  <2>2. f[Peer!Seq0(j - 1)] \in Nat
    BY <1>7, <1>11, <2>1
  <2> QED BY <2>2 DEF Peer!EndsAt, Peer!VIDE
<1>13. Peer!Seq0(k + 1) \notin DOMAIN f
  BY <1>1, <1>2, <1>3, <1>6, <1>9
<1>14. buffer' = [s \in DOMAIN f \ {Peer!Seq0(j) : j \in 0..k} |-> f[s]]
  <2>1. \A s \in DOMAIN buffer : s \in vides <=> s \in {Peer!Seq0(j) : j \in 0..k}
    <3>1. \A s \in DOMAIN buffer : s # Peer!Seq0(0)
      BY <1>4, <1>5
    <3>2. \A j \in 0..k : j = 0 \/ j \in 1..k
      OBVIOUS
    <3> QED BY <1>3, <3>1, <3>2
  <2>2. attendu \in {Peer!Seq0(j) : j \in 0..k}
    BY <1>4
  <2>3. DOMAIN buffer \ vides = DOMAIN f \ {Peer!Seq0(j) : j \in 0..k}
    BY <1>6, <2>1, <2>2
  <2> HIDE DEF vides
  <2> QED BY <1>2, <1>6, <2>3
<1>15. [j \in 1..k+1 |-> IF j = 1 THEN m.morceau ELSE buffer[Ours!Suivant(j - 1)]]
         = [j \in 1..k+1 |-> f[Peer!Seq0(j - 1)]]
  <2> SUFFICES ASSUME NEW j \in 1..k+1
               PROVE  (IF j = 1 THEN m.morceau ELSE buffer[Ours!Suivant(j - 1)])
                        = f[Peer!Seq0(j - 1)]
    OBVIOUS
  <2>1. CASE j = 1
    BY <1>1, <1>4, <1>6, <2>1
  <2>2. CASE j # 1
    <3>1. j - 1 \in 1..k /\ j - 1 \in 0..SeqMod
      BY <2>2
    <3> QED BY <1>3, <1>6, <1>10, <2>2, <3>1
  <2> QED BY <2>1, <2>2
<1>16. ~Peer!EndsAt(f, k + 1)
  BY <1>12
<1>17. attendu' = Peer!Seq0(k + 1)
  BY <1>2, <1>3
<1>18. Peer!Writes(f, k + 1)
  <2>1. (k + 1) - 1 = k
    OBVIOUS
  <2>2. \A j \in 1..(k+1)-1 : ~Peer!EndsAt(f, j)
    BY <1>12
  <2>3. ecrit' = ecrit \o [j \in 1..k+1 |-> f[Peer!Seq0(j - 1)]]
    BY <1>2, <1>15
  <2> QED BY <1>11, <1>13, <1>14, <1>16, <1>17, <2>1, <2>2, <2>3 DEF Peer!Writes
<1>19. \A s \in DOMAIN f : SlotTrue(s, f[s])
  BY <1>7 DEF SlotTrue
<1> QED BY <1>6, <1>16, <1>18, <1>19 DEF f

(* Our client takes a DATA packet: what it then says it holds, it holds.    *)
LEMMA OurWriting ==
  ASSUME Integrity, duo[2] = 0, pc = "run", NEW m \in versClient, m.type = "DATA",
         UNCHANGED <<duo, existe, taille>>, pc' # "done", pc' = "run" => pc = "run",
         (\E k \in 0..SeqMod-1 : Ours!InSequence(m, k)) \/ Ours!OutOfSequence(m)
  PROVE  /\ EcritInv' /\ BufferInv' /\ Grows /\ attendu' = Len(ecrit')
<1> USE InteropAssumption
<1>1. FichierInv /\ EcritInv /\ BufferInv /\ PacketTrue(m) /\ Peer!IsData(m)
  BY DEF Integrity, NetInv, Peer!IsData
<1>2. /\ m.seqnum \in Seqnums /\ m.morceau = m.seqnum /\ m.seqnum < taille
  BY <1>1, Incoming
<1>3. /\ taille \in Nat /\ taille < SeqMod /\ attendu \in Nat /\ attendu <= taille
      /\ attendu = Len(ecrit) /\ SeqMod \in Nat \ {0} /\ attendu \in Seqnums
  BY <1>1 DEF FichierInv, EcritInv, Seqnums
<1>4. CASE \E k \in 0..SeqMod-1 : Ours!InSequence(m, k)
  <2> DEFINE f == Peer!With(m)
  <2>1. PICK k \in 0..SeqMod-1 : Ours!InSequence(m, k)
    BY <1>4
  <2>2. /\ Peer!Writes(f, k + 1) /\ ~Peer!EndsAt(f, k + 1)
        /\ \A s \in DOMAIN f : SlotTrue(s, f[s])
        /\ DOMAIN buffer \subseteq DOMAIN f
    BY <1>1, <1>2, <2>1, SameWriting
  <2> HIDE DEF f
  <2>3. k + 1 \in 0..SeqMod
    OBVIOUS
  <2>4. /\ ecrit' \in Seq(Nat) /\ Len(ecrit') \in Len(ecrit)..taille
        /\ \A i \in 1..Len(ecrit') : ecrit'[i] = i - 1
        /\ DOMAIN buffer' = DOMAIN f \ (attendu..attendu+(k+1)-1)
        /\ \A s \in DOMAIN buffer' : buffer'[s] = f[s]
        /\ attendu' \in Seqnums
        /\ attendu' = Len(ecrit') /\ Len(ecrit') = attendu + (k + 1)
        /\ attendu' \notin DOMAIN f
    BY <1>1, <2>2, <2>3, WritesTrue
  <2>5. EcritInv'
    BY <1>3, <2>4 DEF EcritInv
  <2>6. \A s \in DOMAIN buffer' : SlotTrue(s, buffer[s])'
    BY <2>2, <2>4 DEF SlotTrue
  <2>7. BufferInv'
    BY <2>4, <2>6 DEF BufferInv
  <2>8. Grows
    BY <1>3, <2>2, <2>4 DEF Grows, Held, Seqnums
  <2> QED BY <2>4, <2>5, <2>7, <2>8
<1>5. CASE Ours!OutOfSequence(m)
  <2>1. /\ m.seqnum # attendu /\ UNCHANGED <<ecrit, attendu>>
        /\ buffer' = [s \in DOMAIN buffer \cup {m.seqnum} |->
                        IF s = m.seqnum THEN m.morceau ELSE buffer[s]]
    BY <1>5 DEF Ours!OutOfSequence
  <2>2. DOMAIN buffer' = DOMAIN buffer \cup {m.seqnum}
    BY <2>1
  <2>3. EcritInv'
    BY <1>1, <1>3, <2>1 DEF EcritInv
  <2>4. \A s \in DOMAIN buffer' : SlotTrue(s, buffer[s])'
    BY <1>1, <1>2, <1>3, <2>1 DEF BufferInv, SlotTrue, Seqnums
  <2>5. BufferInv'
    BY <1>1, <1>3, <2>1, <2>2, <2>4 DEF BufferInv
  <2>6. Grows
    BY <1>3, <2>1, <2>2 DEF Grows, Held, Seqnums
  <2> QED BY <1>3, <2>1, <2>3, <2>5, <2>6
<1> QED BY <1>4, <1>5

(* Our client takes a DATA packet: it writes it, buffers it or drops it.    *)
LEMMA OurRecvData ==
  ASSUME Integrity, NEW m \in versClient, OurClient(Ours!ClientRecvData(m))
  PROVE  Integrity' /\ ClientStep
<1> USE InteropAssumption
<1>1. /\ duo[2] = 0 /\ UNCHANGED <<duo, existe, taille, fils, enreg, versClient>>
      /\ UNCHANGED <<session, base, lus, memoire, fini, fin_envoye>> /\ pc = "run"
      /\ m.type = "DATA"
      /\ (\E k \in 0..SeqMod-1 : Ours!InSequence(m, k)) \/ Ours!OutOfSequence(m)
      /\ Ours!Acknowledge
  BY DEF OurClient, Ours!ClientRecvData, pairs, Ours!fichier, Ours!etat
<1> DEFINE a == Ours!ACK(IF DOMAIN buffer' = {} THEN "ACK" ELSE "SACK", attendu',
                         Ours!DecodedSack(DOMAIN buffer', apres_zero'))
<1>2. \/ dernier_ack' = a /\ versServeur' = versServeur \cup {a} /\ pc' = pc
      \/ pc' = "crash" /\ UNCHANGED <<dernier_ack, versServeur>>
  BY <1>1 DEF Ours!Acknowledge
<1> HIDE DEF a
<1>3. EcritInv' /\ BufferInv' /\ Grows /\ attendu' = Len(ecrit')
  BY <1>1, <1>2, OurWriting
<1>4. CASE pc' = "crash" /\ UNCHANGED <<dernier_ack, versServeur>>
  BY <1>1, <1>3, <1>4, ClientFrame
<1>5. CASE dernier_ack' = a /\ versServeur' = versServeur \cup {a} /\ pc' = pc
  <2>1. /\ taille \in Nat /\ taille <= MaxMorceaux /\ taille' = taille /\ duo' = duo
    BY <1>1 DEF Integrity, FichierInv
  <2>2. DOMAIN buffer' \subseteq Seqnums /\ attendu' \in Seqnums /\ Len(ecrit') \notin DOMAIN buffer'
    BY <1>1, <1>3, <2>1 DEF BufferInv, SlotTrue, Seqnums, EcritInv
  <2>3. \A x : x = a => x \in Acks /\ AckTrue(x)'
    <3> SUFFICES ASSUME NEW x, x = a PROVE x \in Acks /\ AckTrue(x)'
      OBVIOUS
    <3>1. /\ x.type = IF DOMAIN buffer' = {} THEN "ACK" ELSE "SACK"
          /\ x.seqnum = attendu' /\ x.sack = Ours!DecodedSack(DOMAIN buffer', apres_zero')
      BY DEF a, Ours!ACK
    <3>2. x.sack = DOMAIN buffer' \/ (0 \in DOMAIN buffer' /\ x.sack = DOMAIN buffer' \ {0})
      BY <3>1 DEF Ours!DecodedSack
    <3>3. x \in Acks
      BY <2>2, <3>1, <3>2 DEF a, Ours!ACK, Acks, OurAcks
    <3>4. Serve!Select20(x) \subseteq DOMAIN buffer'
      BY <3>1, <3>2 DEF Serve!Select20
    <3>5. \A s \in DOMAIN buffer' : Held(s)'
      BY <1>3, <2>2, LenProperties DEF Held, EcritInv, Seqnums
    <3>6. x.seqnum <= Len(ecrit')
      BY <1>3, <2>2, <3>1 DEF Seqnums
    <3>7. Serve!Select20(x)' = Serve!Select20(x)
      BY DEF Serve!Select20
    <3> QED BY <3>3, <3>4, <3>5, <3>6, <3>7 DEF AckTrue
  <2>4. dernier_ack' \in Acks /\ AckTrue(dernier_ack)'
    BY <1>5, <2>3 DEF AckTrue
  <2> QED BY <1>1, <1>3, <1>5, <2>3, <2>4, ClientFrame
<1> QED BY <1>2, <1>4, <1>5

(* Our client's other steps: an end packet, any other datagram, a timeout.  *)
LEMMA OurIdle ==
  ASSUME Integrity,
         \/ \E m \in versClient : OurClient(Ours!ClientRecvFin(m))
         \/ OurClient(Ours!ClientRecvOther) \/ OurClient(Ours!ClientTimeout)
  PROVE  Integrity' /\ ClientStep
<1> USE InteropAssumption
<1>1. /\ duo[2] = 0 /\ UNCHANGED <<duo, existe, taille, fils, enreg, versClient, dernier_ack>>
      /\ UNCHANGED <<session, base, lus, memoire, fini, fin_envoye, attendu, buffer, ecrit>>
      /\ pc = "run"
  BY DEF OurClient, Ours!ClientRecvFin, Ours!ClientRecvOther, Ours!ClientTimeout, pairs,
         Ours!fichier, Ours!etat, Ours!reception
<1>2. FichierInv /\ EcritInv /\ BufferInv /\ NetInv /\ attendu = Len(ecrit) /\ attendu \in Seqnums
  BY <1>1 DEF Integrity, EcritInv
<1>3. CASE \E m \in versClient : OurClient(Ours!ClientRecvFin(m)) /\ m.seqnum = attendu
  <2>1. PICK m \in versClient : OurClient(Ours!ClientRecvFin(m)) /\ m.seqnum = attendu
    BY <1>3
  <2>2. m.type = "FIN" /\ PacketTrue(m) /\ Peer!IsData(m)
    BY <1>2, <2>1 DEF OurClient, Ours!ClientRecvFin, NetInv, Peer!IsData
  <2>3. m.seqnum = taille \/ Held(m.seqnum)
    BY <1>2, <2>2, Incoming
  <2>4. attendu = taille
    BY <1>2, <2>1, <2>3 DEF Held, EcritInv, FichierInv, Seqnums
  <2>5. EcritInv' /\ BufferInv' /\ Grows
    BY <1>1, <1>2, <2>4, AfterNothing
  <2>6. versServeur' \subseteq versServeur \cup {Ours!ACK("ACK", attendu, {})}
    BY <2>1 DEF OurClient, Ours!ClientRecvFin
  <2>7. \A x : x = Ours!ACK("ACK", attendu, {}) => x \in Acks /\ AckTrue(x)'
    <3> SUFFICES ASSUME NEW x, x = Ours!ACK("ACK", attendu, {}) PROVE x \in Acks /\ AckTrue(x)'
      OBVIOUS
    <3>1. x.type = "ACK" /\ x.seqnum = attendu /\ x.sack = {}
      BY DEF Ours!ACK
    <3>2. x \in Acks
      BY <1>2 DEF Ours!ACK, Acks, OurAcks
    <3> QED BY <1>1, <1>2, <3>1, <3>2 DEF AckTrue, Serve!Select20, Seqnums
  <2> QED BY <1>1, <2>5, <2>6, <2>7, ClientFrame
<1>4. CASE \/ \E m \in versClient : OurClient(Ours!ClientRecvFin(m)) /\ m.seqnum # attendu
           \/ OurClient(Ours!ClientRecvOther) \/ OurClient(Ours!ClientTimeout)
  <2>1. pc' # "done" /\ versServeur' \subseteq versServeur \cup ({dernier_ack, Ours!GET} \ {Ours!NoAck})
    BY <1>1, <1>4 DEF OurClient, Ours!ClientRecvFin, Ours!ClientRecvOther, Ours!ClientTimeout,
         Ours!FinExpected, Ours!NoAck, Ours!GET
  <2>2. EcritInv' /\ BufferInv' /\ Grows
    BY <1>1, <1>2, <2>1, AfterNothing
  <2>3. \A x : x = dernier_ack /\ x # Ours!NoAck => x \in Acks /\ AckTrue(x)'
    <3> SUFFICES ASSUME NEW x, x = dernier_ack, x # Ours!NoAck PROVE x \in Acks /\ AckTrue(x)'
      OBVIOUS
    <3>1. x \in Acks /\ AckTrue(x)
      BY <1>2 DEF NetInv, AckTrue
    <3> QED BY <1>2, <2>2, <3>1, AckGrows
  <2> QED BY <1>1, <2>1, <2>2, <2>3, ClientFrame
<1> QED BY <1>3, <1>4

-----------------------------------------------------------------------------
(* The servers.                                                             *)

(* The frame of a server's step, and of a loss.                             *)
LEMMA ServerFrame ==
  ASSUME Integrity,
         UNCHANGED <<duo, existe, taille, pc, attendu, buffer, ecrit, dernier_ack>>,
         versServeur' \subseteq versServeur,
         \A m \in versClient' : m \in versClient \/ PacketTrue(m),
         NousInv', FilsInv'
  PROVE  Integrity'
<1>1. FichierInv' /\ EcritInv' /\ BufferInv'
  BY DEF Integrity, FichierInv, EcritInv, BufferInv, SlotTrue, Peer!Ahead
<1>2. \A m : AckTrue(m) => AckTrue(m)'
  BY DEF AckTrue, Held, Serve!Select20
<1>3. \A m : PacketTrue(m) => PacketTrue(m)'
  BY DEF PacketTrue, Held, Ours!CONN, Ours!DATA, Ours!FIN
<1>4. NetInv
  BY DEF Integrity
<1>5. dernier_ack # Ours!NoAck => AckTrue(dernier_ack)'
  BY <1>4 DEF NetInv, AckTrue, Held, Serve!Select20
<1>6. NetInv'
  BY <1>2, <1>3, <1>4, <1>5 DEF NetInv
<1> QED BY <1>1, <1>6 DEF Integrity

(* Handlers that do not change.                                             *)
LEMMA FilsFrame ==
  ASSUME FilsInv, UNCHANGED <<duo, taille, ecrit, buffer, fils, enreg>>
  PROVE  FilsInv'
<1>1. \A m : AckTrue(m)' = AckTrue(m)
  BY DEF AckTrue, Held, Serve!Select20
<1>2. \A t : QueueTrue(fils[t].file) => QueueTrue(fils[t].file)'
  BY <1>1 DEF QueueTrue, Serve!GET
<1>3. \A t : /\ Handler20(fils[t]) => Handler20(fils[t])'
             /\ Handler42(fils[t]) => Handler42(fils[t])'
             /\ Handler61(fils[t]) => Handler61(fils[t])'
  BY DEF Handler20, Handler42, Handler61, Held
<1> QED BY <1>2, <1>3 DEF FilsInv

(* A handler that changes, the others staying as they are.                  *)
LEMMA OneHandler ==
  ASSUME FilsInv, UNCHANGED <<duo, taille, ecrit, buffer>>, enreg' \in 0..MaxFils,
         NEW t \in 1..MaxFils, NEW f \in Handlers, fils' = [fils EXCEPT ![t] = f],
         QueueTrue(f.file), duo[1] = 61 => Handler61(f),
         duo[1] = 42 => Handler42(f), duo[1] = 20 => Handler20(f)
  PROVE  FilsInv'
<1>1. \A u \in 1..MaxFils : fils'[u] = IF u = t THEN f ELSE fils[u]
  BY DEF FilsInv
<1>2. fils' \in [1..MaxFils -> Handlers]
  BY DEF FilsInv
<1>3. \A m : AckTrue(m)' = AckTrue(m)
  BY DEF AckTrue, Held, Serve!Select20
<1>4. ASSUME NEW g, NEW u, fils'[u] = g
      PROVE  /\ QueueTrue(g.file) => QueueTrue(fils[u].file)'
             /\ Handler20(g) => Handler20(fils[u])'
             /\ Handler42(g) => Handler42(fils[u])'
             /\ Handler61(g) => Handler61(fils[u])'
  BY <1>3, <1>4 DEF QueueTrue, Handler20, Handler42, Handler61, Held, Serve!GET
<1>5. ASSUME NEW u \in 1..MaxFils
      PROVE  /\ QueueTrue(fils[u].file)'
             /\ duo[1] = 61 => Handler61(fils[u])'
             /\ duo[1] = 42 => Handler42(fils[u])'
             /\ duo[1] = 20 => Handler20(fils[u])'
  <2>1. CASE u = t
    <3>1. fils'[u] = f
      BY <1>1, <2>1
    <3> QED BY <1>4, <3>1
  <2>2. CASE u # t
    <3>1. fils'[u] = fils[u]
      BY <1>1, <2>2
    <3> QED BY <1>4, <3>1 DEF FilsInv
  <2> QED BY <2>1, <2>2
<1> QED BY <1>2, <1>5 DEF FilsInv

(* The network loses a packet.                                              *)
LEMMA Loses ==
  ASSUME Integrity, Ours!NetLose, UNCHANGED <<duo, remote_window, pairs>>
  PROVE  Integrity'
<1>1. /\ UNCHANGED <<duo, existe, taille, pc, attendu, buffer, ecrit, dernier_ack, fils, enreg>>
      /\ UNCHANGED <<session, base, lus, memoire, fini, fin_envoye>>
      /\ versServeur' \subseteq versServeur /\ versClient' \subseteq versClient
  BY DEF Ours!NetLose, pairs, Ours!fichier, Ours!etat, Ours!client, Ours!reception
<1>2. FilsInv'
  BY <1>1, FilsFrame DEF Integrity
<1>3. NousInv'
  BY <1>1 DEF Integrity, NousInv
<1> QED BY <1>1, <1>2, <1>3, ServerFrame

-----------------------------------------------------------------------------
(* Our server.                                                              *)

(* What one turn of our sending loop leaves: the k morceaux read have their *)
(* own numbers as keys, and the file is exhausted when the end is announced.*)
LEMMA PumpTrue ==
  ASSUME FichierInv, NousInv, NEW w, NEW k \in 0..taille-lus, Ours!Sends(k, w)
  PROVE  /\ DOMAIN Ours!MemoireAfter(k) = DOMAIN memoire \cup (lus..lus+k-1)
         /\ \A s \in DOMAIN Ours!MemoireAfter(k) :
              s \in 0..lus+k-1 /\ Ours!MemoireAfter(k)[s] = s
         /\ fini \/ Ours!Open(k, w) => lus + k = taille
<1> USE InteropAssumption
<1>1. /\ lus \in Nat /\ taille \in Nat /\ lus + k <= taille /\ taille < SeqMod
      /\ SeqMod \in Nat \ {0} /\ DOMAIN memoire \subseteq Seqnums /\ lus \in Seqnums
  BY DEF FichierInv, NousInv, Seqnums
<1>2. ASSUME NEW s \in Seqnums
      PROVE  /\ s \in lus..lus+k-1 => Ours!Rang(s) < k /\ lus + Ours!Rang(s) = s
             /\ s \notin lus..lus+k-1 => ~(Ours!Rang(s) < k)
  <2>1. Ours!Rang(s) = IF s >= lus THEN s - lus ELSE s - lus + SeqMod
    BY <1>1, Distance DEF Ours!Rang
  <2> QED BY <1>1, <2>1 DEF Seqnums
<1>3. lus..lus+k-1 \subseteq Seqnums /\ Ours!Seqnums = Seqnums
  BY <1>1 DEF Seqnums, Ours!Seqnums
<1>4. Ours!KeysAfter(k) = DOMAIN memoire \cup (lus..lus+k-1)
  <2>1. {s \in Ours!Seqnums : Ours!Rang(s) < k} = lus..lus+k-1
    BY <1>2, <1>3, Zenon
  <2> QED BY <2>1 DEF Ours!KeysAfter
<1>5. DOMAIN Ours!MemoireAfter(k) = DOMAIN memoire \cup (lus..lus+k-1)
  BY <1>4 DEF Ours!MemoireAfter
<1>6. ASSUME NEW s \in Ours!KeysAfter(k)
      PROVE  Ours!MemoireAfter(k)[s] = s /\ s \in 0..lus+k-1
  <2>1. s \in Seqnums
    BY <1>1, <1>3, <1>4
  <2>2. CASE s \in lus..lus+k-1
    <3>1. Ours!Rang(s) < k /\ lus + Ours!Rang(s) = s
      BY <1>2, <2>1, <2>2
    <3>2. Ours!MemoireAfter(k)[s] = s
      BY <3>1, <1>6 DEF Ours!MemoireAfter
    <3> QED BY <1>1, <2>2, <3>2
  <2>3. CASE s \notin lus..lus+k-1
    <3>1. s \in DOMAIN memoire /\ ~(Ours!Rang(s) < k)
      BY <1>2, <1>4, <2>1, <2>3
    <3>2. Ours!MemoireAfter(k)[s] = memoire[s]
      BY <3>1, <1>6 DEF Ours!MemoireAfter
    <3> QED BY <1>1, <2>1, <3>1, <3>2 DEF NousInv, Seqnums
  <2> QED BY <2>2, <2>3
<1>7. ASSUME fini PROVE lus + k = taille
  <2>1. k = 0
    BY <1>7 DEF Ours!Sends, Ours!Open
  <2> QED BY <1>1, <1>7, <2>1 DEF NousInv
<1>8. Ours!Open(k, w) => lus + k = taille
  BY DEF Ours!Sends
<1> QED BY <1>5, <1>6, <1>7, <1>8 DEF Ours!MemoireAfter

(* The entry of a new peer, or none.                                        *)
LEMMA FreshTrue ==
  ASSUME FichierInv, taille' = taille, NEW b \in BOOLEAN, Ours!FreshEtat(b)
  PROVE  NousInv'
<1>1. session' \in BOOLEAN /\ fini' \in BOOLEAN /\ fin_envoye' \in BOOLEAN
  BY Zenon DEF Ours!FreshEtat
<1>2. ~fini' /\ ~fin_envoye'
  BY DEF Ours!FreshEtat
<1>3. base' = 0 /\ lus' = 0 /\ DOMAIN memoire' = {}
  BY DEF Ours!FreshEtat, Ours!Empty
<1>4. base' \in Seqnums /\ lus' \in 0..taille'
  BY <1>3, InteropAssumption DEF Seqnums, FichierInv
<1> QED BY <1>1, <1>2, <1>3, <1>4 DEF NousInv

(* A turn of its sending loop.                                              *)
LEMMA OurPump ==
  ASSUME Integrity, OurServer(Ours!SrvPumpSome(remote_window))
  PROVE  Integrity'
<1> USE InteropAssumption
<1>1. /\ UNCHANGED <<duo, existe, taille, pc, attendu, buffer, ecrit, dernier_ack, fils, enreg>>
      /\ versServeur' = versServeur /\ Ours!SrvPumpSome(remote_window)
  BY DEF OurServer, Ours!SrvPumpSome, Ours!SrvPump, pairs, Ours!fichier, Ours!client, Ours!reception
<1>2. PICK k \in 0..taille-lus, expires \in SUBSET DOMAIN memoire, silence \in BOOLEAN,
           trois \in BOOLEAN : Ours!SrvPump(remote_window, k, expires, silence, trois)
  BY <1>1 DEF Ours!SrvPumpSome
<1> DEFINE mem == Ours!MemoireAfter(k)
           fini1 == fini \/ Ours!Open(k, remote_window)
           fin1 == fin_envoye \/ Ours!Ends(mem, fini1)
<1>3. FichierInv /\ NousInv /\ NetInv /\ FilsInv
  BY DEF Integrity
<1>4. Ours!Sends(k, remote_window)
  BY <1>2 DEF Ours!SrvPump
<1>5. /\ \A s \in DOMAIN mem : s \in 0..lus+k-1 /\ mem[s] = s
      /\ fini1 => lus + k = taille
  BY <1>3, <1>4, PumpTrue
<1>6. /\ versClient' = versClient
           \cup {Ours!DATA(i) : i \in lus..lus+k-1}
           \cup {Ours!DATA(mem[s]) : s \in Ours!Resends(mem, expires, silence)}
           \cup (IF Ours!Ends(mem, fini1) \/ (silence /\ fin1) THEN {Ours!FIN(lus + k)} ELSE {})
      /\ \/ trois /\ Ours!FreshEtat(FALSE)
         \/ /\ lus' = lus + k /\ memoire' = mem /\ fini' = fini1
            /\ fin_envoye' = fin1 /\ UNCHANGED <<session, base>>
      /\ expires \subseteq DOMAIN memoire
  BY <1>2 DEF Ours!SrvPump
<1>7. DOMAIN memoire \subseteq DOMAIN mem
  BY DEF Ours!MemoireAfter, Ours!KeysAfter
<1>8. lus \in Nat /\ taille \in Nat /\ lus + k <= taille
  BY <1>3 DEF FichierInv, NousInv
<1>9. Ours!Resends(mem, expires, silence) \subseteq DOMAIN mem
  BY <1>6, <1>7 DEF Ours!Resends
<1>10. fin1 => fini1
  BY <1>3 DEF Ours!Ends, NousInv
<1>11. Ours!Ends(mem, fini1) => fini1
  BY DEF Ours!Ends
<1> HIDE DEF mem, fini1, fin1
<1>12. \A m \in versClient' : m \in versClient \/ PacketTrue(m)
  <2> SUFFICES ASSUME NEW m \in versClient', m \notin versClient PROVE PacketTrue(m)
    OBVIOUS
  <2>1. CASE \E i \in lus..lus+k-1 : m = Ours!DATA(i)
    BY <1>8, <2>1 DEF PacketTrue
  <2>2. CASE \E s \in DOMAIN mem : m = Ours!DATA(mem[s])
    BY <1>5, <1>8, <2>2 DEF PacketTrue
  <2>3. CASE m = Ours!FIN(lus + k) /\ fini1
    BY <1>5, <2>3 DEF PacketTrue
  <2> QED BY <1>6, <1>9, <1>10, <1>11, <2>1, <2>2, <2>3
<1>13. NousInv'
  <2>1. CASE Ours!FreshEtat(FALSE)
    BY <1>1, <1>3, <2>1, FreshTrue
  <2>2. CASE /\ lus' = lus + k /\ memoire' = mem /\ fini' = fini1
             /\ fin_envoye' = fin1 /\ UNCHANGED <<session, base>>
    <3>1. fini1 \in BOOLEAN /\ fin1 \in BOOLEAN
      BY <1>3 DEF fini1, fin1, NousInv, Ours!Open, Ours!Ends
    <3> QED BY <1>1, <1>3, <1>5, <1>8, <1>10, <2>2, <3>1 DEF NousInv
  <2> QED BY <1>6, <2>1, <2>2
<1>14. FilsInv'
  BY <1>1, <1>3, FilsFrame
<1> QED BY <1>1, <1>12, <1>13, <1>14, ServerFrame

(* The other turns of our server's loop: a request, an acknowledgement,     *)
(* nothing, nobody.                                                         *)
LEMMA OurServerIntegrity ==
  ASSUME Integrity,
         OurLoop \/ OurServer(OurRecvGet) \/ \E m \in versServeur : OurServer(OurRecvAck(m))
  PROVE  Integrity'
<1> USE InteropAssumption
<1>1. FichierInv /\ NousInv /\ NetInv /\ FilsInv
  BY DEF Integrity
<1>2. CASE OurLoop
  <2>1. CASE OurServer(Ours!SrvPumpSome(remote_window))
    BY <2>1, OurPump
  <2>2. CASE OurServer(Ours!SrvRecvNothing) \/ OurServer(Ours!SrvPumpNobody)
    <3>1. /\ UNCHANGED <<duo, existe, taille, pc, attendu, buffer, ecrit, dernier_ack, fils, enreg>>
          /\ UNCHANGED <<session, base, lus, memoire, fini, fin_envoye, versServeur, versClient>>
      BY <2>2 DEF OurServer, Ours!SrvRecvNothing, Ours!SrvPumpNobody, pairs, Ours!fichier,
                  Ours!etat, Ours!client, Ours!reception
    <3>2. NousInv' /\ FilsInv'
      BY <1>1, <3>1, FilsFrame DEF NousInv
    <3> QED BY <3>1, <3>2, ServerFrame
  <2> QED BY <1>2, <2>1, <2>2 DEF OurLoop, OurServer
<1>3. CASE OurServer(OurRecvGet)
  <2>1. /\ UNCHANGED <<duo, existe, taille, pc, attendu, buffer, ecrit, dernier_ack, fils, enreg>>
        /\ versServeur' = versServeur
        /\ \/ /\ UNCHANGED <<session, base, lus, memoire, fini, fin_envoye>>
              /\ versClient' = versClient \/ (~existe /\ versClient' = versClient \cup {Ours!CONN, Ours!FIN(0)})
           \/ Ours!FreshEtat(TRUE) /\ versClient' = versClient \cup {Ours!CONN}
    BY <1>3 DEF OurServer, OurRecvGet, Ours!SrvRecvGet, pairs, Ours!fichier,
                Ours!etat, Ours!client, Ours!reception
  <2>2. ~existe => taille = 0
    BY <1>1 DEF FichierInv
  <2>3. \A m \in versClient' : m \in versClient \/ PacketTrue(m)
    <3>1. PacketTrue(Ours!CONN) /\ (~existe => PacketTrue(Ours!FIN(0)))
      BY <2>2 DEF PacketTrue
    <3> QED BY <2>1, <3>1
  <2>4. NousInv'
    <3>1. CASE UNCHANGED <<session, base, lus, memoire, fini, fin_envoye>>
      BY <1>1, <2>1, <3>1 DEF NousInv
    <3>2. CASE Ours!FreshEtat(TRUE)
      BY <1>1, <2>1, <3>2, FreshTrue
    <3> QED BY <2>1, <3>1, <3>2
  <2>5. FilsInv'
    BY <1>1, <2>1, FilsFrame
  <2> QED BY <2>1, <2>3, <2>4, <2>5, ServerFrame
<1>4. CASE \E m \in versServeur : OurServer(OurRecvAck(m))
  <2>1. PICK m \in versServeur : OurServer(OurRecvAck(m))
    BY <1>4
  <2>2. /\ UNCHANGED <<duo, existe, taille, pc, attendu, buffer, ecrit, dernier_ack, fils, enreg>>
        /\ versServeur' = versServeur /\ versClient' = versClient /\ m.type # "GET"
        /\ \/ UNCHANGED <<session, base, lus, memoire, fini, fin_envoye>>
           \/ /\ base' \in {base, m.seqnum} /\ UNCHANGED <<session, lus, fini, fin_envoye>>
              /\ memoire' = Ours!Without(memoire, Ours!Acquitted(m))
    BY <2>1 DEF OurServer, OurRecvAck, Ours!SrvRecvAck, pairs, Ours!fichier,
                Ours!etat, Ours!client, Ours!reception
  <2>3. m.seqnum \in Seqnums
    BY <1>1, <2>2 DEF NetInv, Acks, OurAcks, PeerAcks, Ours!GET
  <2>4. NousInv'
    <3>1. CASE UNCHANGED <<session, base, lus, memoire, fini, fin_envoye>>
      BY <1>1, <2>2, <3>1 DEF NousInv
    <3>2. CASE /\ base' \in {base, m.seqnum} /\ UNCHANGED <<session, lus, fini, fin_envoye>>
               /\ memoire' = Ours!Without(memoire, Ours!Acquitted(m))
      <4>1. DOMAIN memoire' \subseteq DOMAIN memoire /\ \A s \in DOMAIN memoire' : memoire'[s] = memoire[s]
        BY <3>2 DEF Ours!Without
      <4> QED BY <1>1, <2>2, <2>3, <3>2, <4>1 DEF NousInv
    <3> QED BY <2>2, <3>1, <3>2
  <2>5. FilsInv'
    BY <1>1, <2>2, FilsFrame
  <2> QED BY <2>2, <2>4, <2>5, ServerFrame
<1> QED BY <1>2, <1>3, <1>4

-----------------------------------------------------------------------------
(* The servers of the other groups.                                         *)

(* Whatever the client, the window of an acknowledgement is not 0.          *)
LEMMA WindowOpen ==
  ASSUME NEW m \in Acks
  PROVE  Window(m) \in Nat \ {0}
<1>1. CASE m \in OurAcks
  BY <1>1, InteropAssumption DEF Window, OurAcks
<1>2. CASE m \in PeerAcks
  BY <1>2 DEF Window, PeerAcks
<1> QED BY <1>1, <1>2 DEF Acks

(* A packet for a server that is not a request is an acknowledgement.       *)
LEMMA IsAnAck ==
  ASSUME NetInv, NEW m \in versServeur, m.type # "GET"
  PROVE  m \in Acks /\ AckTrue(m) /\ Serve!IsAck(m)
<1>1. m # Ours!GET
  BY DEF Ours!GET
<1>2. m \in Acks
  BY <1>1 DEF NetInv
<1> QED BY <1>1, <1>2 DEF NetInv, Serve!IsAck, Acks, OurAcks, PeerAcks

(* A handler that does not exist yet.                                       *)
LEMMA LibreTrue ==
  /\ Serve!Libre \in Handlers /\ QueueTrue(Serve!Libre.file)
  /\ FichierInv /\ EcritInv => /\ Handler61(Serve!Libre) /\ Handler42(Serve!Libre)
                               /\ Handler20(Serve!Libre)
<1>1. /\ Serve!Libre.file = <<>> /\ Serve!Libre.reste = {} /\ Serve!Libre.select = {}
      /\ Serve!Libre.base = 0 /\ Serve!Libre.lus = 0 /\ Serve!Libre.tour = 0
      /\ Serve!Libre.etat = "libre" /\ ~Serve!Libre.eof /\ ~Serve!Libre.boucle
  BY DEF Serve!Libre
<1>2. <<>> \in Seq(Arrivals)
  BY EmptySeq
<1>3. \A b, c \in BOOLEAN :
        [etat |-> "libre", base |-> 0, lus |-> 0, eof |-> b, reste |-> {}, fenetre |-> 0,
         file |-> <<>>, select |-> {}, recus |-> 0, silences |-> 0, boucle |-> c, tour |-> 0]
           \in Handlers
  BY <1>2 DEF Handlers, Etats
<1>4. Serve!Libre \in Handlers
  BY <1>3, Zenon DEF Serve!Libre
<1>5. QueueTrue(Serve!Libre.file)
  BY <1>1 DEF QueueTrue
<1>6. FichierInv /\ EcritInv => /\ Handler61(Serve!Libre) /\ Handler42(Serve!Libre)
                               /\ Handler20(Serve!Libre)
  BY <1>1, EmptySeq, LenProperties DEF Handler61, Handler42, Handler20, FichierInv, EcritInv
<1> QED BY <1>4, <1>5, <1>6

(* The frame of a step of another group's server.                           *)
LEMMA PeerServerFrame ==
  ASSUME Integrity, UNCHANGED <<duo, serveur, client>>, Serve!Repos, FilsInv',
         \A m \in versClient' : m \in versClient \/ PacketTrue(m)
  PROVE  Integrity'
<1>1. /\ UNCHANGED <<duo, existe, taille, pc, attendu, buffer, ecrit, dernier_ack>>
      /\ UNCHANGED <<session, base, lus, memoire, fini, fin_envoye>> /\ versServeur' = versServeur
  BY DEF serveur, client, Serve!Repos
<1>2. NousInv'
  BY <1>1 DEF Integrity, NousInv
<1> QED BY <1>1, <1>2, ServerFrame

(* What a handler of group 61 becomes.                                      *)
LEMMA Update61 ==
  ASSUME NEW f \in Handlers, NEW R \in SUBSET Nat, NEW w \in Int, NEW n \in Nat
  PROVE  /\ [f EXCEPT !.etat = "session", !.reste = R, !.fenetre = w] \in Handlers
         /\ [f EXCEPT !.reste = R, !.base = n, !.fenetre = w] \in Handlers
<1>1. [f EXCEPT !.etat = "session", !.reste = R, !.fenetre = w] \in Handlers
  BY DEF Handlers, Etats
<1>2. [f EXCEPT !.reste = R, !.base = n, !.fenetre = w] \in Handlers
  BY DEF Handlers
<1> QED BY <1>1, <1>2

(* Group 61's server: a request, an acknowledgement, the timers.            *)
LEMMA Server61Integrity ==
  ASSUME Integrity,
         \/ Server61Timeout \/ PeerServer(61, Serve!Nouveau61(Request))
         \/ \E m \in versServeur : PeerServer(61, Serve!RecvAck61(m, Window(m)))
  PROVE  Integrity'
<1> USE InteropAssumption
<1>1. /\ FichierInv /\ EcritInv /\ NetInv /\ FilsInv /\ duo[1] = 61
      /\ UNCHANGED <<duo, serveur, client>> /\ Serve!Repos /\ UNCHANGED enreg
  BY DEF Integrity, Server61Timeout, PeerServer, Serve!Nouveau61, Serve!RecvAck61, Serve!Timeout61
<1>2. /\ UNCHANGED <<duo, existe, taille, ecrit, buffer>> /\ enreg' \in 0..MaxFils
      /\ 1 \in 1..MaxFils /\ fils[1] \in Handlers /\ Handler61(fils[1])
      /\ QueueTrue(fils[1].file)
  BY <1>1 DEF client, serveur, Serve!Repos, FilsInv
<1>3. ASSUME NEW R, R \subseteq 0..taille, NEW w, Serve!SendPayloads61(R, w)
      PROVE  \A m \in versClient' : m \in versClient \/ PacketTrue(m)
  <2>1. \A i \in R : PacketTrue(Serve!Paquet(i))
    BY <1>1, <1>3, PaquetTrue
  <2> QED BY <1>3, <2>1 DEF Serve!SendPayloads61, Serve!Envoie
<1>4. CASE Server61Timeout
  <2>1. FilsInv'
    BY <1>1, <1>2, <1>4, FilsFrame DEF Server61Timeout, PeerServer, Serve!Timeout61
  <2>2. \A m \in versClient' : m \in versClient \/ PacketTrue(m)
    BY <1>2, <1>3, <1>4 DEF Server61Timeout, PeerServer, Serve!Timeout61, Handler61
  <2> QED BY <1>1, <2>1, <2>2, PeerServerFrame
<1>5. CASE PeerServer(61, Serve!Nouveau61(Request))
  <2> DEFINE f == [Serve!Libre EXCEPT !.etat = "session", !.reste = 0..taille, !.fenetre = Request]
  <2>1. fils' = [fils EXCEPT ![1] = f]
    BY <1>5 DEF PeerServer, Serve!Nouveau61
  <2>2. Request \in Int /\ 0..taille \in SUBSET Nat
    BY <1>1 DEF Request, FichierInv
  <2>3. f \in Handlers /\ f.file = Serve!Libre.file /\ f.reste = 0..taille
    <3>1. f \in Handlers
      BY <2>2, LibreTrue, Update61
    <3> QED BY <3>1, LibreTrue DEF Handlers
  <2> HIDE DEF f
  <2>4. FilsInv'
    <3>1. QueueTrue(f.file) /\ Handler61(f) /\ duo[1] # 42 /\ duo[1] # 20
      BY <1>1, <2>3, LibreTrue DEF Handler61
    <3> QED BY <1>1, <1>2, <2>1, <2>3, <3>1, OneHandler
  <2>5. \A m \in versClient' : m \in versClient \/ PacketTrue(m)
    <3>1. PacketTrue(Serve!CONN)
      BY DEF PacketTrue, Ours!CONN, Serve!CONN
    <3>2. \A i \in 0..taille : PacketTrue(Serve!Paquet(i))
      BY <1>1, PaquetTrue
    <3> QED BY <1>5, <3>1, <3>2 DEF PeerServer, Serve!Nouveau61, Serve!Envoie
  <2> QED BY <1>1, <2>4, <2>5, PeerServerFrame
<1>6. ASSUME NEW m \in versServeur, PeerServer(61, Serve!RecvAck61(m, Window(m)))
      PROVE  Integrity'
  <2> DEFINE R == Serve!Remaining61(fils[1], m)
             f == [fils[1] EXCEPT !.reste = R, !.base = m.seqnum, !.fenetre = Window(m)]
  <2>1. m \in Acks
    <3>1. m.type # "GET"
      BY <1>6 DEF PeerServer, Serve!RecvAck61, Serve!IsAck
    <3> QED BY <1>1, <3>1, IsAnAck
  <2>2. m.seqnum \in Nat /\ Window(m) \in Int
    BY <2>1, WindowOpen DEF Acks, OurAcks, PeerAcks, Seqnums
  <2>3. R \subseteq fils[1].reste
    BY DEF Serve!Remaining61
  <2>4. CASE fils' = [fils EXCEPT ![1] = Serve!Libre] /\ UNCHANGED versClient
    <3>1. FilsInv'
      BY <1>1, <1>2, <2>4, LibreTrue, OneHandler
    <3> QED BY <1>1, <2>4, <3>1, PeerServerFrame
  <2>5. CASE /\ fils' = [fils EXCEPT ![1].reste = R, ![1].base = m.seqnum, ![1].fenetre = Window(m)]
             /\ Serve!SendPayloads61(R, Window(m))
    <3> HIDE DEF R
    <3>1. fils' = [fils EXCEPT ![1] = f]
      <4>1. fils \in [1..MaxFils -> Handlers] /\ 1 \in 1..MaxFils
        BY <1>1 DEF FilsInv
      <4> QED BY <2>5, <4>1
    <3>2. f \in Handlers /\ f.file = fils[1].file /\ f.reste = R
      <4>1. fils[1].reste \subseteq Nat
        BY <1>2 DEF Handlers
      <4>2. R \in SUBSET Nat
        BY <2>3, <4>1
      <4>3. f \in Handlers
        BY <1>2, <2>2, <4>2, Update61, Zenon
      <4> QED BY <1>2, <4>3 DEF Handlers
    <3> HIDE DEF f
    <3>3. QueueTrue(f.file) /\ Handler61(f) /\ duo[1] # 42 /\ duo[1] # 20
      BY <1>1, <1>2, <2>3, <3>2 DEF Handler61
    <3>4. FilsInv'
      BY <1>1, <1>2, <3>1, <3>2, <3>3, OneHandler
    <3>5. R \subseteq 0..taille
      BY <1>2, <2>3 DEF Handler61
    <3>6. \A p \in versClient' : p \in versClient \/ PacketTrue(p)
      BY <1>3, <2>5, <3>5
    <3> QED BY <1>1, <3>4, <3>6, PeerServerFrame
  <2> QED BY <1>6, <2>4, <2>5 DEF PeerServer, Serve!RecvAck61
<1> QED BY <1>4, <1>5, <1>6

(* The queue between a dispatching loop and its handler: a packet more, the *)
(* first one less, the last one less.                                       *)
LEMMA QueueAppend ==
  ASSUME NEW q \in Seq(Arrivals), QueueTrue(q), NEW a \in Arrivals,
         a.m # Serve!GET => AckTrue(a.m)
  PROVE  Append(q, a) \in Seq(Arrivals) /\ QueueTrue(Append(q, a))
<1>1. /\ Append(q, a) \in Seq(Arrivals) /\ Len(Append(q, a)) = Len(q) + 1
      /\ \A i \in 1..Len(q)+1 : Append(q, a)[i] = IF i <= Len(q) THEN q[i] ELSE a
      /\ Len(q) \in Nat
  BY AppendProperties, LenProperties
<1>2. \A i \in 1..Len(q)+1 : i \in 1..Len(q) \/ i = Len(q) + 1
  BY <1>1
<1>3. \A i \in 1..Len(q)+1 : Append(q, a)[i].m # Serve!GET => AckTrue(Append(q, a)[i].m)
  <2> SUFFICES ASSUME NEW i \in 1..Len(q)+1, NEW b, b = Append(q, a)[i], b.m # Serve!GET
               PROVE  AckTrue(b.m)
    OBVIOUS
  <2>1. CASE i \in 1..Len(q)
    <3>1. b = q[i]
      BY <1>1, <2>1
    <3> QED BY <2>1, <3>1 DEF QueueTrue
  <2>2. CASE i = Len(q) + 1
    <3>1. b = a
      BY <1>1, <2>2
    <3> QED BY <3>1
  <2> QED BY <1>2, <2>1, <2>2
<1> QED BY <1>1, <1>3 DEF QueueTrue

(* Group 42's handler reads the oldest packet of its queue.                 *)
LEMMA QueueTail ==
  ASSUME NEW q \in Seq(Arrivals), QueueTrue(q), q # <<>>
  PROVE  /\ Head(q) \in Arrivals /\ (Head(q).m # Serve!GET => AckTrue(Head(q).m))
         /\ Tail(q) \in Seq(Arrivals) /\ QueueTrue(Tail(q))
<1>1. /\ Tail(q) \in Seq(Arrivals) /\ Len(Tail(q)) = Len(q) - 1 /\ Head(q) = q[1]
      /\ \A i \in 1..Len(q)-1 : Tail(q)[i] = q[i + 1]
      /\ Len(q) \in Nat \ {0}
  BY HeadTailProperties, LenProperties, EmptySeq
<1>2. q[1] \in Arrivals /\ 1 \in 1..Len(q)
  BY <1>1, ElementOfSeq
<1>3. \A i \in 1..Len(q)-1 : i + 1 \in 1..Len(q)
  BY <1>1
<1>4. QueueTrue(Tail(q))
  <2> SUFFICES ASSUME NEW i \in 1..Len(q)-1, NEW b, b = Tail(q)[i], b.m # Serve!GET
               PROVE  AckTrue(b.m)
    BY <1>1 DEF QueueTrue
  <2>1. b = q[i + 1]
    BY <1>1
  <2> QED BY <1>3, <2>1 DEF QueueTrue
<1> QED BY <1>1, <1>2, <1>4 DEF QueueTrue

(* Group 20's handler reads the newest of its own.                          *)
LEMMA QueueFront ==
  ASSUME NEW q \in Seq(Arrivals), QueueTrue(q), q # <<>>, NEW n, n = Len(q)
  PROVE  /\ q[n] \in Arrivals /\ (q[n].m # Serve!GET => AckTrue(q[n].m))
         /\ SubSeq(q, 1, n - 1) \in Seq(Arrivals) /\ QueueTrue(SubSeq(q, 1, n - 1))
<1>1. n \in Nat \ {0}
  BY LenProperties, EmptySeq
<1>2. q[n] \in Arrivals /\ n \in 1..Len(q)
  BY <1>1, ElementOfSeq
<1>3. \A i \in 1..n-1 : q[i] \in Arrivals /\ i \in 1..Len(q)
  BY <1>1, ElementOfSeq
<1>4. /\ SubSeq(q, 1, n - 1) \in Seq(Arrivals) /\ Len(SubSeq(q, 1, n - 1)) = n - 1
      /\ \A i \in 1..n-1 : SubSeq(q, 1, n - 1)[i] = q[i]
  BY <1>1, <1>3, SubSeqProperties
<1>5. QueueTrue(SubSeq(q, 1, n - 1))
  <2> SUFFICES ASSUME NEW i \in 1..n-1, NEW b, b = SubSeq(q, 1, n - 1)[i], b.m # Serve!GET
               PROVE  AckTrue(b.m)
    BY <1>4 DEF QueueTrue
  <2>1. b = q[i]
    BY <1>4
  <2> QED BY <1>3, <2>1 DEF QueueTrue
<1> QED BY <1>2, <1>4, <1>5 DEF QueueTrue

(* What a dispatching loop puts on a queue.                                 *)
LEMMA Arrival ==
  ASSUME NEW m \in Acks
  PROVE  [m |-> m, window |-> Window(m)] \in AckArrivals
BY WindowOpen DEF AckArrivals

(* A queue of acknowledgements is a queue.                                  *)
LEMMA QueueOfAcks ==
  ASSUME NEW q \in Seq(AckArrivals)
  PROVE  q \in Seq(Arrivals) /\ \A i \in 1..Len(q) : q[i] \in AckArrivals
<1>1. Len(q) \in Nat /\ q \in [1..Len(q) -> AckArrivals]
  BY LenProperties
<1>2. q \in [1..Len(q) -> Arrivals]
  BY <1>1 DEF Arrivals
<1> QED BY <1>1, <1>2, SeqDef

(* What handlers become.                                                    *)
LEMMA SetEtat ==
  ASSUME NEW f \in Handlers, NEW e \in Etats
  PROVE  [f EXCEPT !.etat = e] \in Handlers
BY DEF Handlers

(* Another queue.                                                           *)
LEMMA SetFile ==
  ASSUME NEW f \in Handlers, NEW q \in Seq(Arrivals)
  PROVE  [f EXCEPT !.file = q] \in Handlers
BY DEF Handlers

(* Another window.                                                          *)
LEMMA SetFenetre ==
  ASSUME NEW f \in Handlers, NEW e \in Etats, NEW w \in Int
  PROVE  [f EXCEPT !.etat = e, !.fenetre = w] \in Handlers
BY DEF Handlers

(* More packets read from the file.                                         *)
LEMMA SetLus ==
  ASSUME NEW f \in Handlers, NEW n \in Nat, NEW R \in SUBSET Nat, NEW b \in BOOLEAN, NEW e \in Etats
  PROVE  [f EXCEPT !.lus = n, !.reste = R, !.eof = b, !.etat = e] \in Handlers
BY DEF Handlers

(* An acknowledgement taken into account by 42.                             *)
LEMMA SetBase ==
  ASSUME NEW f \in Handlers, NEW w \in Int, NEW n \in Nat, NEW R \in SUBSET Nat
  PROVE  [f EXCEPT !.fenetre = w, !.base = n, !.reste = R] \in Handlers
BY DEF Handlers

(* Group 42's handler takes an acknowledgement from its queue.              *)
LEMMA HandleAckTrue ==
  ASSUME NEW f \in Handlers, NEW p \in AckArrivals, NEW q \in Seq(AckArrivals), Handler42(f)
  PROVE  /\ [Serve!HandleAck42(f, p) EXCEPT !.file = q] \in Handlers
         /\ Handler42([Serve!HandleAck42(f, p) EXCEPT !.file = q])
         /\ [Serve!HandleAck42(f, p) EXCEPT !.file = q].file = q
<1> DEFINE h == Serve!HandleAck42(f, p)
           pas == (p.m.seqnum - f.base) % SeqMod
           b == IF Serve!TooOld42(pas) THEN f.base ELSE p.m.seqnum
           R == {i \in f.reste : Serve!TooOld42(pas) \/ (i - f.base) % SeqMod >= pas}
<1>1. h = [f EXCEPT !.fenetre = p.window, !.base = b, !.reste = R]
  BY DEF Serve!HandleAck42
<1>2. f.base \in Nat /\ f.reste \subseteq Nat
  BY DEF Handlers
<1>3. p.window \in Int /\ p.m.seqnum \in Nat
  BY DEF AckArrivals, Acks, OurAcks, PeerAcks, Seqnums
<1>4. b \in Nat /\ R \in SUBSET Nat /\ R \subseteq f.reste
  BY <1>2, <1>3
<1> HIDE DEF b, R, pas, h
<1>5. h \in Handlers
  BY <1>1, <1>3, <1>4, SetBase
<1>6. h.reste = R /\ h.lus = f.lus /\ h.eof = f.eof /\ h.file = f.file
  BY <1>1 DEF Handlers
<1>7. Handler42(h)
  BY <1>4, <1>6 DEF Handler42
<1> DEFINE g == [h EXCEPT !.file = q]
<1>8. g \in Handlers
  <2>1. q \in Seq(Arrivals)
    BY QueueOfAcks
  <2> QED BY <1>5, <2>1, SetFile
<1>9. g.file = q /\ g.reste = h.reste /\ g.lus = h.lus /\ g.eof = h.eof
  BY <1>5 DEF Handlers
<1>10. Handler42(g)
  BY <1>7, <1>9 DEF Handler42
<1> QED BY <1>8, <1>9, <1>10, Zenon DEF h

(* Group 42's dispatching loop: a request, an acknowledgement.              *)
LEMMA Dispatch42 ==
  ASSUME Integrity,
         \/ \E t \in 1..MaxFils : PeerServer(42, Serve!Nouveau42(t, Request))
         \/ \E m \in versServeur : m.type # "GET" /\ PeerServer(42, Serve!Depose42(m, Window(m)))
  PROVE  Integrity'
<1> USE InteropAssumption
<1>1. /\ FichierInv /\ EcritInv /\ NetInv /\ FilsInv /\ duo[1] = 42
      /\ UNCHANGED <<duo, serveur, client>> /\ Serve!Repos /\ UNCHANGED <<enreg, versClient>>
  BY DEF Integrity, PeerServer, Serve!Nouveau42, Serve!Depose42
<1>2. /\ UNCHANGED <<duo, existe, taille, ecrit, buffer>> /\ enreg' \in 0..MaxFils
      /\ duo[1] # 61 /\ duo[1] # 20
  BY <1>1 DEF client, serveur, Serve!Repos, FilsInv
<1>3. SUFFICES FilsInv'
  BY <1>1, PeerServerFrame
<1>4. ASSUME NEW t \in 1..MaxFils, PeerServer(42, Serve!Nouveau42(t, Request))
      PROVE  FilsInv'
  <2> DEFINE f == [Serve!Libre EXCEPT !.etat = "demarre", !.fenetre = Request]
  <2>1. fils' = [fils EXCEPT ![t] = f]
    BY <1>4 DEF PeerServer, Serve!Nouveau42
  <2>2. Request \in Int /\ "demarre" \in Etats
    BY <1>1 DEF Request, Etats
  <2>3. f \in Handlers
    BY <2>2, LibreTrue, SetFenetre
  <2>4. /\ f.file = Serve!Libre.file /\ f.reste = Serve!Libre.reste /\ f.lus = Serve!Libre.lus
        /\ f.eof = Serve!Libre.eof
    BY LibreTrue DEF Handlers
  <2> HIDE DEF f
  <2>5. QueueTrue(f.file) /\ Handler42(f)
    BY <1>1, <2>4, LibreTrue DEF Handler42
  <2> QED BY <1>1, <1>2, <2>1, <2>3, <2>5, OneHandler
<1>5. ASSUME NEW m \in versServeur, m.type # "GET", PeerServer(42, Serve!Depose42(m, Window(m)))
      PROVE  FilsInv'
  <2> DEFINE q == Append(fils[enreg].file, [m |-> m, window |-> Window(m)])
             f == [fils[enreg] EXCEPT !.file = q]
  <2>1. /\ fils' = [fils EXCEPT ![enreg].file = Append(@, [m |-> m, window |-> Window(m)])]
        /\ enreg # 0
    BY <1>5 DEF PeerServer, Serve!Depose42
  <2>2. enreg \in 1..MaxFils
    BY <1>1, <2>1 DEF FilsInv
  <2>3. fils[enreg] \in Handlers /\ QueueTrue(fils[enreg].file) /\ Handler42(fils[enreg])
    BY <1>1, <2>2 DEF FilsInv
  <2>4. fils[enreg].file \in Seq(Arrivals)
    BY <2>3 DEF Handlers
  <2>5. m \in Acks /\ AckTrue(m) /\ [m |-> m, window |-> Window(m)] \in Arrivals
    BY <1>1, <1>5, IsAnAck, Arrival DEF Arrivals
  <2>6. q \in Seq(Arrivals) /\ QueueTrue(q) /\ q \in Seq(AckArrivals)
    <3>1. fils[enreg].file \in Seq(AckArrivals)
      BY <2>3 DEF Handler42
    <3>2. q \in Seq(AckArrivals)
      BY <2>5, <3>1, Arrival, AppendProperties
    <3> QED BY <2>3, <2>4, <2>5, <3>2, QueueAppend
  <2>7. fils' = [fils EXCEPT ![enreg] = f]
    BY <1>1, <2>1, <2>2 DEF FilsInv
  <2> HIDE DEF q
  <2>8. f \in Handlers
    BY <2>3, <2>6, SetFile
  <2>9. /\ f.file = q /\ f.reste = fils[enreg].reste /\ f.lus = fils[enreg].lus
        /\ f.eof = fils[enreg].eof
    BY <2>3 DEF Handlers
  <2> HIDE DEF f
  <2>10. QueueTrue(f.file) /\ Handler42(f)
    BY <2>3, <2>6, <2>9 DEF Handler42
  <2> QED BY <1>1, <1>2, <2>2, <2>7, <2>8, <2>10, OneHandler
<1> QED BY <1>4, <1>5

(* A step of a handler of group 42.                                         *)
LEMMA Step42 ==
  ASSUME Integrity, NEW t \in 1..MaxFils, Server42Step(t)
  PROVE  Integrity'
<1> USE InteropAssumption
<1>1. /\ FichierInv /\ EcritInv /\ FilsInv /\ duo[1] = 42
      /\ UNCHANGED <<duo, serveur, client>> /\ Serve!Repos
  BY DEF Integrity, Server42Step, PeerServer, Serve!Enregistre42, Serve!Envoi42, Serve!Lit42,
         Serve!Attente42, Serve!Ferme42
<1>2. /\ UNCHANGED <<duo, existe, taille, ecrit, buffer>> /\ enreg \in 0..MaxFils
      /\ duo[1] # 61 /\ duo[1] # 20 /\ taille \in Nat
      /\ fils[t] \in Handlers /\ QueueTrue(fils[t].file) /\ Handler42(fils[t])
  BY <1>1 DEF client, serveur, Serve!Repos, FilsInv, FichierInv
<1>3. /\ fils[t].lus \in Nat /\ fils[t].reste \subseteq Nat /\ fils[t].eof \in BOOLEAN
      /\ fils[t].file \in Seq(Arrivals)
  BY <1>2 DEF Handlers
<1>4. \A i \in 0..taille : PacketTrue(Serve!Paquet(i))
  BY <1>1, PaquetTrue
<1>5. PacketTrue(Serve!FIN(taille))
  BY DEF PacketTrue, Serve!FIN, Ours!FIN
<1>6. ASSUME NEW e \in Etats, fils' = [fils EXCEPT ![t].etat = e], enreg' \in 0..MaxFils
      PROVE  FilsInv'
  <2> DEFINE f == [fils[t] EXCEPT !.etat = e]
  <2>1. fils' = [fils EXCEPT ![t] = f]
    BY <1>1, <1>6 DEF FilsInv
  <2>2. f \in Handlers
    BY <1>2, SetEtat
  <2>3. /\ f.file = fils[t].file /\ f.reste = fils[t].reste /\ f.lus = fils[t].lus
        /\ f.eof = fils[t].eof
    BY <1>2 DEF Handlers
  <2> HIDE DEF f
  <2>4. QueueTrue(f.file) /\ Handler42(f)
    BY <1>2, <2>3 DEF Handler42
  <2>5. UNCHANGED <<duo, taille, ecrit, buffer>> /\ FilsInv /\ duo[1] # 61 /\ duo[1] # 20
    BY <1>1, <1>2
  <2> QED BY <1>6, <2>1, <2>2, <2>4, <2>5, OneHandler
<1>7. "envoi" \in Etats /\ "fin" \in Etats /\ "fini" \in Etats /\ "attente" \in Etats
  BY DEF Etats
<1>8. CASE Serve!Enregistre42(t)
  <2>1. fils' = [fils EXCEPT ![t].etat = "envoi"] /\ enreg' \in 0..MaxFils /\ versClient' = versClient
    BY <1>8 DEF Serve!Enregistre42
  <2>2. FilsInv'
    BY <1>6, <1>7, <2>1
  <2> QED BY <1>1, <2>1, <2>2, PeerServerFrame
<1>9. ASSUME NEW k \in 0..taille-fils[t].lus, Serve!Envoi42(t, k) PROVE Integrity'
  <2> DEFINE R == fils[t].reste \cup (fils[t].lus..fils[t].lus+k-1)
             b == fils[t].eof \/ Serve!Open42(fils[t], k)
             e == IF Serve!Ends42(b, R) THEN "fin" ELSE "attente"
             n == fils[t].lus + k
             f == [fils[t] EXCEPT !.lus = n, !.reste = R, !.eof = b, !.etat = e]
  <2>1. CASE ~existe /\ Serve!Envoie({Serve!FIN(0)}) /\ fils' = [fils EXCEPT ![t].etat = "fin"] /\ enreg' = enreg
    <3>1. FilsInv'
      BY <1>2, <1>6, <1>7, <2>1
    <3>2. taille = 0
      BY <1>1, <2>1 DEF FichierInv
    <3>3. \A m \in versClient' : m \in versClient \/ PacketTrue(m)
      BY <1>5, <2>1, <3>2 DEF Serve!Envoie
    <3> QED BY <1>1, <3>1, <3>3, PeerServerFrame
  <2>2. CASE /\ Serve!Open42(fils[t], k) => n = taille
             /\ Serve!Envoie({Serve!Paquet(i) : i \in fils[t].lus..fils[t].lus+k-1}
                               \cup IF Serve!Ends42(b, R) THEN {Serve!FIN(taille)} ELSE {})
             /\ fils' = [fils EXCEPT ![t].lus = @ + k, ![t].reste = R, ![t].eof = b, ![t].etat = e]
             /\ enreg' = enreg
    <3>1. /\ n \in Nat /\ R \in SUBSET Nat /\ n <= taille /\ R \subseteq 0..n-1 /\ (b => n = taille)
      <4>1. fils[t].lus <= taille /\ fils[t].reste \subseteq 0..fils[t].lus-1
        BY <1>2 DEF Handler42
      <4>2. n \in Nat /\ n <= taille /\ 0..n-1 \subseteq Nat
        BY <1>2, <1>3, <4>1
      <4>3. R \subseteq 0..n-1
        BY <1>2, <1>3, <4>1
      <4>4. fils[t].eof => n = taille
        BY <1>2, <1>3 DEF Handler42
      <4> QED BY <2>2, <4>2, <4>3, <4>4
    <3>2. b \in BOOLEAN /\ e \in Etats
      <4>1. b \in BOOLEAN
        BY <1>3 DEF Serve!Open42
      <4> HIDE DEF b
      <4> QED BY <1>7, <4>1
    <3>3. fils' = [fils EXCEPT ![t] = f]
      <4> HIDE DEF R, b, e
      <4> QED BY <1>1, <2>2 DEF FilsInv
    <3>4. \A m \in versClient' : m \in versClient \/ PacketTrue(m)
      <4>1. \A i \in fils[t].lus..fils[t].lus+k-1 : i \in 0..taille
        BY <1>2, <1>3, <3>1
      <4> HIDE DEF R, b
      <4> QED BY <1>4, <1>5, <2>2, <4>1 DEF Serve!Envoie
    <3> HIDE DEF R, b, e, n
    <3>5. f \in Handlers
      BY <1>2, <3>1, <3>2, SetLus
    <3>6. f.file = fils[t].file /\ f.reste = R /\ f.lus = n /\ f.eof = b
      BY <1>2 DEF Handlers
    <3> HIDE DEF f
    <3>7. QueueTrue(f.file) /\ Handler42(f)
      BY <1>2, <3>1, <3>6 DEF Handler42
    <3>8. FilsInv'
      <4>1. UNCHANGED <<duo, taille, ecrit, buffer>> /\ FilsInv /\ duo[1] # 61 /\ duo[1] # 20
        BY <1>1, <1>2
      <4>2. enreg' \in 0..MaxFils
        BY <1>2, <2>2
      <4> QED BY <3>3, <3>5, <3>7, <4>1, <4>2, OneHandler
    <3> QED BY <1>1, <3>4, <3>8, PeerServerFrame
  <2> QED BY <1>9, <2>1, <2>2 DEF Serve!Envoi42
<1>10. CASE Serve!Lit42(t)
  <2> DEFINE p == Head(fils[t].file)
             q == Tail(fils[t].file)
             f == [Serve!HandleAck42(fils[t], p) EXCEPT !.file = q]
  <2>1. fils[t].file # <<>> /\ enreg' = enreg /\ versClient' = versClient
    BY <1>10 DEF Serve!Lit42
  <2>2. fils' = [fils EXCEPT ![t] = f]
    BY <1>10 DEF Serve!Lit42
  <2>3. QueueTrue(q)
    BY <1>2, <1>3, <2>1, QueueTail
  <2>4. p \in AckArrivals /\ q \in Seq(AckArrivals)
    BY <1>2, <2>1, HeadTailProperties DEF Handler42
  <2> HIDE DEF p, q
  <2>5. f \in Handlers /\ Handler42(f) /\ f.file = q
    <3>1. fils[t] \in Handlers /\ Handler42(fils[t])
      BY <1>2
    <3> QED BY <2>4, <3>1, HandleAckTrue, Zenon
  <2> HIDE DEF f
  <2>6. FilsInv'
    BY <1>1, <1>2, <2>1, <2>2, <2>3, <2>5, OneHandler
  <2> QED BY <1>1, <2>1, <2>6, PeerServerFrame
<1>11. ASSUME NEW E \in SUBSET fils[t].reste, Serve!Attente42(t, E) PROVE Integrity'
  <2>1. /\ fils' = [fils EXCEPT ![t].etat = "envoi"] /\ enreg' \in 0..MaxFils
        /\ versClient' = versClient \cup {Serve!Paquet(i) : i \in E}
    BY <1>2, <1>11 DEF Serve!Attente42, Serve!Envoie
  <2>2. FilsInv'
    BY <1>6, <1>7, <2>1
  <2>3. \A i \in E : i \in 0..taille
    BY <1>2, <1>3 DEF Handler42
  <2> QED BY <1>1, <1>4, <2>1, <2>2, <2>3, PeerServerFrame
<1>12. CASE Serve!Ferme42(t)
  <2> DEFINE f == [Serve!Libre EXCEPT !.etat = "fini"]
  <2>1. fils' = [fils EXCEPT ![t] = f] /\ enreg' \in 0..MaxFils /\ versClient' = versClient
    BY <1>12 DEF Serve!Ferme42
  <2>2. f \in Handlers
    BY <1>7, LibreTrue, SetEtat
  <2>3. /\ f.file = Serve!Libre.file /\ f.reste = Serve!Libre.reste /\ f.lus = Serve!Libre.lus
        /\ f.eof = Serve!Libre.eof
    BY LibreTrue DEF Handlers
  <2> HIDE DEF f
  <2>4. QueueTrue(f.file) /\ Handler42(f)
    BY <1>1, <2>3, LibreTrue DEF Handler42
  <2>5. FilsInv'
    BY <1>1, <1>2, <2>1, <2>2, <2>4, OneHandler
  <2> QED BY <1>1, <2>1, <2>5, PeerServerFrame
<1> QED BY <1>8, <1>9, <1>10, <1>11, <1>12 DEF Server42Step, PeerServer

(* Group 20's handler: packets sent.                                        *)
LEMMA SetSelect ==
  ASSUME NEW f \in Handlers, NEW e \in Etats, NEW S \in SUBSET Seqnums, NEW n \in Nat
  PROVE  [f EXCEPT !.etat = e, !.select = S, !.recus = n] \in Handlers
BY DEF Handlers

(* A silence counted.                                                       *)
LEMMA SetSilences ==
  ASSUME NEW f \in Handlers, NEW n \in Nat, NEW e \in Etats
  PROVE  [f EXCEPT !.silences = n, !.etat = e] \in Handlers
BY DEF Handlers

(* A packet taken from the queue.                                           *)
LEMMA SetRecus ==
  ASSUME NEW f \in Handlers, NEW q \in Seq(Arrivals), NEW n \in Nat
  PROVE  [f EXCEPT !.file = q, !.recus = n] \in Handlers
BY DEF Handlers

(* The queue emptied.                                                       *)
LEMMA SetVide ==
  ASSUME NEW f \in Handlers, NEW q \in Seq(Arrivals), NEW e \in Etats
  PROVE  [f EXCEPT !.file = q, !.etat = e] \in Handlers
BY DEF Handlers

(* An acknowledgement taken into account by 20.                             *)
LEMMA SetAvis ==
  ASSUME NEW f \in Handlers, NEW w \in Int, NEW n \in Nat, NEW S \in SUBSET Seqnums
  PROVE  [f EXCEPT !.fenetre = w, !.silences = n, !.select = S] \in Handlers
BY DEF Handlers

(* The number it advances to.                                               *)
LEMMA SetTour ==
  ASSUME NEW f \in Handlers, NEW b \in BOOLEAN, NEW n \in Nat, NEW m \in Nat
  PROVE  [f EXCEPT !.boucle = b, !.tour = n, !.base = m] \in Handlers
BY DEF Handlers

(* Group 20's handler reads a packet.  Its window of MaxAvance numbers tells*)
(* an old acknowledgement from a new one only while the two do not meet     *)
(* behind base: then base never retreats and no wrap is ever counted.       *)
LEMMA Lit20True ==
  ASSUME FichierInv, EcritInv, duo[1] = 20, MaxMorceaux + MaxAvance < SeqMod,
         NEW f \in Handlers, Handler20(f), NEW p \in Arrivals,
         p.m # Serve!GET => AckTrue(p.m), NEW r, r = Serve!Lit20(f, p)
  PROVE  r \in Handlers /\ Handler20(r) /\ r.file = f.file /\ r.recus = f.recus /\ r.etat = f.etat
<1> USE InteropAssumption
<1>1. CASE r = f
  BY <1>1
<1>2. CASE Serve!IsAck(p.m) /\ ~((p.m.seqnum - f.base) % SeqMod > MaxAvance)
  <2> DEFINE n == p.m.seqnum
             g == [f EXCEPT !.fenetre = p.window, !.silences = 0, !.select = Serve!Select20(p.m)]
  <2>1. p.m # Serve!GET
    BY <1>2 DEF Serve!IsAck, Serve!GET
  <2>2. p \in AckArrivals
    BY <2>1 DEF Arrivals
  <2>3. p.m \in Acks /\ p.window \in Nat \ {0}
    BY <2>2 DEF AckArrivals
  <2>4. n \in Seqnums /\ Serve!Select20(p.m) \in SUBSET Seqnums
    BY <2>3 DEF Acks, OurAcks, PeerAcks, Serve!Select20, Seqnums
  <2>5. duo[2] # 61
    BY DEF FichierInv, Couples, Groupes
  <2>6. n <= Len(ecrit) /\ \A s \in Serve!Select20(p.m) : Held(s)
    BY <2>1, <2>5 DEF AckTrue
  <2>7. /\ f.base \in Nat /\ f.base <= Len(ecrit) /\ Len(ecrit) <= taille /\ taille \in Nat
        /\ taille <= MaxMorceaux /\ Len(ecrit) \in Nat /\ f.tour = 0
        /\ (f.boucle => f.base > LoopHigh) /\ f.boucle \in BOOLEAN
    BY LenProperties DEF Handler20, Handlers, EcritInv, FichierInv
  <2>8. n >= f.base
    <3>1. f.base \in Seqnums
      BY <2>7 DEF Seqnums
    <3>2. (n - f.base) % SeqMod = IF n >= f.base THEN n - f.base ELSE n - f.base + SeqMod
      BY <2>4, <3>1, Distance
    <3> SUFFICES ASSUME n < f.base PROVE FALSE
      BY <2>4, <2>7 DEF Seqnums
    <3>3. n \in Nat /\ f.base + MaxAvance < SeqMod
      BY <2>4, <2>7 DEF Seqnums
    <3>4. n - f.base + SeqMod <= MaxAvance
      BY <1>2, <2>7, <3>2, <3>3
    <3>5. f.base \in Nat /\ SeqMod \in Nat /\ MaxAvance \in Nat
      BY <2>7
    <3> QED BY <3>3, <3>4, <3>5
  <2>9. g \in Handlers
    <3>1. p.window \in Int /\ 0 \in Nat
      BY <2>3
    <3> QED BY <2>4, <3>1, SetAvis
  <2>10. /\ g.file = f.file /\ g.recus = f.recus /\ g.etat = f.etat /\ g.tour = f.tour
         /\ g.base = f.base /\ g.boucle = f.boucle /\ g.fenetre = p.window
         /\ g.select = Serve!Select20(p.m)
    BY DEF Handlers
  <2> HIDE DEF g
  <2>11. Handler20(g)
    BY <2>3, <2>6, <2>7, <2>10 DEF Handler20
  <2>12. CASE r = g
    BY <2>9, <2>10, <2>11, <2>12
  <2>13. CASE r = Serve!Avance20(g, n)
    <3> DEFINE b == g.boucle \/ n > LoopHigh
               h == [g EXCEPT !.boucle = b, !.tour = 0, !.base = n]
    <3>1. ~(b /\ n < LoopLow)
      BY <2>4, <2>7, <2>8, <2>10 DEF Seqnums
    <3>2. Serve!Avance20(g, n) = [g EXCEPT !.boucle = b /\ ~(b /\ n < LoopLow),
                                   !.tour = g.tour + IF b /\ n < LoopLow THEN 1 ELSE 0,
                                   !.base = ((g.tour + IF b /\ n < LoopLow THEN 1 ELSE 0) * SeqMod) + n]
      BY DEF Serve!Avance20
    <3>3. (b /\ ~(b /\ n < LoopLow)) = b
      BY <3>1
    <3>4. /\ g.tour + (IF b /\ n < LoopLow THEN 1 ELSE 0) = 0
          /\ ((g.tour + IF b /\ n < LoopLow THEN 1 ELSE 0) * SeqMod) + n = n
      <4>1. g.tour = 0 /\ n \in Nat /\ SeqMod \in Nat
        BY <2>4, <2>7, <2>10 DEF Seqnums
      <4>2. (IF b /\ n < LoopLow THEN 1 ELSE 0) = 0
        BY <3>1
      <4> QED BY <4>1, <4>2
    <3>5. b \in BOOLEAN /\ (b => n > LoopHigh)
      BY <2>4, <2>7, <2>8, <2>10 DEF Seqnums
    <3> HIDE DEF b
    <3>6. Serve!Avance20(g, n) = h
      BY <3>2, <3>3, <3>4
    <3>7. n \in Nat
      BY <2>4 DEF Seqnums
    <3> HIDE DEF n
    <3>8. h \in Handlers
      BY <2>9, <3>5, <3>7, SetTour
    <3>9. /\ h.file = f.file /\ h.recus = f.recus /\ h.etat = f.etat /\ h.tour = 0
          /\ h.base = n /\ h.boucle = b /\ h.fenetre = p.window
          /\ h.select = Serve!Select20(p.m)
      BY <2>9, <2>10 DEF Handlers
    <3> HIDE DEF h
    <3>10. Handler20(h)
      BY <2>3, <2>6, <3>5, <3>9 DEF Handler20
    <3>11. r = h
      BY <2>13, <3>6
    <3> QED BY <3>8, <3>9, <3>10, <3>11
  <2> QED BY <1>2, <2>12, <2>13 DEF Serve!Lit20, g
<1>3. r = f \/ (Serve!IsAck(p.m) /\ ~((p.m.seqnum - f.base) % SeqMod > MaxAvance))
  BY DEF Serve!Lit20
<1> QED BY <1>1, <1>2, <1>3

(* Without a packet to send, group 20's handler ends: the client has all of *)
(* the file, or the packet the end packet takes the number of.              *)
LEMMA FinTrue20 ==
  ASSUME FichierInv, EcritInv, duo[1] = 20, NEW f \in Handlers, Handler20(f),
         f.fenetre > 0, Serve!Blocs20(f) = {}
  PROVE  PacketTrue(Serve!FIN(f.base))
<1> USE InteropAssumption
<1> DEFINE libres == {i \in f.base..taille-1 : i % SeqMod \notin f.select}
<1>1. /\ f.base \in Nat /\ f.base <= Len(ecrit) /\ Len(ecrit) <= taille /\ taille \in Nat
      /\ taille <= MaxMorceaux /\ Len(ecrit) \in Nat /\ f.fenetre \in Int
  BY LenProperties DEF Handler20, Handlers, EcritInv, FichierInv
<1>2. CASE f.base = taille
  BY <1>2 DEF PacketTrue, Serve!FIN, Ours!FIN
<1>3. CASE f.base < taille
  <2>1. f.base \in Seqnums
    BY <1>1 DEF Seqnums
  <2>2. f.base % SeqMod = f.base
    BY <2>1, Numbers
  <2>3. f.base \in f.select
    <3> SUFFICES ASSUME f.base \notin f.select PROVE FALSE
      OBVIOUS
    <3>1. f.base \in libres
      BY <1>1, <1>3, <2>2
    <3>2. {j \in libres : j < f.base} = {}
      BY <1>1
    <3>3. Serve!Cardinality({}) = 0
      <4>1. Serve!Cardinality({}) = Cardinality({})
        BY DEF Serve!Cardinality, Cardinality
      <4> QED BY <4>1, FS_EmptySet
    <3>4. Serve!Cardinality({j \in libres : j < f.base}) < f.fenetre
      BY <3>2, <3>3
    <3>5. f.base \in Serve!Blocs20(f)
      BY <3>1, <3>4 DEF Serve!Blocs20
    <3> QED BY <3>5
  <2>4. Held(f.base)
    BY <2>3 DEF Handler20
  <2>5. f.base \in 0..taille-1 /\ Serve!FIN(f.base) = Ours!FIN(f.base)
    BY <1>1, <1>3 DEF Serve!FIN, Ours!FIN
  <2> QED BY <2>4, <2>5 DEF PacketTrue
<1> QED BY <1>1, <1>2, <1>3

(* Group 20's dispatching loop.                                             *)
LEMMA Dispatch20 ==
  ASSUME Integrity,
         \/ PeerServer(20, Serve!Nouveau20 \/ Serve!Depose20(Serve!GET, 0))
         \/ \E m \in versServeur : m.type # "GET" /\ PeerServer(20, Serve!Depose20(m, Window(m)))
  PROVE  Integrity'
<1> USE InteropAssumption
<1>1. /\ FichierInv /\ EcritInv /\ NetInv /\ FilsInv /\ duo[1] = 20
      /\ UNCHANGED <<duo, serveur, client>> /\ Serve!Repos /\ UNCHANGED <<enreg, versClient>>
  BY DEF Integrity, PeerServer, Serve!Nouveau20, Serve!Depose20
<1>2. /\ UNCHANGED <<duo, existe, taille, ecrit, buffer>> /\ enreg' \in 0..MaxFils
      /\ duo[1] # 61 /\ duo[1] # 42 /\ 1 \in 1..MaxFils
      /\ fils[1] \in Handlers /\ QueueTrue(fils[1].file) /\ Handler20(fils[1])
  BY <1>1 DEF client, serveur, Serve!Repos, FilsInv
<1>3. SUFFICES FilsInv'
  BY <1>1, PeerServerFrame
<1>4. CASE PeerServer(20, Serve!Nouveau20)
  <2> DEFINE f == [fils[1] EXCEPT !.etat = "debut"]
  <2>1. fils' = [fils EXCEPT ![1] = f]
    BY <1>1, <1>4 DEF PeerServer, Serve!Nouveau20, FilsInv
  <2>2. f \in Handlers
    BY <1>2, SetEtat DEF Etats
  <2>3. /\ f.file = fils[1].file /\ f.tour = fils[1].tour /\ f.base = fils[1].base
        /\ f.boucle = fils[1].boucle /\ f.select = fils[1].select /\ f.etat = "debut"
    BY <1>2 DEF Handlers
  <2> HIDE DEF f
  <2>4. QueueTrue(f.file) /\ Handler20(f)
    BY <1>2, <2>3 DEF Handler20
  <2> QED BY <1>1, <1>2, <2>1, <2>2, <2>4, OneHandler
<1>5. ASSUME NEW m, NEW w, [m |-> m, window |-> w] \in Arrivals,
             m # Serve!GET => AckTrue(m), PeerServer(20, Serve!Depose20(m, w))
      PROVE  FilsInv'
  <2> DEFINE q == Append(fils[1].file, [m |-> m, window |-> w])
             f == [fils[1] EXCEPT !.file = q]
  <2>1. fils' = [fils EXCEPT ![1].file = Append(@, [m |-> m, window |-> w])]
    BY <1>5 DEF PeerServer, Serve!Depose20
  <2>2. fils[1].file \in Seq(Arrivals)
    BY <1>2 DEF Handlers
  <2>3. q \in Seq(Arrivals) /\ QueueTrue(q)
    BY <1>2, <1>5, <2>2, QueueAppend
  <2>4. fils' = [fils EXCEPT ![1] = f]
    BY <1>1, <2>1 DEF FilsInv
  <2> HIDE DEF q
  <2>5. f \in Handlers
    BY <1>2, <2>3, SetFile
  <2>6. /\ f.file = q /\ f.tour = fils[1].tour /\ f.base = fils[1].base
        /\ f.boucle = fils[1].boucle /\ f.select = fils[1].select /\ f.etat = fils[1].etat
        /\ f.fenetre = fils[1].fenetre
    BY <1>2 DEF Handlers
  <2> HIDE DEF f
  <2>7. QueueTrue(f.file) /\ Handler20(f)
    BY <1>2, <2>3, <2>6 DEF Handler20
  <2> QED BY <1>1, <1>2, <2>4, <2>5, <2>7, OneHandler
<1>6. CASE PeerServer(20, Serve!Depose20(Serve!GET, 0))
  <2>1. [m |-> Serve!GET, window |-> 0] \in Arrivals
    BY DEF Arrivals
  <2> QED BY <1>5, <1>6, <2>1
<1>7. ASSUME NEW m \in versServeur, m.type # "GET", PeerServer(20, Serve!Depose20(m, Window(m)))
      PROVE  FilsInv'
  <2>1. m \in Acks /\ AckTrue(m) /\ [m |-> m, window |-> Window(m)] \in Arrivals
    BY <1>1, <1>7, IsAnAck, Arrival DEF Arrivals
  <2> QED BY <1>5, <1>7, <2>1
<1> QED BY <1>4, <1>6, <1>7 DEF PeerServer

(* A step of group 20's handler.                                            *)
LEMMA Step20 ==
  ASSUME Integrity, Server20Step, MaxMorceaux + MaxAvance < SeqMod
  PROVE  Integrity'
<1> USE InteropAssumption
<1>1. /\ FichierInv /\ EcritInv /\ FilsInv /\ duo[1] = 20
      /\ UNCHANGED <<duo, serveur, client>> /\ Serve!Repos /\ UNCHANGED enreg
  BY DEF Integrity, Server20Step, PeerServer, Serve!Debut20, Serve!Envoi20, Serve!Attente20
<1>2. /\ UNCHANGED <<duo, existe, taille, ecrit, buffer>> /\ enreg' \in 0..MaxFils
      /\ duo[1] # 61 /\ duo[1] # 42 /\ 1 \in 1..MaxFils
      /\ fils[1] \in Handlers /\ QueueTrue(fils[1].file) /\ Handler20(fils[1])
  BY <1>1 DEF client, serveur, Serve!Repos, FilsInv
<1>3. /\ fils[1].file \in Seq(Arrivals) /\ fils[1].base \in Nat /\ fils[1].silences \in Nat
      /\ fils[1].recus \in Nat
  BY <1>2 DEF Handlers
<1>4. ASSUME NEW f \in Handlers, fils' = [fils EXCEPT ![1] = f], QueueTrue(f.file), Handler20(f),
             \A m \in versClient' : m \in versClient \/ PacketTrue(m)
      PROVE  Integrity'
  <2>1. FilsInv'
    BY <1>1, <1>2, <1>4, OneHandler
  <2> QED BY <1>1, <1>4, <2>1, PeerServerFrame
<1>5. ASSUME NEW e \in Etats, e \notin {"envoi", "attente"}
      PROVE  /\ [Serve!Libre EXCEPT !.etat = e] \in Handlers
             /\ QueueTrue([Serve!Libre EXCEPT !.etat = e].file)
             /\ Handler20([Serve!Libre EXCEPT !.etat = e])
  <2> DEFINE f == [Serve!Libre EXCEPT !.etat = e]
  <2>1. f \in Handlers
    BY LibreTrue, SetEtat
  <2>2. /\ f.file = Serve!Libre.file /\ f.tour = Serve!Libre.tour /\ f.base = Serve!Libre.base
        /\ f.boucle = Serve!Libre.boucle /\ f.select = Serve!Libre.select /\ f.etat = e
    BY LibreTrue DEF Handlers
  <2> HIDE DEF f
  <2>3. QueueTrue(f.file) /\ Handler20(f)
    BY <1>1, <1>5, <2>2, LibreTrue DEF Handler20
  <2> QED BY <2>1, <2>3, Zenon DEF f
<1>6. "envoi" \in Etats /\ "attente" \in Etats /\ "fini" \in Etats /\ "muet" \in Etats
  BY DEF Etats
<1>7. CASE Serve!Debut20
  <2> DEFINE e == IF existe THEN "envoi" ELSE "fini"
             f == [fils[1] EXCEPT !.etat = e, !.fenetre = 1]
  <2>1. /\ fils' = [fils EXCEPT ![1].etat = e, ![1].fenetre = 1]
        /\ versClient' = versClient \cup {IF existe THEN Serve!CONN ELSE Serve!FIN(0)}
    BY <1>7 DEF Serve!Debut20, Serve!Envoie
  <2>2. e \in Etats
    BY <1>6
  <2>3. \A m \in versClient' : m \in versClient \/ PacketTrue(m)
    <3>1. PacketTrue(Serve!CONN) /\ (~existe => PacketTrue(Serve!FIN(0)))
      BY <1>1 DEF PacketTrue, Serve!CONN, Ours!CONN, Serve!FIN, Ours!FIN, FichierInv
    <3> QED BY <2>1, <3>1
  <2> HIDE DEF e
  <2>4. fils' = [fils EXCEPT ![1] = f]
    BY <1>1, <2>1 DEF FilsInv
  <2>5. f \in Handlers
    <3>1. 1 \in Int
      OBVIOUS
    <3> QED BY <1>2, <2>2, <3>1, SetFenetre, Zenon
  <2>6. /\ f.file = fils[1].file /\ f.tour = fils[1].tour /\ f.base = fils[1].base
        /\ f.boucle = fils[1].boucle /\ f.select = fils[1].select /\ f.fenetre = 1
    BY <1>2 DEF Handlers
  <2> HIDE DEF f
  <2>7. QueueTrue(f.file) /\ Handler20(f)
    BY <1>2, <2>6 DEF Handler20
  <2> QED BY <1>4, <2>3, <2>4, <2>5, <2>7
<1>8. CASE Serve!Envoi20
  <2>1. fils[1].fenetre > 0
    BY <1>2, <1>8 DEF Serve!Envoi20, Handler20
  <2>2. CASE /\ Serve!Blocs20(fils[1]) = {} /\ versClient' = versClient \cup {Serve!FIN(fils[1].base)}
             /\ fils' = [fils EXCEPT ![1] = [Serve!Libre EXCEPT !.etat = "fini"]]
    <3>1. PacketTrue(Serve!FIN(fils[1].base))
      BY <1>1, <1>2, <2>1, <2>2, FinTrue20
    <3>2. \A m \in versClient' : m \in versClient \/ PacketTrue(m)
      BY <2>2, <3>1
    <3> QED BY <1>4, <1>5, <1>6, <2>2, <3>2
  <2>3. CASE /\ versClient' = versClient \cup {Serve!Paquet(i) : i \in Serve!Blocs20(fils[1])}
             /\ fils' = [fils EXCEPT ![1].etat = "attente", ![1].select = {}, ![1].recus = 0]
    <3> DEFINE f == [fils[1] EXCEPT !.etat = "attente", !.select = {}, !.recus = 0]
    <3>1. fils' = [fils EXCEPT ![1] = f]
      BY <1>1, <2>3 DEF FilsInv
    <3>2. f \in Handlers
      BY <1>2, <1>6, SetSelect
    <3>3. /\ f.file = fils[1].file /\ f.tour = fils[1].tour /\ f.base = fils[1].base
          /\ f.boucle = fils[1].boucle /\ f.select = {} /\ f.fenetre = fils[1].fenetre
      BY <1>2 DEF Handlers
    <3> HIDE DEF f
    <3>4. QueueTrue(f.file) /\ Handler20(f)
      BY <1>2, <2>1, <3>3 DEF Handler20
    <3>5. \A i \in Serve!Blocs20(fils[1]) : i \in 0..taille
      BY <1>1, <1>3 DEF Serve!Blocs20, FichierInv
    <3>6. \A m \in versClient' : m \in versClient \/ PacketTrue(m)
      BY <1>1, <2>3, <3>5, PaquetTrue
    <3> QED BY <1>4, <3>1, <3>2, <3>4, <3>6
  <2> QED BY <1>8, <2>2, <2>3 DEF Serve!Envoi20, Serve!Envoie
<1>9. CASE Serve!Attente20
  <2> DEFINE n == Len(fils[1].file)
             q == SubSeq(fils[1].file, 1, n - 1)
             f1 == [fils[1] EXCEPT !.file = q, !.recus = fils[1].recus + 1]
             p == fils[1].file[n]
             g == Serve!Lit20(f1, p)
             s1 == fils[1].silences + 1
  <2>1. fils[1].fenetre > 0 /\ versClient' = versClient
    BY <1>2, <1>9 DEF Serve!Attente20, Handler20
  <2>2. CASE fils' = [fils EXCEPT ![1] = [Serve!Libre EXCEPT !.etat = "muet"]]
    BY <1>4, <1>5, <1>6, <2>1, <2>2
  <2>3. CASE fils' = [fils EXCEPT ![1] = [fils[1] EXCEPT !.silences = s1, !.etat = "envoi"]]
    <3> DEFINE f == [fils[1] EXCEPT !.silences = s1, !.etat = "envoi"]
    <3>1. s1 \in Nat
      BY <1>3
    <3> HIDE DEF s1
    <3>2. f \in Handlers
      BY <1>2, <1>6, <3>1, SetSilences
    <3>3. /\ f.file = fils[1].file /\ f.tour = fils[1].tour /\ f.base = fils[1].base
          /\ f.boucle = fils[1].boucle /\ f.select = fils[1].select /\ f.fenetre = fils[1].fenetre
      BY <1>2 DEF Handlers
    <3> HIDE DEF f
    <3>4. QueueTrue(f.file) /\ Handler20(f)
      BY <1>2, <2>1, <3>3 DEF Handler20
    <3> QED BY <1>4, <2>1, <2>3, <3>2, <3>4 DEF f
  <2>4. CASE /\ fils[1].file # <<>>
             /\ fils' = [fils EXCEPT ![1] = IF g.recus < MaxAcks THEN g
                                            ELSE [g EXCEPT !.file = <<>>, !.etat = "envoi"]]
    <3>1. /\ p \in Arrivals /\ (p.m # Serve!GET => AckTrue(p.m))
          /\ q \in Seq(Arrivals) /\ QueueTrue(q)
      BY <1>2, <1>3, <2>4, QueueFront
    <3>2. fils[1].recus + 1 \in Nat
      BY <1>3
    <3> HIDE DEF n, q, p
    <3>3. f1 \in Handlers
      BY <1>2, <3>1, <3>2, SetRecus
    <3>4. /\ f1.file = q /\ f1.tour = fils[1].tour /\ f1.base = fils[1].base
          /\ f1.boucle = fils[1].boucle /\ f1.select = fils[1].select
          /\ f1.fenetre = fils[1].fenetre /\ f1.etat = fils[1].etat
      BY <1>2 DEF Handlers
    <3> HIDE DEF f1
    <3>5. Handler20(f1)
      BY <1>2, <3>4 DEF Handler20
    <3>6. g \in Handlers /\ Handler20(g) /\ g.file = f1.file /\ g.etat = f1.etat
      BY <1>1, <3>1, <3>3, <3>5, Lit20True
    <3> HIDE DEF g
    <3>7. CASE fils' = [fils EXCEPT ![1] = g]
      <4>1. QueueTrue(g.file)
        BY <3>1, <3>4, <3>6
      <4> QED BY <1>4, <2>1, <3>6, <3>7, <4>1
    <3>8. CASE fils' = [fils EXCEPT ![1] = [g EXCEPT !.file = <<>>, !.etat = "envoi"]]
      <4> DEFINE h == [g EXCEPT !.file = <<>>, !.etat = "envoi"]
      <4>1. h \in Handlers
        BY <1>6, <3>6, EmptySeq, SetVide
      <4>2. /\ h.file = <<>> /\ h.tour = g.tour /\ h.base = g.base
            /\ h.boucle = g.boucle /\ h.select = g.select /\ h.fenetre = g.fenetre
        BY <3>6 DEF Handlers
      <4>3. g.etat = "attente"
        BY <1>9, <3>4, <3>6 DEF Serve!Attente20
      <4> HIDE DEF h
      <4>4. QueueTrue(h.file) /\ Handler20(h)
        BY <3>6, <4>2, <4>3, EmptySeq DEF Handler20, QueueTrue
      <4> QED BY <1>4, <2>1, <3>8, <4>1, <4>4 DEF h
    <3> QED BY <2>4, <3>7, <3>8
  <2> QED BY <1>9, <2>2, <2>3, <2>4 DEF Serve!Attente20
<1> QED BY <1>7, <1>8, <1>9 DEF Server20Step, PeerServer

-----------------------------------------------------------------------------
(* The file, for every pair.                                                *)

(* At the start nothing is written, queued or read.                         *)
LEMMA InitIntegrity == Init => Integrity
<1> SUFFICES ASSUME Init PROVE Integrity
  OBVIOUS
<1> USE InteropAssumption
<1>1. FichierInv
  BY DEF Init, Ours!Init, FichierInv
<1>2. EcritInv
  BY <1>1, EmptySeq, Numbers DEF Init, Ours!Init, EcritInv, FichierInv, Seqnums
<1>3. BufferInv
  BY DEF Init, Ours!Init, BufferInv, Ours!Empty
<1>4. NetInv
  BY DEF Init, Ours!Init, NetInv, Ours!NoAck, Ours!GET
<1>5. NousInv
  <2>1. session \in BOOLEAN /\ fini \in BOOLEAN /\ fin_envoye \in BOOLEAN
    BY Zenon DEF Init, Ours!Init
  <2>2. ~fini /\ ~fin_envoye
    BY DEF Init, Ours!Init
  <2>3. base = 0 /\ lus = 0 /\ DOMAIN memoire = {}
    BY DEF Init, Ours!Init, Ours!Empty
  <2>4. base \in Seqnums /\ lus \in 0..taille
    BY <1>1, <2>3 DEF Seqnums, FichierInv
  <2> QED BY <2>1, <2>2, <2>3, <2>4 DEF NousInv
<1>6. FilsInv
  <2>1. fils = [t \in 1..MaxFils |-> Serve!Libre] /\ enreg = 0
    BY DEF Init
  <2>2. /\ Serve!Libre \in Handlers /\ QueueTrue(Serve!Libre.file) /\ Handler61(Serve!Libre)
        /\ Handler42(Serve!Libre) /\ Handler20(Serve!Libre)
    BY <1>1, <1>2, LibreTrue
  <2> QED BY <2>1, <2>2 DEF FilsInv
<1> QED BY <1>1, <1>2, <1>3, <1>4, <1>5, <1>6 DEF Integrity

(* A step that changes nothing keeps it.                                    *)
LEMMA Stutters ==
  ASSUME Integrity, UNCHANGED vars
  PROVE  Integrity'
<1>1. /\ UNCHANGED <<duo, existe, taille, pc, attendu, buffer, ecrit, dernier_ack, fils, enreg>>
      /\ UNCHANGED <<session, base, lus, memoire, fini, fin_envoye, versServeur, versClient>>
  BY DEF vars, serveur, pairs, client
<1>2. NousInv' /\ FilsInv'
  BY <1>1, FilsFrame DEF Integrity, NousInv
<1> QED BY <1>1, <1>2, ServerFrame

(* A client's step, whichever it is.                                        *)
LEMMA ClientActions ==
  ASSUME Integrity,
         (\E m \in versClient : RecvData(m)) \/ RecvConn \/ ClientTurn \/ ClientProcess
  PROVE  Integrity' /\ ClientStep
<1>1. ASSUME NEW m \in versClient, RecvData(m) PROVE Integrity' /\ ClientStep
  <2>1. CASE OurClient(Ours!ClientRecvData(m) \/ Ours!ClientRecvFin(m))
    <3>1. OurClient(Ours!ClientRecvData(m)) \/ OurClient(Ours!ClientRecvFin(m))
      BY <2>1 DEF OurClient
    <3> QED BY <3>1, OurRecvData, OurIdle
  <2> QED BY <1>1, <2>1, Recv61, Recv42, Recv20 DEF RecvData
<1>2. CASE RecvConn
  BY <1>2, OurIdle, PeerIdle DEF RecvConn
<1>3. CASE ClientTurn
  BY <1>3, OurIdle, PeerIdle DEF ClientTurn
<1>4. CASE ClientProcess
  BY <1>4, Process20
<1> QED BY <1>1, <1>2, <1>3, <1>4

(* Integrity is inductive.                                                  *)
LEMMA IntegrityStep ==
  ASSUME Short20, Integrity, [Next]_vars
  PROVE  Integrity'
<1>1. CASE OurLoop \/ Server61Timeout \/ Server20Step \/ \E t \in 1..MaxFils : Server42Step(t)
  <2>1. Server20Step => MaxMorceaux + MaxAvance < SeqMod
    BY DEF Server20Step, PeerServer, Short20, Integrity, FichierInv
  <2> QED BY <1>1, <2>1, OurServerIntegrity, Server61Integrity, Step20, Step42
<1>2. CASE RecvGet
  <2>1. CASE OurServer(OurRecvGet)
    BY <2>1, OurServerIntegrity
  <2>2. CASE PeerServer(61, Serve!Nouveau61(Request))
    BY <2>2, Server61Integrity
  <2>3. CASE PeerServer(42, \E t \in 1..MaxFils : Serve!Nouveau42(t, Request))
    <3>1. \E t \in 1..MaxFils : PeerServer(42, Serve!Nouveau42(t, Request))
      BY <2>3 DEF PeerServer
    <3> QED BY <3>1, Dispatch42
  <2>4. CASE PeerServer(20, Serve!Nouveau20 \/ Serve!Depose20(Serve!GET, 0))
    BY <2>4, Dispatch20
  <2> QED BY <1>2, <2>1, <2>2, <2>3, <2>4 DEF RecvGet
<1>3. ASSUME NEW m \in versServeur, RecvAck(m) PROVE Integrity'
  BY <1>3, OurServerIntegrity, Server61Integrity, Dispatch42, Dispatch20 DEF RecvAck
<1>4. CASE (\E m \in versClient : RecvData(m)) \/ RecvConn \/ ClientTurn \/ ClientProcess
  BY <1>4, ClientActions
<1>5. CASE Ours!NetLose /\ UNCHANGED <<duo, remote_window, pairs>>
  BY <1>5, Loses
<1>6. CASE UNCHANGED vars
  BY <1>6, Stutters
<1> QED BY <1>1, <1>2, <1>3, <1>4, <1>5, <1>6 DEF Next

(* Integrity, in every behaviour.                                           *)
LEMMA AlwaysIntegrity ==
  ASSUME Short20
  PROVE  Spec => []Integrity
<1>1. Init => Integrity
  BY InitIntegrity
<1>2. Integrity /\ [Next]_vars => Integrity'
  BY IntegrityStep
<1> QED BY <1>1, <1>2, PTL DEF Spec

(* Whichever two programs meet, what the client has written is a prefix of  *)
(* the file, for every size of file, window and sequence number space: the  *)
(* files are those all the servers can number, and, where group 20's server *)
(* serves them, so short that it never takes an old acknowledgement for a   *)
(* new one.                                                                 *)
THEOREM InteropPrefixIntegrity ==
  ASSUME Short20
  PROVE  Spec => []PrefixIntegrity
<1>1. Spec => []Integrity
  BY AlwaysIntegrity
<1>2. Integrity => PrefixIntegrity
  BY DEF Integrity, EcritInv, PrefixIntegrity, Ours!PrefixIntegrity
<1> QED BY <1>1, <1>2, PTL

(* A client that ends on an end packet has the whole file, though group 20's*)
(* server may number that packet as one the client has not written yet, and *)
(* groups 20 and 61 keep an end packet among the others.                    *)
THEOREM InteropDoneMeansComplete ==
  ASSUME Short20
  PROVE  Spec => []DoneMeansComplete
<1>1. Spec => []Integrity
  BY AlwaysIntegrity
<1>2. Integrity => DoneMeansComplete
  BY DEF Integrity, EcritInv, DoneMeansComplete, Ours!DoneMeansComplete
<1> QED BY <1>1, <1>2, PTL

(* No client advertises a window of 0: the packet it waits for is never in  *)
(* its buffer when it acknowledges, so the packets there, all less than a   *)
(* window ahead, leave a place.                                             *)
THEOREM InteropNoZeroWindow ==
  ASSUME Short20
  PROVE  Spec => []NoZeroWindow
<1>1. Spec => []Integrity
  BY AlwaysIntegrity
<1>2. Integrity => NoZeroWindow
  <2> SUFFICES ASSUME Integrity, NEW m \in versServeur, m.type # "GET" PROVE Window(m) > 0
    BY DEF NoZeroWindow
  <2>1. m \in Acks
    BY IsAnAck DEF Integrity
  <2> QED BY <2>1, WindowOpen
<1> QED BY <1>1, <1>2, PTL

-----------------------------------------------------------------------------
(* What the servers forget.                                                 *)

(* A packet held by the client is not the one it waits for: when all of the *)
(* file is held, all of it is written.                                      *)
LEMMA AllHeld ==
  ASSUME FichierInv, EcritInv, \A i \in 0..taille-1 : Held(i)
  PROVE  Len(ecrit) = taille
<1>1. Len(ecrit) \in Nat /\ taille \in Nat /\ Len(ecrit) <= taille
  BY LenProperties DEF EcritInv, FichierInv
<1>2. Len(ecrit) < taille => Held(Len(ecrit))
  BY <1>1
<1> QED BY <1>1, <1>2 DEF Held

(* Steps of a client, which only add to what it holds.                      *)
LEMMA ClientDelivery ==
  ASSUME Integrity, Integrity', ClientStep, Delivery
  PROVE  Delivery'
<1>1. /\ UNCHANGED <<duo, taille, session, base, lus, memoire, fini, fin_envoye, fils, enreg, versClient>>
      /\ \A s \in Seqnums : Held(s) => Held(s)'
  BY DEF ClientStep, Grows
<1>2. /\ Len(ecrit) \in Nat /\ Len(ecrit') \in Nat /\ Len(ecrit) <= Len(ecrit')
      /\ Len(ecrit') <= taille /\ taille \in Nat /\ taille < SeqMod /\ lus \in 0..taille
      /\ base \in Nat /\ fils \in [1..MaxFils -> Handlers]
  BY <1>1, LenProperties, InteropAssumption
     DEF Integrity, EcritInv, FichierInv, NousInv, FilsInv, ClientStep, Grows, Seqnums
<1>3. duo[1] = 0 => OursForgets'
  <2>1. \A i \in 0..lus-1 : i \in Seqnums
    BY <1>2, InteropAssumption DEF Seqnums
  <2> QED BY <1>1, <1>2, <2>1 DEF Delivery, OursForgets
<1>4. duo[1] = 42 => \A t \in 1..MaxFils : Forgets42(fils[t])'
  <2> SUFFICES ASSUME duo[1] = 42, NEW t \in 1..MaxFils PROVE Forgets42(fils[t])'
    OBVIOUS
  <2>1. Forgets42(fils[t]) /\ fils[t].base \in Nat /\ fils[t].lus \in Nat
    BY <1>2 DEF Delivery, Handlers
  <2> QED BY <1>1, <1>2, <2>1 DEF Forgets42
<1>5. duo[1] = 61 => \A t \in 1..MaxFils : Forgets61(fils[t])'
  BY <1>1, <1>2 DEF Delivery, Forgets61
<1>6. FinMeansDelivered'
  BY <1>1, <1>2 DEF Delivery, FinMeansDelivered, Ours!FIN
<1> QED BY <1>1, <1>3, <1>4, <1>5, <1>6 DEF Delivery

(* Our server: what an acknowledgement makes it forget is held, for files   *)
(* of less than half the sequence numbers.                                  *)
LEMMA AcquittedHeld ==
  ASSUME MaxMorceaux < HalfMod, FichierInv, EcritInv, NousInv, OursForgets,
         NEW m \in Acks, AckTrue(m)
  PROVE  /\ \A s \in Ours!Acquitted(m) : Held(s)
         /\ Ours!Ahead(m.seqnum) => \/ m.seqnum <= Len(ecrit)
                                    \/ Len(ecrit) = taille /\ m.seqnum = taille + 1
<1> USE InteropAssumption
<1> DEFINE n == m.seqnum
<1>1. /\ Len(ecrit) \in Nat /\ Len(ecrit) <= taille /\ taille \in Nat /\ taille < HalfMod
      /\ base \in Seqnums /\ n \in Seqnums
  BY LenProperties DEF EcritInv, FichierInv, NousInv, Acks, OurAcks, PeerAcks
<1>2. n <= Len(ecrit) \/ (Len(ecrit) = taille /\ n = taille + 1)
  BY DEF AckTrue
<1>3. base <= Len(ecrit) \/ (Len(ecrit) = taille /\ base = taille + 1)
  BY DEF OursForgets
<1>4. \A s \in m.sack : Held(s)
  BY DEF AckTrue, Serve!Select20
<1>5. ASSUME NEW s \in Seqnums, Ours!Ahead(n), Ours!Steps(s) < Ours!Steps(n)
      PROVE  Held(s)
  <2>1. /\ Ours!Steps(n) = IF n >= base THEN n - base ELSE n - base + SeqMod
        /\ Ours!Steps(s) = IF s >= base THEN s - base ELSE s - base + SeqMod
    BY <1>1, Distance DEF Ours!Steps
  <2>2. Ours!Steps(n) < HalfMod
    BY <1>5 DEF Ours!Ahead
  <2>3. n >= base
    BY <1>1, <1>2, <1>3, <2>1, <2>2 DEF Seqnums
  <2>4. s >= base
    BY <1>1, <1>2, <1>3, <1>5, <2>1, <2>2, <2>3 DEF Seqnums
  <2>5. s < n
    BY <1>1, <1>5, <2>1, <2>3, <2>4 DEF Seqnums
  <2> QED BY <1>1, <1>2, <2>5 DEF Held, Seqnums
<1>6. Ours!Seqnums = Seqnums
  BY DEF Ours!Seqnums, Seqnums
<1> QED BY <1>2, <1>4, <1>5, <1>6 DEF Ours!Acquitted

(* An end packet a server may send.                                         *)
FinOnTime == \A m \in versClient' :
  m \in versClient \/ m # Ours!FIN(taille) \/ Len(ecrit) = taille

(* When those are all it adds, FinMeansDelivered is kept.                   *)
LEMMA FinFrame ==
  ASSUME FinMeansDelivered, UNCHANGED <<duo, taille, ecrit>>, FinOnTime
  PROVE  FinMeansDelivered'
BY DEF FinMeansDelivered, FinOnTime, Ours!FIN

(* A DATA packet is not an end packet, and an end packet of another number  *)
(* is not the last.                                                         *)
LEMMA NotFin ==
  /\ \A i : Ours!DATA(i) # Ours!FIN(taille)
  /\ Ours!CONN # Ours!FIN(taille) /\ Serve!CONN # Ours!FIN(taille)
  /\ \A i : i < taille => Serve!Paquet(i) # Ours!FIN(taille)
BY DEF Ours!DATA, Ours!FIN, Ours!CONN, Serve!CONN, Serve!Paquet

(* Our server sends, forgets and ends.                                      *)
LEMMA OurDelivery ==
  ASSUME MaxMorceaux < HalfMod, Integrity, Delivery,
         OurLoop \/ OurServer(OurRecvGet) \/ \E m \in versServeur : OurServer(OurRecvAck(m))
  PROVE  Delivery'
<1> USE InteropAssumption
<1>1. FichierInv /\ EcritInv /\ NousInv /\ NetInv
  BY DEF Integrity
<1>2. duo[1] = 0 /\ UNCHANGED <<duo, existe, taille, ecrit, buffer>>
  BY DEF OurLoop, OurServer, OurRecvGet, OurRecvAck, Ours!SrvRecvGet, Ours!SrvRecvAck,
         Ours!SrvRecvNothing, Ours!SrvPumpSome, Ours!SrvPump, Ours!SrvPumpNobody,
         Ours!fichier, Ours!client, Ours!reception
<1>3. /\ OursForgets /\ FinMeansDelivered /\ Len(ecrit) \in Nat /\ taille \in Nat
      /\ lus \in 0..taille /\ Len(ecrit) <= taille
  BY <1>1, <1>2, LenProperties DEF Delivery, EcritInv, FichierInv, NousInv
<1>4. \A s : Held(s) => Held(s)'
  BY <1>2 DEF Held
<1>5. SUFFICES OursForgets' /\ FinOnTime
  BY <1>2, <1>3, FinFrame DEF Delivery
<1>6. ASSUME NEW b, Ours!FreshEtat(b) PROVE OursForgets'
  BY <1>2, <1>3, <1>6 DEF Ours!FreshEtat, OursForgets
<1>7. CASE OurServer(Ours!SrvRecvNothing) \/ OurServer(Ours!SrvPumpNobody)
  <2>1. UNCHANGED <<session, base, lus, memoire, fini, fin_envoye, versClient>>
    BY <1>7 DEF OurServer, Ours!SrvRecvNothing, Ours!SrvPumpNobody, Ours!etat
  <2> QED BY <1>2, <1>3, <1>4, <2>1 DEF OursForgets, FinOnTime
<1>8. CASE OurServer(OurRecvGet)
  <2>1. \/ /\ UNCHANGED <<session, base, lus, memoire, fini, fin_envoye>>
           /\ versClient' = versClient \/ (~existe /\ versClient' = versClient \cup {Ours!CONN, Ours!FIN(0)})
        \/ Ours!FreshEtat(TRUE) /\ versClient' = versClient \cup {Ours!CONN}
    BY <1>8 DEF OurServer, OurRecvGet, Ours!SrvRecvGet, Ours!etat
  <2>2. FinOnTime
    <3>1. ~existe => Len(ecrit) = taille
      BY <1>1, <1>3 DEF FichierInv
    <3> QED BY <2>1, <3>1, NotFin DEF FinOnTime
  <2>3. UNCHANGED <<session, base, lus, memoire, fini, fin_envoye>> => OursForgets'
    BY <1>2, <1>3, <1>4 DEF OursForgets
  <2> QED BY <1>6, <2>1, <2>2, <2>3
<1>9. ASSUME NEW m \in versServeur, OurServer(OurRecvAck(m)) PROVE OursForgets' /\ FinOnTime
  <2>1. /\ versClient' = versClient /\ m.type # "GET"
        /\ \/ UNCHANGED <<session, base, lus, memoire, fini, fin_envoye>>
           \/ /\ base' = IF Ours!Ahead(m.seqnum) THEN m.seqnum ELSE base
              /\ UNCHANGED <<session, lus, fini, fin_envoye>>
              /\ memoire' = Ours!Without(memoire, Ours!Acquitted(m))
    BY <1>9 DEF OurServer, OurRecvAck, Ours!SrvRecvAck, Ours!etat
  <2>2. m \in Acks /\ AckTrue(m)
    BY <1>1, <2>1, IsAnAck
  <2>3. /\ \A s \in Ours!Acquitted(m) : Held(s)
        /\ Ours!Ahead(m.seqnum) => \/ m.seqnum <= Len(ecrit)
                                   \/ Len(ecrit) = taille /\ m.seqnum = taille + 1
    BY <1>1, <1>3, <2>2, AcquittedHeld
  <2>4. FinOnTime
    BY <2>1 DEF FinOnTime
  <2>5. CASE UNCHANGED <<session, base, lus, memoire, fini, fin_envoye>>
    BY <1>2, <1>3, <1>4, <2>4, <2>5 DEF OursForgets
  <2>6. CASE /\ base' = IF Ours!Ahead(m.seqnum) THEN m.seqnum ELSE base
             /\ UNCHANGED <<session, lus, fini, fin_envoye>>
             /\ memoire' = Ours!Without(memoire, Ours!Acquitted(m))
    <3>1. DOMAIN memoire' = DOMAIN memoire \ Ours!Acquitted(m)
      BY <2>6 DEF Ours!Without
    <3>2. \A i \in 0..lus-1 : i \in DOMAIN memoire' \/ Held(i)
      BY <1>3, <2>3, <3>1 DEF OursForgets
    <3>3. base' <= Len(ecrit) \/ (Len(ecrit) = taille /\ base' = taille + 1)
      BY <1>3, <2>3, <2>6 DEF OursForgets
    <3> QED BY <1>2, <1>3, <1>4, <2>4, <2>6, <3>2, <3>3 DEF OursForgets
  <2> QED BY <2>1, <2>5, <2>6
<1>10. CASE OurServer(Ours!SrvPumpSome(remote_window))
  <2>1. PICK k \in 0..taille-lus, expires \in SUBSET DOMAIN memoire, silence \in BOOLEAN,
             trois \in BOOLEAN : Ours!SrvPump(remote_window, k, expires, silence, trois)
    BY <1>10 DEF OurServer, Ours!SrvPumpSome
  <2> DEFINE mem == Ours!MemoireAfter(k)
             fini1 == fini \/ Ours!Open(k, remote_window)
             fin1 == fin_envoye \/ Ours!Ends(mem, fini1)
  <2>2. Ours!Sends(k, remote_window)
    BY <2>1 DEF Ours!SrvPump
  <2>3. /\ DOMAIN mem = DOMAIN memoire \cup (lus..lus+k-1) /\ (fini1 => lus + k = taille)
    BY <1>1, <2>2, PumpTrue
  <2>4. /\ versClient' = versClient
             \cup {Ours!DATA(i) : i \in lus..lus+k-1}
             \cup {Ours!DATA(mem[s]) : s \in Ours!Resends(mem, expires, silence)}
             \cup (IF Ours!Ends(mem, fini1) \/ (silence /\ fin1) THEN {Ours!FIN(lus + k)} ELSE {})
        /\ \/ trois /\ Ours!FreshEtat(FALSE)
           \/ /\ lus' = lus + k /\ memoire' = mem /\ fini' = fini1
              /\ fin_envoye' = fin1 /\ UNCHANGED <<session, base>>
    BY <2>1 DEF Ours!SrvPump
  <2>5. Ours!Ends(mem, fini1) => fini1 /\ DOMAIN mem = {}
    BY DEF Ours!Ends
  <2> HIDE DEF mem, fini1
  <2>6. \A i \in 0..lus+k-1 : i \in DOMAIN mem \/ Held(i)
    BY <1>3, <2>3 DEF OursForgets
  <2>7. Ours!Ends(mem, fini1) => Len(ecrit) = taille
    <3> SUFFICES ASSUME Ours!Ends(mem, fini1) PROVE Len(ecrit) = taille
      OBVIOUS
    <3>1. DOMAIN mem = {} /\ lus + k = taille
      BY <2>3, <2>5
    <3>2. \A i \in 0..taille-1 : Held(i)
      <4>1. 0..lus+k-1 = 0..taille-1
        BY <1>3, <3>1
      <4> QED BY <2>6, <3>1, <4>1
    <3> QED BY <1>1, <3>2, AllHeld
  <2>8. fin1 => Len(ecrit) = taille
    BY <1>3, <2>7 DEF OursForgets
  <2> HIDE DEF fin1
  <2>9. FinOnTime
    BY <2>4, <2>7, <2>8, NotFin DEF FinOnTime
  <2>10. CASE /\ lus' = lus + k /\ memoire' = mem /\ fini' = fini1
              /\ fin_envoye' = fin1 /\ UNCHANGED <<session, base>>
    BY <1>2, <1>3, <1>4, <2>6, <2>8, <2>9, <2>10 DEF OursForgets
  <2> QED BY <1>6, <2>4, <2>9, <2>10
<1> QED BY <1>7, <1>8, <1>9, <1>10 DEF OurLoop, OurServer

(* Group 61's server forgets what an acknowledgement covers, and that is    *)
(* written.                                                                 *)
LEMMA Delivery61 ==
  ASSUME Integrity, Delivery,
         \/ Server61Timeout \/ PeerServer(61, Serve!Nouveau61(Request))
         \/ \E m \in versServeur : PeerServer(61, Serve!RecvAck61(m, Window(m)))
  PROVE  Delivery'
<1> USE InteropAssumption
<1>1. /\ FichierInv /\ EcritInv /\ NetInv /\ FilsInv /\ duo[1] = 61
      /\ UNCHANGED <<duo, serveur, client>> /\ Serve!Repos
  BY DEF Integrity, Server61Timeout, PeerServer, Serve!Nouveau61, Serve!RecvAck61, Serve!Timeout61
<1>2. UNCHANGED <<duo, existe, taille, ecrit, buffer>> /\ fils \in [1..MaxFils -> Handlers]
  BY <1>1 DEF client, serveur, Serve!Repos, FilsInv
<1>3. Len(ecrit) \in Nat /\ taille \in Nat /\ Len(ecrit) <= taille /\ 1 \in 1..MaxFils
  BY <1>1, LenProperties DEF EcritInv, FichierInv
<1>4. \A t \in 1..MaxFils : Forgets61(fils[t])
  BY <1>1 DEF Delivery
<1>5. SUFFICES \A t \in 1..MaxFils : Forgets61(fils[t])'
  BY <1>1, <1>2 DEF Delivery, FinMeansDelivered
<1>6. \A f, t : fils'[t] = f /\ Forgets61(f) => Forgets61(fils[t])'
  BY <1>2 DEF Forgets61
<1>7. ASSUME NEW f, fils' = [fils EXCEPT ![1] = f], Forgets61(f)
      PROVE  \A t \in 1..MaxFils : Forgets61(fils[t])'
  <2> SUFFICES ASSUME NEW t \in 1..MaxFils PROVE Forgets61(fils[t])'
    OBVIOUS
  <2>1. fils'[t] = f \/ fils'[t] = fils[t]
    BY <1>2, <1>7
  <2> QED BY <1>4, <1>6, <1>7, <2>1
<1>8. CASE Server61Timeout
  <2>1. fils' = fils
    BY <1>8 DEF Server61Timeout, PeerServer, Serve!Timeout61
  <2> QED BY <1>4, <1>6, <2>1
<1>9. CASE PeerServer(61, Serve!Nouveau61(Request))
  <2> DEFINE f == [Serve!Libre EXCEPT !.etat = "session", !.reste = 0..taille, !.fenetre = Request]
  <2>1. fils' = [fils EXCEPT ![1] = f]
    BY <1>9 DEF PeerServer, Serve!Nouveau61
  <2>2. f.reste = 0..taille
    BY LibreTrue DEF Handlers
  <2> HIDE DEF f
  <2>3. Forgets61(f)
    BY <1>3, <2>2 DEF Forgets61
  <2> QED BY <1>7, <2>1, <2>3
<1>10. ASSUME NEW m \in versServeur, PeerServer(61, Serve!RecvAck61(m, Window(m)))
       PROVE  \A t \in 1..MaxFils : Forgets61(fils[t])'
  <2> DEFINE R == Serve!Remaining61(fils[1], m)
             f == [fils[1] EXCEPT !.reste = R, !.base = m.seqnum, !.fenetre = Window(m)]
  <2>1. m.type # "GET" /\ fils[1].etat = "session"
    BY <1>10 DEF PeerServer, Serve!RecvAck61, Serve!IsAck
  <2>2. m \in Acks /\ AckTrue(m)
    BY <1>1, <2>1, IsAnAck
  <2>3. m.seqnum \in Nat /\ fils[1].base \in Nat /\ fils[1] \in Handlers
    <3>1. m.seqnum \in Nat
      BY <2>2 DEF Acks, OurAcks, PeerAcks, Seqnums
    <3>2. fils[1] \in Handlers
      BY <1>2, <1>3
    <3> QED BY <3>1, <3>2 DEF Handlers
  <2>4. \A i \in 0..taille-1 : i \in R \/ i < Len(ecrit)
    <3>1. \A i \in 0..taille-1 : i \in fils[1].reste \/ i < Len(ecrit)
      BY <1>3, <1>4, <2>1 DEF Forgets61
    <3>2. \A i \in 0..taille-1 : i < m.seqnum => i < Len(ecrit)
      BY <1>3, <2>2, <2>3 DEF AckTrue
    <3> QED BY <1>3, <2>3, <3>1, <3>2 DEF Serve!Remaining61
  <2>5. CASE fils' = [fils EXCEPT ![1] = Serve!Libre]
    <3>1. Forgets61(Serve!Libre)
      BY DEF Forgets61, Serve!Libre
    <3> QED BY <1>7, <2>5, <3>1
  <2>6. CASE fils' = [fils EXCEPT ![1].reste = R, ![1].base = m.seqnum, ![1].fenetre = Window(m)]
    <3> HIDE DEF R
    <3>1. fils' = [fils EXCEPT ![1] = f]
      BY <1>2, <1>3, <2>6
    <3>2. f.reste = R
      BY <2>3 DEF Handlers
    <3> HIDE DEF f
    <3>3. Forgets61(f)
      BY <2>4, <3>2 DEF Forgets61
    <3> QED BY <1>7, <3>1, <3>3
  <2> QED BY <1>10, <2>5, <2>6 DEF PeerServer, Serve!RecvAck61
<1> QED BY <1>8, <1>9, <1>10

(* Distances from one number are ordered as the numbers are.                *)
LEMMA SameOrigin ==
  ASSUME NEW i \in Int, NEW n \in Int, NEW b \in Int, ~(i - b >= n - b)
  PROVE  i < n
OBVIOUS

(* Group 42's handler forgets what an acknowledgement that is not too old   *)
(* covers: for files of less than half the sequence numbers, only an        *)
(* acknowledgement from base on is not too old.                             *)
LEMMA HandleAckForgets ==
  ASSUME MaxMorceaux < HalfMod, FichierInv, EcritInv, duo[1] = 42,
         NEW f \in Handlers, Handler42(f), Forgets42(f),
         NEW p \in AckArrivals, AckTrue(p.m), NEW q
  PROVE  Forgets42([Serve!HandleAck42(f, p) EXCEPT !.file = q])
<1> USE InteropAssumption
<1> DEFINE n == p.m.seqnum
           pas == (n - f.base) % SeqMod
           g == [Serve!HandleAck42(f, p) EXCEPT !.file = q]
<1>1. duo[2] # 61
  BY DEF FichierInv, Couples, Groupes
<1>2. n \in Seqnums /\ n <= Len(ecrit)
  BY <1>1 DEF AckArrivals, Acks, OurAcks, PeerAcks, AckTrue
<1>3. /\ f.base \in Nat /\ f.base <= Len(ecrit) /\ Len(ecrit) \in Nat /\ Len(ecrit) <= taille
      /\ taille \in Nat /\ taille < HalfMod /\ f.lus \in Nat /\ f.lus <= taille
      /\ f.reste \subseteq 0..f.lus-1
      /\ \A i \in 0..f.lus-1 : i \in f.reste \/ i < Len(ecrit)
  BY LenProperties DEF Handlers, Forgets42, Handler42, EcritInv, FichierInv
<1>4. /\ g.base = IF Serve!TooOld42(pas) THEN f.base ELSE n
      /\ g.reste = {i \in f.reste : Serve!TooOld42(pas) \/ (i - f.base) % SeqMod >= pas}
      /\ g.lus = f.lus
  BY DEF Serve!HandleAck42, Handlers
<1>5. f.base \in Seqnums /\ \A i \in 0..f.lus-1 : i \in Seqnums
  <2>1. HalfMod < SeqMod /\ SeqMod \in Nat /\ HalfMod \in Nat
    OBVIOUS
  <2>2. f.base < SeqMod /\ f.lus < SeqMod
    BY <1>3, <2>1
  <2> QED BY <1>3, <2>1, <2>2 DEF Seqnums
<1>6. pas = IF n >= f.base THEN n - f.base ELSE n - f.base + SeqMod
  BY <1>2, <1>5, Distance
<1>7. ASSUME NEW i \in f.reste, ~Serve!TooOld42(pas), ~((i - f.base) % SeqMod >= pas)
      PROVE  i < Len(ecrit)
  <2>1. (i - f.base) % SeqMod = IF i >= f.base THEN i - f.base ELSE i - f.base + SeqMod
    BY <1>3, <1>5, Distance
  <2>2. SeqMod \div 2 = HalfMod
    OBVIOUS
  <2>3. n >= f.base
    <3>1. n \in Nat /\ ~(pas > HalfMod)
      BY <1>2, <1>7, <2>2 DEF Serve!TooOld42, Seqnums
    <3> QED BY <1>3, <1>6, <3>1
  <2> HIDE DEF pas
  <2>4. i \in Nat /\ i < SeqMod
    <3>1. i \in 0..f.lus-1
      BY <1>3
    <3> QED BY <1>3, <3>1
  <2>5. pas = n - f.base /\ n \in Nat /\ n - f.base < HalfMod
    BY <1>2, <1>3, <1>6, <2>3 DEF Seqnums
  <2>6. CASE i >= f.base
    <3>1. (i - f.base) % SeqMod = i - f.base
      BY <2>1, <2>6
    <3>2. ~(i - f.base >= n - f.base)
      BY <1>7, <2>5, <3>1
    <3>3. i \in Int /\ n \in Int /\ f.base \in Int
      BY <1>3, <2>4, <2>5
    <3>4. i < n
      BY <3>2, <3>3, SameOrigin
    <3>5. n <= Len(ecrit) /\ Len(ecrit) \in Nat
      BY <1>2, <1>3
    <3> QED BY <2>4, <2>5, <3>4, <3>5
  <2>7. CASE i < f.base
    BY <1>3, <2>4, <2>7
  <2> QED BY <1>3, <2>4, <2>6, <2>7
<1> HIDE DEF g, pas
<1>8. g.base <= Len(ecrit)
  BY <1>2, <1>3, <1>4
<1>9. \A i \in 0..g.lus-1 : i \in g.reste \/ i < Len(ecrit)
  BY <1>3, <1>4, <1>7
<1>10. Forgets42(g)
  BY <1>8, <1>9 DEF Forgets42
<1> QED BY <1>10, Zenon DEF g

(* Group 42's server.                                                       *)
LEMMA Delivery42 ==
  ASSUME MaxMorceaux < HalfMod, Integrity, Delivery,
         \/ \E t \in 1..MaxFils : Server42Step(t)
         \/ \E t \in 1..MaxFils : PeerServer(42, Serve!Nouveau42(t, Request))
         \/ \E m \in versServeur : m.type # "GET" /\ PeerServer(42, Serve!Depose42(m, Window(m)))
  PROVE  Delivery'
<1> USE InteropAssumption
<1>1. /\ FichierInv /\ EcritInv /\ NetInv /\ FilsInv /\ duo[1] = 42
      /\ UNCHANGED <<duo, serveur, client>> /\ Serve!Repos
  <2>1. FichierInv /\ EcritInv /\ NetInv /\ FilsInv
    BY DEF Integrity
  <2>2. CASE \E t \in 1..MaxFils : Server42Step(t)
    <3>1. duo[1] = 42 /\ UNCHANGED <<duo, serveur, client>>
      BY <2>2 DEF Server42Step, PeerServer
    <3>2. Serve!Repos
      <4>1. PICK t \in 1..MaxFils :
               \/ Serve!Enregistre42(t)
               \/ \E k \in 0..taille-fils[t].lus : Serve!Envoi42(t, k)
               \/ Serve!Lit42(t) \/ \E E \in SUBSET fils[t].reste : Serve!Attente42(t, E)
               \/ Serve!Ferme42(t)
        BY <2>2 DEF Server42Step, PeerServer
      <4>2. CASE Serve!Enregistre42(t) \/ Serve!Lit42(t) \/ Serve!Ferme42(t)
        BY <4>2 DEF Serve!Enregistre42, Serve!Lit42, Serve!Ferme42
      <4>3. CASE \E k \in 0..taille-fils[t].lus : Serve!Envoi42(t, k)
        BY <4>3 DEF Serve!Envoi42
      <4>4. CASE \E E \in SUBSET fils[t].reste : Serve!Attente42(t, E)
        BY <4>4 DEF Serve!Attente42
      <4> QED BY <4>1, <4>2, <4>3, <4>4
    <3> QED BY <2>1, <3>1, <3>2
  <2>3. CASE \E t \in 1..MaxFils : PeerServer(42, Serve!Nouveau42(t, Request))
    BY <2>1, <2>3 DEF PeerServer, Serve!Nouveau42
  <2>4. CASE \E m \in versServeur : m.type # "GET" /\ PeerServer(42, Serve!Depose42(m, Window(m)))
    BY <2>1, <2>4 DEF PeerServer, Serve!Depose42
  <2> QED BY <2>2, <2>3, <2>4
<1>2. UNCHANGED <<duo, existe, taille, ecrit, buffer>> /\ fils \in [1..MaxFils -> Handlers]
  BY <1>1 DEF client, serveur, Serve!Repos, FilsInv
<1>3. Len(ecrit) \in Nat /\ taille \in Nat /\ Len(ecrit) <= taille
  BY <1>1, LenProperties DEF EcritInv, FichierInv
<1>4. \A t \in 1..MaxFils :
         /\ Forgets42(fils[t]) /\ Handler42(fils[t]) /\ fils[t] \in Handlers /\ QueueTrue(fils[t].file)
  BY <1>1, <1>2 DEF Delivery, FilsInv
<1>5. SUFFICES FinOnTime /\ \A t \in 1..MaxFils : Forgets42(fils[t])'
  BY <1>1, <1>2, FinFrame DEF Delivery
<1>6. \A f, t : fils'[t] = f /\ Forgets42(f) => Forgets42(fils[t])'
  BY <1>2 DEF Forgets42
<1>7. ASSUME NEW u \in 1..MaxFils, NEW f, fils' = [fils EXCEPT ![u] = f], Forgets42(f)
      PROVE  \A t \in 1..MaxFils : Forgets42(fils[t])'
  <2> SUFFICES ASSUME NEW t \in 1..MaxFils PROVE Forgets42(fils[t])'
    OBVIOUS
  <2>1. fils'[t] = f \/ fils'[t] = fils[t]
    BY <1>2, <1>7
  <2> QED BY <1>4, <1>6, <1>7, <2>1
<1>8. ASSUME NEW u \in 1..MaxFils, NEW f, fils' = [fils EXCEPT ![u] = f],
             f.base = fils[u].base, f.lus = fils[u].lus, f.reste = fils[u].reste
      PROVE  \A t \in 1..MaxFils : Forgets42(fils[t])'
  <2>1. Forgets42(f)
    BY <1>4, <1>8 DEF Forgets42
  <2> QED BY <1>7, <1>8, <2>1
<1>9. ASSUME NEW u \in 1..MaxFils, NEW f, fils' = [fils EXCEPT ![u] = f],
             f.base = 0, f.lus = 0
      PROVE  \A t \in 1..MaxFils : Forgets42(fils[t])'
  <2>1. Forgets42(f)
    BY <1>3, <1>9 DEF Forgets42
  <2> QED BY <1>7, <1>9, <2>1
<1>10. versClient' = versClient => FinOnTime
  BY DEF FinOnTime
<1>11. ASSUME NEW t \in 1..MaxFils, PeerServer(42, Serve!Nouveau42(t, Request))
       PROVE  FinOnTime /\ \A u \in 1..MaxFils : Forgets42(fils[u])'
  <2> DEFINE f == [Serve!Libre EXCEPT !.etat = "demarre", !.fenetre = Request]
  <2>1. fils' = [fils EXCEPT ![t] = f] /\ versClient' = versClient
    BY <1>11 DEF PeerServer, Serve!Nouveau42
  <2>2. f.base = 0 /\ f.lus = 0
    BY DEF Serve!Libre
  <2> HIDE DEF f
  <2> QED BY <1>9, <1>10, <2>1, <2>2
<1>12. ASSUME NEW m \in versServeur, PeerServer(42, Serve!Depose42(m, Window(m)))
       PROVE  FinOnTime /\ \A u \in 1..MaxFils : Forgets42(fils[u])'
  <2> DEFINE q == Append(fils[enreg].file, [m |-> m, window |-> Window(m)])
             f == [fils[enreg] EXCEPT !.file = q]
  <2>1. /\ fils' = [fils EXCEPT ![enreg].file = q] /\ enreg # 0 /\ versClient' = versClient
    BY <1>12 DEF PeerServer, Serve!Depose42
  <2>2. enreg \in 1..MaxFils
    BY <1>1, <2>1 DEF FilsInv
  <2> HIDE DEF q
  <2>3. fils' = [fils EXCEPT ![enreg] = f]
    BY <1>2, <2>1, <2>2
  <2>4. f.base = fils[enreg].base /\ f.lus = fils[enreg].lus /\ f.reste = fils[enreg].reste
    BY <1>4, <2>2 DEF Handlers
  <2> HIDE DEF f
  <2> QED BY <1>8, <1>10, <2>1, <2>2, <2>3, <2>4
<1>13. ASSUME NEW t \in 1..MaxFils, NEW e, fils' = [fils EXCEPT ![t].etat = e]
       PROVE  \A u \in 1..MaxFils : Forgets42(fils[u])'
  <2> DEFINE f == [fils[t] EXCEPT !.etat = e]
  <2>1. fils' = [fils EXCEPT ![t] = f]
    BY <1>2, <1>13
  <2>2. f.base = fils[t].base /\ f.lus = fils[t].lus /\ f.reste = fils[t].reste
    BY <1>4 DEF Handlers
  <2> HIDE DEF f
  <2> QED BY <1>8, <2>1, <2>2
<1>14. ASSUME NEW t \in 1..MaxFils, Serve!Enregistre42(t)
       PROVE  FinOnTime /\ \A u \in 1..MaxFils : Forgets42(fils[u])'
  BY <1>10, <1>13, <1>14 DEF Serve!Enregistre42
<1>15. ASSUME NEW t \in 1..MaxFils, Serve!Ferme42(t)
       PROVE  FinOnTime /\ \A u \in 1..MaxFils : Forgets42(fils[u])'
  <2> DEFINE f == [Serve!Libre EXCEPT !.etat = "fini"]
  <2>1. fils' = [fils EXCEPT ![t] = f] /\ versClient' = versClient
    BY <1>15 DEF Serve!Ferme42
  <2>2. f.base = 0 /\ f.lus = 0
    BY DEF Serve!Libre
  <2> HIDE DEF f
  <2> QED BY <1>9, <1>10, <2>1, <2>2
<1>16. ASSUME NEW t \in 1..MaxFils, NEW E \in SUBSET fils[t].reste, Serve!Attente42(t, E)
       PROVE  FinOnTime /\ \A u \in 1..MaxFils : Forgets42(fils[u])'
  <2>1. /\ fils' = [fils EXCEPT ![t].etat = "envoi"]
        /\ versClient' = versClient \cup {Serve!Paquet(i) : i \in E}
    BY <1>16 DEF Serve!Attente42, Serve!Envoie
  <2>2. fils[t].lus \in Nat /\ fils[t].lus <= taille /\ fils[t].reste \subseteq 0..fils[t].lus-1
    BY <1>4 DEF Handler42, Handlers
  <2>3. \A i \in E : i < taille
    BY <1>3, <2>2
  <2>4. FinOnTime
    BY <2>1, <2>3, NotFin DEF FinOnTime
  <2> QED BY <1>13, <2>1, <2>4
<1>17. ASSUME NEW t \in 1..MaxFils, Serve!Lit42(t)
       PROVE  FinOnTime /\ \A u \in 1..MaxFils : Forgets42(fils[u])'
  <2> DEFINE p == Head(fils[t].file)
             q == Tail(fils[t].file)
             f == [Serve!HandleAck42(fils[t], p) EXCEPT !.file = q]
  <2>1. fils[t].file # <<>> /\ versClient' = versClient /\ fils' = [fils EXCEPT ![t] = f]
    BY <1>17 DEF Serve!Lit42
  <2>2. fils[t].file \in Seq(Arrivals) /\ fils[t].file \in Seq(AckArrivals)
    BY <1>4 DEF Handlers, Handler42
  <2>3. p \in AckArrivals
    BY <2>1, <2>2, HeadTailProperties
  <2>4. AckTrue(p.m)
    <3>1. p.m # Serve!GET
      BY <2>3 DEF AckArrivals, Acks, OurAcks, PeerAcks, Serve!GET
    <3> QED BY <1>4, <2>1, <2>2, <3>1, QueueTail
  <2> HIDE DEF p, q
  <2>5. Forgets42(f)
    BY <1>1, <1>4, <2>3, <2>4, HandleAckForgets
  <2> HIDE DEF f
  <2> QED BY <1>7, <1>10, <2>1, <2>5
<1>18. ASSUME NEW t \in 1..MaxFils, NEW k \in 0..taille-fils[t].lus, Serve!Envoi42(t, k)
       PROVE  FinOnTime /\ \A u \in 1..MaxFils : Forgets42(fils[u])'
  <2> DEFINE R == fils[t].reste \cup (fils[t].lus..fils[t].lus+k-1)
             b == fils[t].eof \/ Serve!Open42(fils[t], k)
             e == IF Serve!Ends42(b, R) THEN "fin" ELSE "attente"
             n == fils[t].lus + k
             f == [fils[t] EXCEPT !.lus = n, !.reste = R, !.eof = b, !.etat = e]
  <2>1. CASE ~existe /\ versClient' = versClient \cup {Serve!FIN(0)} /\ fils' = [fils EXCEPT ![t].etat = "fin"]
    <3>1. Len(ecrit) = taille
      BY <1>1, <1>3, <2>1 DEF FichierInv
    <3> QED BY <1>13, <2>1, <3>1 DEF FinOnTime
  <2>2. CASE /\ Serve!Open42(fils[t], k) => n = taille
             /\ versClient' = versClient \cup {Serve!Paquet(i) : i \in fils[t].lus..fils[t].lus+k-1}
                               \cup IF Serve!Ends42(b, R) THEN {Serve!FIN(taille)} ELSE {}
             /\ fils' = [fils EXCEPT ![t].lus = @ + k, ![t].reste = R, ![t].eof = b, ![t].etat = e]
    <3>1. /\ fils[t].lus \in Nat /\ fils[t].lus <= taille /\ (fils[t].eof => fils[t].lus = taille)
          /\ fils[t].base <= Len(ecrit)
          /\ \A i \in 0..fils[t].lus-1 : i \in fils[t].reste \/ i < Len(ecrit)
      BY <1>4 DEF Handler42, Handlers, Forgets42
    <3>2. \A i \in 0..n-1 : i \in R \/ i < Len(ecrit)
      BY <3>1
    <3>3. b => n = taille
      <4>1. taille \in Nat /\ k \in Nat /\ fils[t].lus + k <= taille
        BY <1>3, <3>1
      <4>2. CASE fils[t].eof
        BY <3>1, <4>1, <4>2
      <4> QED BY <2>2, <4>2
    <3>4. Serve!Ends42(b, R) => b /\ R = {}
      BY DEF Serve!Ends42
    <3>5. fils' = [fils EXCEPT ![t] = f]
      <4> HIDE DEF R, b, e
      <4> QED BY <1>2, <2>2
    <3>6. \A i \in fils[t].lus..fils[t].lus+k-1 : i < taille
      BY <1>3, <3>1
    <3> HIDE DEF R, b, n, e
    <3>7. Serve!Ends42(b, R) => Len(ecrit) = taille
      <4> SUFFICES ASSUME Serve!Ends42(b, R) PROVE Len(ecrit) = taille
        OBVIOUS
      <4>1. \A i \in 0..taille-1 : i < Len(ecrit)
        BY <3>2, <3>3, <3>4
      <4>2. taille > 0 => taille - 1 < Len(ecrit)
        BY <1>3, <4>1
      <4> QED BY <1>3, <4>2
    <3>8. FinOnTime
      BY <2>2, <3>6, <3>7, NotFin DEF FinOnTime
    <3>9. f.base = fils[t].base /\ f.lus = n /\ f.reste = R
      BY <1>4 DEF Handlers
    <3> HIDE DEF f
    <3>10. Forgets42(f)
      BY <3>1, <3>2, <3>9 DEF Forgets42
    <3> QED BY <1>7, <3>5, <3>8, <3>10
  <2> QED BY <1>18, <2>1, <2>2 DEF Serve!Envoi42, Serve!Envoie
<1> QED BY <1>11, <1>12, <1>14, <1>15, <1>16, <1>17, <1>18 DEF Server42Step, PeerServer

(* Group 20's server: the end packet has the number of the last packet      *)
(* acknowledged, which is the length of the file only when all of it is     *)
(* written.                                                                 *)
LEMMA Delivery20 ==
  ASSUME Integrity, Delivery,
         \/ Server20Step
         \/ PeerServer(20, Serve!Nouveau20 \/ Serve!Depose20(Serve!GET, 0))
         \/ \E m \in versServeur : PeerServer(20, Serve!Depose20(m, Window(m)))
  PROVE  Delivery'
<1> USE InteropAssumption
<1>1. /\ FichierInv /\ EcritInv /\ FilsInv /\ duo[1] = 20
      /\ UNCHANGED <<duo, serveur, client>> /\ Serve!Repos
  BY DEF Integrity, Server20Step, PeerServer, Serve!Nouveau20, Serve!Depose20, Serve!Debut20,
         Serve!Envoi20, Serve!Attente20
<1>2. UNCHANGED <<duo, existe, taille, ecrit>>
  BY <1>1 DEF client, Serve!Repos
<1>3. /\ Len(ecrit) \in Nat /\ taille \in Nat /\ Len(ecrit) <= taille /\ taille < SeqMod
      /\ fils[1] \in Handlers /\ Handler20(fils[1])
  BY <1>1, LenProperties DEF EcritInv, FichierInv, FilsInv
<1>4. SUFFICES FinOnTime
  BY <1>1, <1>2, FinFrame DEF Delivery
<1>5. CASE versClient' = versClient
  BY <1>5 DEF FinOnTime
<1>6. CASE Serve!Debut20
  <2>1. versClient' = versClient \cup {IF existe THEN Serve!CONN ELSE Serve!FIN(0)}
    BY <1>6 DEF Serve!Debut20, Serve!Envoie
  <2>2. ~existe => Len(ecrit) = taille
    BY <1>1, <1>3 DEF FichierInv
  <2> QED BY <2>1, <2>2, NotFin DEF FinOnTime
<1>7. CASE Serve!Envoi20
  <2> DEFINE b == fils[1].base
             B == Serve!Blocs20(fils[1])
  <2>1. b \in Nat /\ b <= Len(ecrit)
    BY <1>3 DEF Handlers, Handler20
  <2>2. \A i \in B : i < taille
    BY <1>3, <2>1 DEF Serve!Blocs20
  <2>3. versClient' = versClient \cup {Serve!FIN(b)} \/ versClient' = versClient \cup {Serve!Paquet(i) : i \in B}
    BY <1>7 DEF Serve!Envoi20, Serve!Envoie
  <2> HIDE DEF b, B
  <2>4. CASE versClient' = versClient \cup {Serve!Paquet(i) : i \in B}
    BY <2>2, <2>4, NotFin DEF FinOnTime
  <2>5. CASE versClient' = versClient \cup {Serve!FIN(b)}
    <3>1. b \in Seqnums /\ taille \in Seqnums
      BY <1>3, <2>1 DEF Seqnums
    <3>2. b % SeqMod = b /\ taille % SeqMod = taille
      BY <3>1, Numbers
    <3>3. Serve!FIN(b) = Ours!FIN(taille) => b = taille
      BY <3>2 DEF Serve!FIN, Ours!FIN
    <3>4. Serve!FIN(b) = Ours!FIN(taille) => Len(ecrit) = taille
      BY <1>3, <2>1, <3>3
    <3> QED BY <2>5, <3>4 DEF FinOnTime
  <2> QED BY <2>3, <2>4, <2>5
<1>8. Serve!Attente20 \/ Serve!Nouveau20 \/ (\E m, w : Serve!Depose20(m, w)) => versClient' = versClient
  BY DEF Serve!Attente20, Serve!Nouveau20, Serve!Depose20
<1> QED BY <1>5, <1>6, <1>7, <1>8 DEF Server20Step, PeerServer

(* A loss, or a step that changes nothing.                                  *)
LEMMA DeliveryFrame ==
  ASSUME Delivery, versClient' \subseteq versClient,
         UNCHANGED <<duo, taille, ecrit, buffer, base, lus, memoire, fin_envoye, fils>>
  PROVE  Delivery'
<1>1. \A s : Held(s) => Held(s)'
  BY DEF Held
<1>2. FinMeansDelivered'
  BY FinFrame DEF Delivery, FinOnTime
<1>3. duo[1] = 0 => OursForgets'
  BY <1>1 DEF Delivery, OursForgets
<1>4. \A t : (Forgets42(fils[t]) => Forgets42(fils[t])') /\ (Forgets61(fils[t]) => Forgets61(fils[t])')
  BY DEF Forgets42, Forgets61
<1> QED BY <1>2, <1>3, <1>4 DEF Delivery

(* At the start nothing is read, and nothing is sent but the request.       *)
LEMMA InitDelivery == Init => Delivery
<1> SUFFICES ASSUME Init PROVE Delivery
  OBVIOUS
<1> USE InteropAssumption
<1>1. /\ ecrit = <<>> /\ base = 0 /\ lus = 0 /\ ~fin_envoye /\ versClient = {}
      /\ fils = [t \in 1..MaxFils |-> Serve!Libre]
  BY DEF Init, Ours!Init
<1>2. Len(ecrit) = 0
  BY <1>1
<1>3. OursForgets
  BY <1>1, <1>2 DEF OursForgets
<1>4. Forgets42(Serve!Libre) /\ Forgets61(Serve!Libre)
  BY <1>2 DEF Forgets42, Forgets61, Serve!Libre
<1> QED BY <1>1, <1>3, <1>4 DEF Delivery, FinMeansDelivered

(* Delivery is preserved, with Integrity.                                   *)
LEMMA DeliveryStep ==
  ASSUME Short20, ShortHalf, Integrity, Delivery, [Next]_vars
  PROVE  Delivery'
<1>0. duo[1] \in {0, 42} => MaxMorceaux < HalfMod
  BY DEF ShortHalf, Integrity, FichierInv
<1>1. CASE OurLoop \/ Server61Timeout \/ Server20Step \/ \E t \in 1..MaxFils : Server42Step(t)
  <2>1. OurLoop \/ (\E t \in 1..MaxFils : Server42Step(t)) => duo[1] \in {0, 42}
    BY DEF OurLoop, OurServer, Server42Step, PeerServer
  <2> QED BY <1>0, <1>1, <2>1, OurDelivery, Delivery61, Delivery20, Delivery42
<1>2. CASE RecvGet
  <2>1. CASE OurServer(OurRecvGet)
    BY <1>0, <2>1, OurDelivery DEF OurServer
  <2>2. CASE PeerServer(61, Serve!Nouveau61(Request))
    BY <2>2, Delivery61
  <2>3. CASE PeerServer(42, \E t \in 1..MaxFils : Serve!Nouveau42(t, Request))
    <3>1. \E t \in 1..MaxFils : PeerServer(42, Serve!Nouveau42(t, Request))
      BY <2>3 DEF PeerServer
    <3> QED BY <1>0, <2>3, <3>1, Delivery42 DEF PeerServer
  <2>4. CASE PeerServer(20, Serve!Nouveau20 \/ Serve!Depose20(Serve!GET, 0))
    BY <2>4, Delivery20
  <2> QED BY <1>2, <2>1, <2>2, <2>3, <2>4 DEF RecvGet
<1>3. ASSUME NEW m \in versServeur, RecvAck(m) PROVE Delivery'
  <2>1. CASE OurServer(OurRecvAck(m))
    BY <1>0, <2>1, OurDelivery DEF OurServer
  <2>2. CASE m.type # "GET" /\ PeerServer(42, Serve!Depose42(m, Window(m)))
    <3>1. duo[1] = 42
      BY <2>2 DEF PeerServer
    <3> QED BY <1>0, <2>2, <3>1, Delivery42
  <2> QED BY <1>3, <2>1, <2>2, Delivery61, Delivery20 DEF RecvAck
<1>4. CASE (\E m \in versClient : RecvData(m)) \/ RecvConn \/ ClientTurn \/ ClientProcess
  BY <1>4, ClientActions, ClientDelivery
<1>5. CASE Ours!NetLose /\ UNCHANGED <<duo, remote_window, pairs>>
  BY <1>5, DeliveryFrame DEF Ours!NetLose, Ours!fichier, Ours!etat, Ours!client, pairs, Ours!reception
<1>6. CASE UNCHANGED vars
  BY <1>6, DeliveryFrame DEF vars, serveur, pairs, client
<1> QED BY <1>1, <1>2, <1>3, <1>4, <1>5, <1>6 DEF Next

(* Delivery, in every behaviour.                                            *)
LEMMA AlwaysDelivery ==
  ASSUME Short20, ShortHalf
  PROVE  Spec => [](Integrity /\ Delivery)
<1>1. Init => Integrity /\ Delivery
  BY InitIntegrity, InitDelivery
<1>2. Integrity /\ Delivery /\ [Next]_vars => (Integrity /\ Delivery)'
  BY IntegrityStep, DeliveryStep
<1> QED BY <1>1, <1>2, PTL DEF Spec

(* Our server, group 20's and group 42's send the end packet that carries   *)
(* the length of the file only when the client, whichever it is, has        *)
(* written all of it.  The files of our server and of 42's have less than   *)
(* half as many morceaux as there are sequence numbers, so that their tests *)
(* on the age of an acknowledgement are right.                              *)
THEOREM InteropFinMeansDelivered ==
  ASSUME Short20, ShortHalf
  PROVE  Spec => []FinMeansDelivered
<1>1. Spec => [](Integrity /\ Delivery)
  BY AlwaysDelivery
<1>2. Delivery => FinMeansDelivered
  BY DEF Delivery
<1> QED BY <1>1, <1>2, PTL

(* What a peer's server deletes from its memory, or reads past, is written  *)
(* by the client, whichever it is, in spite of late and duplicated          *)
(* acknowledgements and of those queued for another handler.                *)
THEOREM InteropForgottenMeansWritten ==
  ASSUME Short20, ShortHalf
  PROVE  Spec => []ForgottenMeansWritten
<1>1. Spec => [](Integrity /\ Delivery)
  BY AlwaysDelivery
<1>2. Integrity /\ Delivery => ForgottenMeansWritten
  <2> SUFFICES ASSUME Integrity, Delivery, NEW t \in 1..MaxFils, NEW i \in Oublies(fils[t])
               PROVE  i < Len(ecrit)
    BY DEF ForgottenMeansWritten
  <2>1. Len(ecrit) \in Nat /\ taille \in Nat /\ fils[t].base \in Nat
    BY LenProperties DEF Integrity, EcritInv, FichierInv, FilsInv, Handlers
  <2>2. CASE duo[1] = 61
    BY <2>2 DEF Oublies, Delivery, Forgets61
  <2>3. CASE duo[1] = 42
    BY <2>3 DEF Oublies, Delivery, Forgets42
  <2>4. CASE duo[1] = 20
    <3>1. fils[t].base <= Len(ecrit) /\ i \in 0..fils[t].base-1
      BY <2>4 DEF Oublies, Integrity, FilsInv, Handler20
    <3> QED BY <2>1, <3>1
  <2> QED BY <2>2, <2>3, <2>4 DEF Oublies
<1> QED BY <1>1, <1>2, PTL
-----------------------------------------------------------------------------
(* Whichever two programs meet, they implement FileTransfer.                *)

(* A client that has not been answered has written nothing; group 61's      *)
(* never gives up, and takes a packet for an answer.                        *)
Unanswered == duo[2] # 61 /\ ~demarre => ecrit = <<>>

(* What the user sees of a step of a client's loop: nothing happens after   *)
(* its end, and each way of ending it has its occasion.                     *)
Ending ==
  /\ pc # "run" => UNCHANGED <<pc, ecrit>>
  /\ pc' # pc => \/ pc' \in {"done", "crash"}
                 \/ pc' = "silence" /\ ecrit' = ecrit
                 \/ pc' = "abandon" /\ ecrit' = ecrit /\ ecrit = <<>>

(* The save file is FileTransfer's extract of the file.                     *)
LEMMA WrittenExtrait ==
  ASSUME EcritInv
  PROVE  ecrit = Abstract!Extrait(Len(ecrit))
<1>1. ecrit \in [1..Len(ecrit) -> Nat]
  BY LenProperties DEF EcritInv
<1>2. \A i \in 1..Len(ecrit) : ecrit[i] = i - 1
  BY DEF EcritInv
<1> QED BY <1>1, <1>2 DEF Abstract!Extrait

(* A step that lengthens the file and ends the client on an occasion is one *)
(* of FileTransfer, or is nothing to it.                                    *)
LEMMA AbstractStep ==
  ASSUME FichierInv, EcritInv, EcritInv', Grows, Ending
  PROVE  [Abstract!ANext]_Abstract!avars
<1>1. /\ taille' = taille /\ taille \in Nat
      /\ Len(ecrit) \in Nat /\ Len(ecrit') \in Nat
      /\ Len(ecrit) <= Len(ecrit') /\ Len(ecrit') <= taille
  BY LenProperties DEF FichierInv, EcritInv, Grows
<1>2. ecrit = Abstract!Extrait(Len(ecrit)) /\ ecrit' = Abstract!Extrait(Len(ecrit'))
  <2>1. ecrit' \in [1..Len(ecrit') -> Nat]
    BY LenProperties DEF EcritInv
  <2>2. \A i \in 1..Len(ecrit') : ecrit'[i] = i - 1
    BY DEF EcritInv
  <2>3. ecrit' = Abstract!Extrait(Len(ecrit'))
    BY <2>1, <2>2 DEF Abstract!Extrait
  <2> QED BY <2>3, WrittenExtrait
<1>3. CASE pc' = "done" /\ pc' # pc
  <2>1. pc = "run" /\ Len(ecrit') = taille
    BY <1>1, <1>3 DEF Ending, EcritInv
  <2> QED BY <1>1, <1>2, <1>3, <2>1 DEF Abstract!ANext, Abstract!Finish
<1>4. CASE pc' \notin {"done", "crash"} /\ pc' # pc
  <2>1. pc = "run"
    BY <1>4 DEF Ending
  <2> QED BY <1>1, <1>4, <2>1
          DEF Ending, Abstract!ANext, Abstract!Interrupt, Abstract!GiveUp
<1>5. CASE pc' = "crash" /\ pc' # pc
  <2>1. pc = "run" /\ Len(ecrit') \in Len(ecrit)..taille
    BY <1>1, <1>5 DEF Ending
  <2> QED BY <1>1, <1>2, <1>5, <2>1 DEF Abstract!ANext, Abstract!Fail
<1>6. CASE pc' = pc /\ Len(ecrit') = Len(ecrit)
  BY <1>1, <1>2, <1>6 DEF Abstract!avars
<1>7. CASE pc' = pc /\ Len(ecrit') # Len(ecrit)
  <2>1. pc = "run"
    BY <1>7 DEF Ending
  <2>2. Len(ecrit') \in Len(ecrit)+1..taille
    BY <1>1, <1>7
  <2> QED BY <1>1, <1>2, <1>7, <2>1, <2>2 DEF Abstract!ANext, Abstract!Deliver
<1> QED BY <1>3, <1>4, <1>5, <1>6, <1>7

(* Our client's steps.                                                      *)
LEMMA OurClientEnding ==
  ASSUME Unanswered,
         \/ \E m \in versClient :
              OurClient(Ours!ClientRecvData(m)) \/ OurClient(Ours!ClientRecvFin(m))
         \/ OurClient(Ours!ClientRecvOther) \/ OurClient(Ours!ClientTimeout)
  PROVE  Ending /\ Unanswered'
<1>1. ASSUME NEW m \in versClient, OurClient(Ours!ClientRecvData(m))
      PROVE  Ending /\ Unanswered'
  <2>1. pc = "run" /\ demarre' /\ pc' \in {pc, "crash"}
    BY <1>1 DEF OurClient, Ours!ClientRecvData, Ours!Acknowledge
  <2> QED BY <2>1 DEF Ending, Unanswered
<1>2. CASE \/ \E m \in versClient : OurClient(Ours!ClientRecvFin(m))
           \/ OurClient(Ours!ClientRecvOther)
  <2>1. UNCHANGED <<duo, ecrit, demarre>> /\ pc = "run" /\ pc' \in {pc, "done"}
    BY <1>2 DEF OurClient, Ours!ClientRecvFin, Ours!ClientRecvOther, Ours!reception
  <2> QED BY <2>1 DEF Ending, Unanswered
<1>3. CASE OurClient(Ours!ClientTimeout)
  <2>1. /\ UNCHANGED <<duo, ecrit, demarre>> /\ pc = "run" /\ duo[2] = 0
        /\ pc' = pc \/ (pc' = "abandon" /\ ~demarre)
    BY <1>3 DEF OurClient, Ours!ClientTimeout, Ours!reception, Ours!Waiting
  <2> QED BY <2>1 DEF Ending, Unanswered
<1> QED BY <1>1, <1>2, <1>3

(* Group 61's client only ends on an end packet.                            *)
LEMMA Ending61 ==
  ASSUME \/ \E m \in versClient : PeerClient(61, Peer!Client61Recv(m))
         \/ PeerClient(61, Peer!Client61Conn) \/ PeerClient(61, Peer!Client61Turn)
  PROVE  Ending /\ Unanswered'
<1>1. pc = "run" /\ pc' \in {pc, "done"} /\ duo[2] = 61 /\ duo' = duo
  BY DEF PeerClient, Peer!Client61Recv, Peer!AddPacket61, Peer!Refuse61,
         Peer!Client61Conn, Peer!Client61Turn
<1> QED BY <1>1 DEF Ending, Unanswered

(* Group 42's client writes in recv_file only, and gives up before it.      *)
LEMMA Ending42 ==
  ASSUME Unanswered,
         \/ \E m \in versClient : PeerClient(42, Peer!Client42Recv(m))
         \/ PeerClient(42, Peer!Client42Try \/ Peer!Client42Timeout)
  PROVE  Ending /\ Unanswered'
<1>1. CASE \E m \in versClient : PeerClient(42, Peer!Client42Recv(m))
  <2>1. pc = "run" /\ pc' \in {pc, "done"} /\ demarre'
    BY <1>1 DEF PeerClient, Peer!Client42Recv
  <2> QED BY <2>1 DEF Ending, Unanswered
<1>2. CASE PeerClient(42, Peer!Client42Try)
  <2>1. /\ UNCHANGED <<duo, ecrit, demarre>> /\ pc = "run" /\ pc' \in {pc, "abandon"}
        /\ ~demarre /\ duo[2] = 42
    BY <1>2 DEF PeerClient, Peer!Client42Try, Peer!ecriture
  <2> QED BY <2>1 DEF Ending, Unanswered
<1>3. CASE PeerClient(42, Peer!Client42Timeout)
  <2>1. UNCHANGED <<duo, ecrit, demarre>> /\ pc = "run" /\ pc' \in {pc, "silence"}
    BY <1>3 DEF PeerClient, Peer!Client42Timeout, Peer!ClientSilence, Peer!ecriture
  <2> QED BY <2>1 DEF Ending, Unanswered
<1> QED BY <1>1, <1>2, <1>3 DEF PeerClient

(* Group 20's client writes once it is connected, and gives up before.      *)
LEMMA Ending20 ==
  ASSUME Unanswered,
         \/ \E m \in versClient : PeerClient(20, Peer!Client20Recv(m))
         \/ PeerClient(20, Peer!Client20Conn)
         \/ PeerClient(20, Peer!Client20Try \/ Peer!Client20Timeout)
         \/ PeerClient(20, Peer!Client20Process)
  PROVE  Ending /\ Unanswered'
<1>1. CASE \/ \E m \in versClient : PeerClient(20, Peer!Client20Recv(m))
           \/ PeerClient(20, Peer!Client20Conn)
  <2>1. UNCHANGED <<duo, ecrit, pc>> /\ pc = "run" /\ (demarre => demarre')
    BY <1>1 DEF PeerClient, Peer!Client20Recv, Peer!Client20Conn, Peer!ecriture
  <2> QED BY <2>1 DEF Ending, Unanswered
<1>2. CASE PeerClient(20, Peer!Client20Try)
  <2>1. /\ UNCHANGED <<duo, ecrit, demarre>> /\ pc = "run" /\ pc' \in {pc, "abandon"}
        /\ ~demarre /\ duo[2] = 20
    BY <1>2 DEF PeerClient, Peer!Client20Try, Peer!ecriture
  <2> QED BY <2>1 DEF Ending, Unanswered
<1>3. CASE PeerClient(20, Peer!Client20Timeout)
  <2>1. UNCHANGED <<duo, ecrit, demarre>> /\ pc = "run" /\ pc' \in {pc, "silence"}
    BY <1>3 DEF PeerClient, Peer!Client20Timeout, Peer!ClientSilence, Peer!ecriture
  <2> QED BY <2>1 DEF Ending, Unanswered
<1>4. CASE PeerClient(20, Peer!Client20Process)
  <2>1. pc = "run" /\ pc' \in {pc, "done"} /\ demarre /\ demarre' = demarre
    BY <1>4 DEF PeerClient, Peer!Client20Process
  <2> QED BY <2>1 DEF Ending, Unanswered
<1> QED BY <1>1, <1>2, <1>3, <1>4 DEF PeerClient

(* The servers and the network leave the client alone.                      *)
LEMMA OthersLeaveClient ==
  ASSUME \/ OurLoop \/ Server61Timeout \/ Server20Step \/ \E t \in 1..MaxFils : Server42Step(t)
         \/ RecvGet \/ (\E m \in versServeur : RecvAck(m))
         \/ Ours!NetLose /\ UNCHANGED <<duo, remote_window, pairs>>
         \/ UNCHANGED vars
  PROVE  UNCHANGED <<duo, taille, pc, ecrit, demarre>>
<1>1. CASE OurLoop \/ OurServer(OurRecvGet) \/ \E m \in versServeur : OurServer(OurRecvAck(m))
  <2>1. CASE OurServer(\/ Ours!SrvRecvNothing \/ Ours!SrvPumpNobody)
    BY <2>1 DEF OurServer, Ours!SrvRecvNothing, Ours!SrvPumpNobody, Ours!fichier,
                Ours!client, Ours!reception
  <2>2. CASE OurServer(Ours!SrvPumpSome(remote_window))
    BY <2>2 DEF OurServer, Ours!SrvPumpSome, Ours!SrvPump, Ours!fichier, Ours!client,
                Ours!reception
  <2>3. CASE OurServer(OurRecvGet)
    BY <2>3 DEF OurServer, OurRecvGet, Ours!SrvRecvGet, Ours!fichier, Ours!client,
                Ours!reception
  <2>4. CASE \E m \in versServeur : OurServer(OurRecvAck(m))
    BY <2>4 DEF OurServer, OurRecvAck, Ours!SrvRecvAck, Ours!fichier, Ours!client,
                Ours!reception
  <2> QED BY <1>1, <2>1, <2>2, <2>3, <2>4 DEF OurLoop, OurServer
<1>2. CASE UNCHANGED <<duo, client>> /\ Serve!Repos
  BY <1>2 DEF client, Serve!Repos
<1>3. CASE Server61Timeout
  BY <1>2, <1>3 DEF Server61Timeout, PeerServer, Serve!Timeout61
<1>4. CASE Server20Step
  BY <1>2, <1>4 DEF Server20Step, PeerServer, Serve!Debut20, Serve!Envoi20, Serve!Attente20
<1>5. ASSUME NEW t \in 1..MaxFils, Server42Step(t)
      PROVE  UNCHANGED <<duo, taille, pc, ecrit, demarre>>
  BY <1>2, <1>5 DEF Server42Step, PeerServer, Serve!Enregistre42, Serve!Envoi42, Serve!Lit42,
                    Serve!Attente42, Serve!Ferme42
<1>6. CASE RecvGet
  BY <1>1, <1>2, <1>6 DEF RecvGet, PeerServer, Serve!Nouveau61, Serve!Nouveau42,
                          Serve!Nouveau20, Serve!Depose20
<1>7. ASSUME NEW m \in versServeur, RecvAck(m)
      PROVE  UNCHANGED <<duo, taille, pc, ecrit, demarre>>
  BY <1>1, <1>2, <1>7 DEF RecvAck, PeerServer, Serve!RecvAck61, Serve!Depose42, Serve!Depose20
<1>8. CASE Ours!NetLose /\ UNCHANGED <<duo, remote_window, pairs>>
  BY <1>8 DEF Ours!NetLose, Ours!fichier, Ours!client, Ours!reception
<1>9. CASE UNCHANGED vars
  BY <1>9 DEF vars, client
<1> QED BY <1>1, <1>3, <1>4, <1>5, <1>6, <1>7, <1>8, <1>9

(* Every step is one of FileTransfer's, or none.                            *)
LEMMA RefinementStep ==
  ASSUME Short20, Integrity, Unanswered, [Next]_vars
  PROVE  [Abstract!ANext]_Abstract!avars /\ Unanswered'
<1>1. Integrity'
  BY IntegrityStep
<1>2. CASE (\E m \in versClient : RecvData(m)) \/ RecvConn \/ ClientTurn \/ ClientProcess
  <2>1. Grows
    BY <1>2, ClientActions DEF ClientStep
  <2>2. Ending /\ Unanswered'
    <3>1. ASSUME NEW m \in versClient, RecvData(m) PROVE Ending /\ Unanswered'
      BY <1>1, <3>1, OurClientEnding, Ending61, Ending42, Ending20 DEF RecvData, OurClient
    <3>2. CASE RecvConn
      BY <1>1, <3>2, OurClientEnding, Ending61, Ending20 DEF RecvConn
    <3>3. CASE ClientTurn
      BY <1>1, <3>3, OurClientEnding, Ending61, Ending42, Ending20 DEF ClientTurn
    <3>4. CASE ClientProcess
      BY <3>4, Ending20 DEF ClientProcess
    <3> QED BY <1>2, <3>1, <3>2, <3>3, <3>4
  <2>3. FichierInv /\ EcritInv /\ EcritInv'
    BY <1>1 DEF Integrity
  <2> QED BY <2>1, <2>2, <2>3, AbstractStep
<1>3. CASE \/ OurLoop \/ Server61Timeout \/ Server20Step \/ \E t \in 1..MaxFils : Server42Step(t)
           \/ RecvGet \/ (\E m \in versServeur : RecvAck(m))
           \/ Ours!NetLose /\ UNCHANGED <<duo, remote_window, pairs>>
           \/ UNCHANGED vars
  <2>1. UNCHANGED <<duo, taille, pc, ecrit, demarre>>
    BY <1>3, OthersLeaveClient
  <2> QED BY <2>1 DEF Unanswered, Abstract!avars
<1> QED BY <1>2, <1>3 DEF Next

(* Any client and any server of the four groups, with the network between   *)
(* them, implement the file transfer our own pair implements: what the user *)
(* finds is at all times the beginning of the file, all of it when the      *)
(* client says so, and nothing of it when the client got no answer.         *)
THEOREM InteropRefinement ==
  ASSUME Short20
  PROVE  Spec => RefinesFileTransfer
<1>1. Init => Integrity /\ Unanswered
  BY InitIntegrity DEF Init, Ours!Init, Unanswered
<1>2. Integrity /\ Unanswered /\ [Next]_vars => (Integrity /\ Unanswered)'
  BY IntegrityStep, RefinementStep
<1>3. Init => Abstract!AInit
  BY InteropAssumption DEF Init, Ours!Init, Abstract!AInit
<1>4. Integrity /\ Unanswered /\ [Next]_vars => [Abstract!ANext]_Abstract!avars
  BY RefinementStep
<1> QED BY <1>1, <1>2, <1>3, <1>4, PTL DEF Spec, RefinesFileTransfer, Abstract!ASpec
=============================================================================
