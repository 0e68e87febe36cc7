------------------------- MODULE SrtpTransferProofs -------------------------
(***************************************************************************)
(* Theorems about SrtpTransfer for every value of its constants.           *)
(***************************************************************************)
EXTENDS SrtpTransfer, FiniteSetTheorems, SequenceTheorems, TLAPS

-----------------------------------------------------------------------------
(* Sequence number arithmetic.                                              *)

(* What `% 2048' returns is a sequence number.                              *)
LEMMA ModRange ==
  ASSUME NEW M \in Nat \ {0}, NEW x \in Int
  PROVE  x % M \in 0..M-1
OBVIOUS

(* `% 2048' does not change a number that is already a sequence number.     *)
LEMMA ModSmall ==
  ASSUME NEW M \in Nat \ {0}, NEW x \in 0..M-1
  PROVE  x % M = x
OBVIOUS

(* The distance `(seqnum - base) % 2048' between two sequence numbers.      *)
LEMMA ModDistance ==
  ASSUME NEW M \in Nat \ {0}, NEW a \in 0..M-1, NEW b \in 0..M-1
  PROVE  (a - b) % M = IF a >= b THEN a - b ELSE a - b + M
OBVIOUS

(* The sequence numbers of the model are those arithmetic yields.           *)
LEMMA ModSeqnum ==
  /\ SeqMod \in Nat \ {0} /\ HalfMod \in Nat \ {0} /\ 0 \in Seqnums
  /\ \A x \in Int : x % SeqMod \in Seqnums
BY ConstantsAssumption, ModRange DEF Seqnums

-----------------------------------------------------------------------------
(* Type correctness.                                                        *)

(* The packets the server and the client build are packets.                 *)
LEMMA PacketTypes ==
  /\ \A i \in Morceaux : DATA(i) \in DataPackets
  /\ \A n \in Nat : FIN(n) \in FinPackets
  /\ \A t \in {"ACK", "SACK"}, n \in Seqnums, S \in SUBSET Seqnums :
        ACK(t, n, S) \in AckPackets
BY ModSeqnum, ConstantsAssumption
   DEF DATA, FIN, ACK, DataPackets, FinPackets, AckPackets, Morceaux

(* The empty dictionary.                                                    *)
LEMMA EmptyType ==
  DOMAIN Empty = {} /\ Empty \in [DOMAIN Empty -> Morceaux]
BY DEF Empty

(* The fields of a new or deleted entry are typed.                          *)
LEMMA FreshType ==
  ASSUME NEW s \in BOOLEAN, FreshEtat(s), taille' \in Nat
  PROVE  /\ session' \in BOOLEAN /\ fini' \in BOOLEAN /\ fin_envoye' \in BOOLEAN
         /\ base' \in Seqnums /\ lus' \in 0..taille'
         /\ DOMAIN memoire' \subseteq Seqnums /\ memoire' \in [DOMAIN memoire' -> Morceaux]
<1>1. memoire' = Empty /\ base' = 0 /\ lus' = 0
  BY DEF FreshEtat
<1>2. session' \in BOOLEAN /\ fini' \in BOOLEAN /\ fin_envoye' \in BOOLEAN
  BY DEF FreshEtat
<1> QED BY <1>1, <1>2, EmptyType, ModSeqnum

(* The written file stays a sequence of morceaux.                           *)
LEMMA InSequenceType ==
  ASSUME TypeOK, NEW m \in DataPackets, NEW k \in 0..SeqMod-1, InSequence(m, k)
  PROVE  /\ ecrit' \in Seq(Morceaux) /\ attendu' \in Seqnums
         /\ DOMAIN buffer' \subseteq Seqnums
         /\ buffer' \in [DOMAIN buffer' -> Morceaux]
         /\ apres_zero' \subseteq DOMAIN buffer'
<1> DEFINE tail == [j \in 1..k+1 |->
                      IF j = 1 THEN m.morceau ELSE buffer[Suivant(j - 1)]]
           vides == {Suivant(j) : j \in 1..k}
<1>1. m.morceau \in Morceaux
  BY DEF DataPackets
<1>2. \A j \in 1..k+1 : tail[j] \in Morceaux
  <2>1. \A j \in 2..k+1 : Suivant(j - 1) \in DOMAIN buffer
    BY DEF InSequence
  <2> QED BY <1>1, <2>1 DEF TypeOK
<1>3. tail \in Seq(Morceaux)
  BY <1>2, SeqDef
<1>4. ecrit' = ecrit \o tail
  BY DEF InSequence
<1>5. ecrit' \in Seq(Morceaux)
  BY <1>3, <1>4, ConcatProperties DEF TypeOK
<1>6. attendu' \in Seqnums
  <2>1. attendu + (k + 1) \in Int
    BY DEF TypeOK, Seqnums
  <2>2. attendu' = (attendu + (k + 1)) % SeqMod
    BY DEF InSequence, Suivant
  <2> QED BY <2>1, <2>2, ModSeqnum
<1>7. buffer' = Without(buffer, vides)
  BY DEF InSequence
<1>8. DOMAIN buffer' = DOMAIN buffer \ vides
  BY <1>7 DEF Without
<1>9. /\ DOMAIN buffer' \subseteq Seqnums
      /\ buffer' \in [DOMAIN buffer' -> Morceaux]
  BY <1>7, <1>8 DEF Without, TypeOK
<1>10. apres_zero' \subseteq DOMAIN buffer'
  BY <1>8 DEF InSequence, TypeOK
<1> QED BY <1>5, <1>6, <1>9, <1>10

(* Buffering a packet (client.py's else branch) keeps the types. *)
LEMMA OutOfSequenceType ==
  ASSUME TypeOK, NEW m \in DataPackets, OutOfSequence(m)
  PROVE  /\ ecrit' \in Seq(Morceaux) /\ attendu' \in Seqnums
         /\ DOMAIN buffer' \subseteq Seqnums
         /\ buffer' \in [DOMAIN buffer' -> Morceaux]
         /\ apres_zero' \subseteq DOMAIN buffer'
<1>1. m.seqnum \in Seqnums /\ m.morceau \in Morceaux
  BY DEF DataPackets
<1>2. DOMAIN buffer' = DOMAIN buffer \cup {m.seqnum}
  BY DEF OutOfSequence
<1> QED BY <1>1, <1>2 DEF OutOfSequence, TypeOK

(* The state in which the client has just sent its request is well typed. *)
LEMMA TypeInit == Init => TypeOK
<1> SUFFICES ASSUME Init PROVE TypeOK
  OBVIOUS
<1>1. taille \in 0..MaxMorceaux /\ (~existe => taille = 0)
  BY ConstantsAssumption DEF Init
<1>2. ecrit \in Seq(Morceaux)
  BY EmptySeq DEF Init
<1>3. /\ base \in Seqnums /\ lus \in 0..taille /\ attendu \in Seqnums
      /\ essais \in 0..MaxGet+1 /\ essais <= MaxGet
  BY <1>1, ConstantsAssumption, ModSeqnum DEF Init
<1>4. /\ DOMAIN memoire \subseteq Seqnums /\ memoire \in [DOMAIN memoire -> Morceaux]
      /\ DOMAIN buffer \subseteq Seqnums /\ buffer \in [DOMAIN buffer -> Morceaux]
      /\ apres_zero \subseteq DOMAIN buffer
  BY EmptyType DEF Init
<1> QED BY <1>1, <1>2, <1>3, <1>4 DEF Init, TypeOK

(* Every step of client, server and network keeps the types. *)
LEMMA TypeStep ==
  ASSUME TypeOK, [Next]_vars
  PROVE  TypeOK'
<1> USE ConstantsAssumption
<1>1. CASE SrvRecvGet
  <2>1. FIN(0) \in FinPackets
    BY PacketTypes
  <2>2. CASE session
    BY <1>1, <2>2 DEF SrvRecvGet, TypeOK, etat, client, reception, fichier
  <2>3. CASE ~session /\ existe
    <3>1. /\ FreshEtat(TRUE) /\ phase' = "pump" /\ UNCHANGED <<fichier, client, versServeur>>
          /\ versClient' = versClient \cup {CONN}
      BY <1>1, <2>3 DEF SrvRecvGet
    <3>2. taille' \in Nat
      BY <3>1 DEF TypeOK, fichier
    <3> QED BY <3>1, <3>2, FreshType DEF TypeOK, client, reception, fichier
  <2>4. CASE ~session /\ ~existe
    BY <1>1, <2>4, <2>1 DEF SrvRecvGet, TypeOK, etat, client, reception, fichier
  <2> QED BY <2>2, <2>3, <2>4
<1>2. ASSUME NEW m \in versServeur, SrvRecvAck(m) PROVE TypeOK'
  <2>1. m \in AckPackets /\ m.seqnum \in Seqnums
    BY <1>2 DEF SrvRecvAck, TypeOK, AckPackets, GET
  <2>2. CASE ~session
    BY <1>2, <2>2 DEF SrvRecvAck, TypeOK, etat, client, reception, fichier
  <2>3. CASE session
    <3>1. /\ DOMAIN memoire' \subseteq Seqnums
          /\ memoire' \in [DOMAIN memoire' -> Morceaux]
      BY <1>2, <2>3 DEF SrvRecvAck, TypeOK, Without
    <3> QED BY <1>2, <2>1, <2>3, <3>1 DEF SrvRecvAck, TypeOK, client, reception, fichier
  <2> QED BY <2>2, <2>3
<1>3. CASE SrvRecvNothing
  BY <1>3 DEF SrvRecvNothing, TypeOK, etat, client, reception, fichier
<1>4. CASE SrvPumpSome(Fenetre)
  <2>1. PICK k \in 0..taille-lus, expires \in SUBSET DOMAIN memoire,
             silence \in BOOLEAN, trois \in BOOLEAN :
               SrvPump(Fenetre, k, expires, silence, trois)
    BY <1>4 DEF SrvPumpSome
  <2> DEFINE mem == MemoireAfter(k)
  <2>2. /\ DOMAIN mem \subseteq Seqnums /\ mem \in [DOMAIN mem -> Morceaux]
    <3>1. /\ lus \in Nat /\ lus + k <= MaxMorceaux
          /\ DOMAIN memoire \subseteq Seqnums /\ memoire \in [DOMAIN memoire -> Morceaux]
      BY DEF TypeOK
    <3>2. \A s \in Seqnums : Rang(s) \in Nat
      <4> SUFFICES ASSUME NEW s \in Seqnums PROVE Rang(s) \in Nat
        OBVIOUS
      <4>1. s - lus \in Int
        BY <3>1 DEF Seqnums
      <4>2. (s - lus) % SeqMod \in Seqnums
        BY <4>1, ModSeqnum
      <4> QED BY <4>2, ModSeqnum DEF Rang, Seqnums
    <3>3. KeysAfter(k) \subseteq Seqnums
      BY <3>1 DEF KeysAfter
    <3>4. \A s \in KeysAfter(k) : mem[s] \in Morceaux
      <4> SUFFICES ASSUME NEW s \in KeysAfter(k) PROVE mem[s] \in Morceaux
        OBVIOUS
      <4>1. Rang(s) < k => lus + Rang(s) \in Morceaux
        BY <3>1, <3>2, <3>3 DEF Morceaux
      <4>2. ~(Rang(s) < k) => memoire[s] \in Morceaux
        BY <3>1 DEF KeysAfter
      <4> QED BY <4>1, <4>2 DEF MemoireAfter
    <3> QED BY <3>3, <3>4 DEF MemoireAfter
  <2>3. versClient' \subseteq DataPackets \cup FinPackets \cup {CONN}
    <3>1. {DATA(i) : i \in lus..lus+k-1} \subseteq DataPackets
      <4>1. lus \in Nat /\ lus + k <= MaxMorceaux
        BY DEF TypeOK
      <4>2. \A i \in lus..lus+k-1 : i \in Morceaux
        BY <4>1 DEF Morceaux
      <4> QED BY <4>2, PacketTypes
    <3>2. Resends(mem, expires, silence) \subseteq DOMAIN mem
      BY DEF Resends, MemoireAfter, KeysAfter
    <3>3. {DATA(mem[s]) : s \in Resends(mem, expires, silence)} \subseteq DataPackets
      BY <3>2, <2>2, PacketTypes
    <3>4. FIN(lus + k) \in FinPackets
      <4>1. lus + k \in Nat
        BY DEF TypeOK
      <4> QED BY <4>1, PacketTypes
    <3> QED BY <2>1, <3>1, <3>3, <3>4 DEF SrvPump, TypeOK
  <2>4. CASE trois
    <3>1. FreshEtat(FALSE) /\ phase' = "recv" /\ UNCHANGED <<fichier, client, versServeur>>
      BY <2>1, <2>4 DEF SrvPump
    <3>2. taille' \in Nat
      BY <3>1 DEF TypeOK, fichier
    <3> QED BY <2>3, <3>1, <3>2, FreshType DEF TypeOK, client, reception, fichier
  <2>5. CASE ~trois
    <3>1. /\ lus' = lus + k /\ memoire' = mem /\ phase' = "recv"
          /\ UNCHANGED <<session, base, fichier, client, versServeur>>
          /\ fini' = (fini \/ Open(k, Fenetre))
          /\ fin_envoye' = (fin_envoye \/ Ends(mem, fini \/ Open(k, Fenetre)))
      BY <2>1, <2>5, Zenon DEF SrvPump
    <3>2. fini' \in BOOLEAN /\ fin_envoye' \in BOOLEAN
      BY <3>1, Zenon
    <3>3. lus' \in 0..taille /\ taille' = taille
      BY <3>1 DEF TypeOK, fichier
    <3> HIDE DEF mem
    <3>4. DOMAIN memoire' \subseteq Seqnums /\ memoire' \in [DOMAIN memoire' -> Morceaux]
      BY <2>2, <3>1, Zenon
    <3> QED BY <2>3, <3>1, <3>2, <3>3, <3>4 DEF TypeOK, client, reception, fichier
  <2> QED BY <2>4, <2>5
<1>5. CASE SrvPumpNobody
  BY <1>5 DEF SrvPumpNobody, TypeOK, etat, client, reception, fichier
<1>6. ASSUME NEW m \in versClient, ClientRecvData(m) PROVE TypeOK'
  <2>1. m \in DataPackets
    BY <1>6 DEF ClientRecvData, TypeOK, FinPackets, CONN
  <2>2. /\ ecrit' \in Seq(Morceaux) /\ attendu' \in Seqnums
        /\ DOMAIN buffer' \subseteq Seqnums
        /\ buffer' \in [DOMAIN buffer' -> Morceaux]
        /\ apres_zero' \subseteq DOMAIN buffer'
    BY <1>6, <2>1, InSequenceType, OutOfSequenceType DEF ClientRecvData
  <2>3. /\ dernier_ack' \in AckPackets \cup {NoAck}
        /\ versServeur' \subseteq AckPackets \cup {GET}
        /\ pc' \in {"run", "done", "abandon", "crash"}
    <3>1. DecodedSack(DOMAIN buffer', apres_zero') \in SUBSET Seqnums
      BY <2>2 DEF DecodedSack
    <3>2. ACK(IF DOMAIN buffer' = {} THEN "ACK" ELSE "SACK", attendu',
              DecodedSack(DOMAIN buffer', apres_zero')) \in AckPackets
      BY <2>2, <3>1, PacketTypes
    <3> QED BY <1>6, <3>2 DEF ClientRecvData, Acknowledge, TypeOK
  <2> QED BY <1>6, <2>2, <2>3 DEF ClientRecvData, TypeOK, etat, fichier
<1>7. ASSUME NEW m \in versClient, ClientRecvFin(m) PROVE TypeOK'
  <2>1. ACK("ACK", attendu, {}) \in AckPackets
    BY PacketTypes DEF TypeOK
  <2> QED BY <1>7, <2>1 DEF ClientRecvFin, TypeOK, etat, fichier, reception
<1>8. CASE ClientRecvOther
  BY <1>8 DEF ClientRecvOther, TypeOK, etat, fichier, reception
<1>9. CASE ClientTimeout
  <2>1. /\ pc' \in {"run", "done", "abandon", "crash"} /\ essais' \in 0..MaxGet+1
        /\ pc' = "run" => essais' <= MaxGet
    BY <1>9 DEF ClientTimeout, Enough, TypeOK
  <2>2. versServeur' \subseteq AckPackets \cup {GET}
    BY <1>9 DEF ClientTimeout, TypeOK
  <2>3. UNCHANGED <<fichier, etat, phase, reception, demarre, dernier_ack, versClient>>
    BY <1>9 DEF ClientTimeout
  <2> QED BY <2>1, <2>2, <2>3 DEF TypeOK, etat, fichier, reception
<1>10. CASE NetLose
  BY <1>10 DEF NetLose, TypeOK, etat, fichier, client, reception
<1>11. CASE UNCHANGED vars
  BY <1>11 DEF vars, TypeOK, etat, fichier, client, reception
<1> QED BY <1>1, <1>2, <1>3, <1>4, <1>5, <1>6, <1>7, <1>8, <1>9, <1>10, <1>11 DEF Next

(* Every variable always holds a value of its kind, for every size of the   *)
(* sequence number space, window and file.                                  *)
THEOREM TypeCorrect == Spec => []TypeOK
<1>1. Init => TypeOK
  BY TypeInit
<1>2. TypeOK /\ [Next]_vars => TypeOK'
  BY TypeStep
<1> QED BY <1>1, <1>2, PTL DEF Spec

-----------------------------------------------------------------------------
(* Integrity of the written file, for files shorter than the sequence       *)
(* number space: a sequence number then names one morceau.  The invariant   *)
(* says so of every place where the two are kept together.                  *)

MemoireInv == \A s \in DOMAIN memoire : memoire[s] = s /\ s < lus

FinInv == (fini => lus = taille) /\ (fin_envoye => fini)

FlightInv ==
  \A m \in versClient : /\ m.type = "DATA" => m.morceau = m.seqnum /\ m.seqnum < taille
                        /\ m.type = "FIN" => m.seqnum = taille

BufferInv == \A s \in DOMAIN buffer : buffer[s] = s /\ s < taille

EcritInv ==
  /\ attendu = Len(ecrit) /\ attendu <= taille
  /\ \A i \in 1..Len(ecrit) : ecrit[i] = i - 1

ResultInv == (pc = "done" => attendu = taille) /\ (~demarre => attendu = 0)

Integrity ==
  /\ TypeOK /\ MemoireInv /\ FinInv /\ FlightInv
  /\ BufferInv /\ EcritInv /\ ResultInv

(* What one turn of the sending loop leaves: the k morceaux read have their *)
(* own numbers as keys, and the file is exhausted when the end is announced.*)
LEMMA PumpIntegrity ==
  ASSUME MaxMorceaux < SeqMod, TypeOK, MemoireInv, FinInv,
         NEW k \in 0..taille-lus, Sends(k, Fenetre)
  PROVE  /\ DOMAIN MemoireAfter(k) = DOMAIN memoire \cup (lus..lus+k-1)
         /\ \A s \in DOMAIN MemoireAfter(k) : MemoireAfter(k)[s] = s /\ s < lus + k
         /\ fini \/ Open(k, Fenetre) => lus + k = taille
<1> USE ConstantsAssumption
<1>1. /\ lus \in Nat /\ taille \in Nat /\ lus + k <= taille /\ taille < SeqMod
      /\ SeqMod \in Nat \ {0} /\ DOMAIN memoire \subseteq Seqnums
  BY DEF TypeOK
<1>2. ASSUME NEW s \in Seqnums
      PROVE  /\ s \in lus..lus+k-1 => Rang(s) < k /\ lus + Rang(s) = s
             /\ s \notin lus..lus+k-1 => ~(Rang(s) < k)
  <2>1. s \in 0..SeqMod-1 /\ lus \in 0..SeqMod-1
    BY <1>1, <1>2 DEF Seqnums
  <2>2. Rang(s) = IF s >= lus THEN s - lus ELSE s - lus + SeqMod
    BY <2>1, <1>1, ModDistance DEF Rang
  <2> QED BY <1>1, <2>1, <2>2
<1>3. lus..lus+k-1 \subseteq Seqnums
  BY <1>1 DEF Seqnums
<1>4. KeysAfter(k) = DOMAIN memoire \cup (lus..lus+k-1)
  <2>1. {s \in Seqnums : Rang(s) < k} = lus..lus+k-1
    BY <1>2, <1>3, Zenon
  <2> QED BY <2>1 DEF KeysAfter
<1>5. DOMAIN MemoireAfter(k) = DOMAIN memoire \cup (lus..lus+k-1)
  BY <1>4 DEF MemoireAfter
<1>6. ASSUME NEW s \in KeysAfter(k)
      PROVE  MemoireAfter(k)[s] = s /\ s < lus + k
  <2>0. s \in Seqnums
    BY <1>1, <1>3, <1>4
  <2>1. CASE s \in lus..lus+k-1
    <3>1. Rang(s) < k /\ lus + Rang(s) = s
      BY <1>2, <2>0, <2>1
    <3>2. MemoireAfter(k)[s] = s
      BY <3>1, <1>6 DEF MemoireAfter
    <3> QED BY <1>1, <2>1, <3>2
  <2>2. CASE s \notin lus..lus+k-1
    <3>1. s \in DOMAIN memoire /\ ~(Rang(s) < k)
      BY <1>2, <1>4, <2>0, <2>2
    <3>2. MemoireAfter(k)[s] = memoire[s]
      BY <3>1, <1>6 DEF MemoireAfter
    <3> QED BY <1>1, <2>0, <3>1, <3>2 DEF MemoireInv, Seqnums
  <2> QED BY <2>1, <2>2
<1>7. ASSUME fini PROVE lus + k = taille
  <2>1. k = 0
    BY <1>7 DEF Sends, Open
  <2> QED BY <1>1, <1>7, <2>1 DEF FinInv
<1>8. Open(k, Fenetre) => lus + k = taille
  BY DEF Sends
<1> QED BY <1>5, <1>6, <1>7, <1>8 DEF MemoireAfter

(* Draining the buffer writes the next morceaux, in order, and stops within *)
(* the file: the number after the last morceau is never buffered.           *)
LEMMA InSequenceIntegrity ==
  ASSUME MaxMorceaux < SeqMod, TypeOK, BufferInv, EcritInv,
         NEW m \in DataPackets, m.morceau = m.seqnum, m.seqnum < taille,
         NEW k \in 0..SeqMod-1, InSequence(m, k)
  PROVE  /\ attendu' = attendu + k + 1 /\ attendu' = Len(ecrit')
         /\ attendu' <= taille
         /\ \A i \in 1..Len(ecrit') : ecrit'[i] = i - 1
         /\ DOMAIN buffer' \subseteq DOMAIN buffer
         /\ \A s \in DOMAIN buffer' : buffer'[s] = buffer[s]
         /\ \A s \in DOMAIN buffer \ DOMAIN buffer' : s < attendu'
         /\ attendu' \notin DOMAIN buffer'
<1> USE ConstantsAssumption
<1> DEFINE tail == [j \in 1..k+1 |->
                      IF j = 1 THEN m.morceau ELSE buffer[Suivant(j - 1)]]
           vides == {Suivant(j) : j \in 1..k}
<1>1. /\ attendu \in Nat /\ taille \in Nat /\ taille < SeqMod /\ SeqMod \in Nat \ {0}
      /\ attendu < taille /\ k \in Nat
  <2>1. attendu \in Nat /\ taille \in Nat /\ taille <= MaxMorceaux
    BY DEF TypeOK, Seqnums
  <2>2. m.seqnum = attendu
    BY DEF InSequence
  <2> QED BY <2>1, <2>2
<1>2. \A j \in Nat : attendu + j < SeqMod => Suivant(j) = attendu + j
  <2> SUFFICES ASSUME NEW j \in Nat, attendu + j < SeqMod
               PROVE  Suivant(j) = attendu + j
    OBVIOUS
  <2>1. attendu + j \in 0..SeqMod-1
    BY <1>1
  <2> QED BY <2>1, <1>1, ModSmall DEF Suivant
<1>3. attendu + k + 1 <= taille
  <2> SUFFICES ASSUME taille - attendu <= k PROVE FALSE
    BY <1>1
  <2>1. taille - attendu \in 1..k
    BY <1>1
  <2>2. Suivant(taille - attendu) = taille
    BY <1>1, <1>2
  <2>3. taille \in DOMAIN buffer
    BY <2>1, <2>2 DEF InSequence
  <2> QED BY <2>3, <1>1 DEF BufferInv
<1>4. \A j \in 0..k+1 : Suivant(j) = attendu + j
  BY <1>1, <1>2, <1>3
<1>5. attendu' = attendu + k + 1
  BY <1>1, <1>4 DEF InSequence
<1>6. \A j \in 1..k : attendu + j \in DOMAIN buffer
  <2>1. \A j \in 1..k : Suivant(j) \in DOMAIN buffer
    BY DEF InSequence
  <2> QED BY <1>1, <1>4, <2>1
<1>7. \A j \in 1..k+1 : tail[j] = attendu + j - 1 /\ tail[j] \in Morceaux
  <2> SUFFICES ASSUME NEW j \in 1..k+1
               PROVE  tail[j] = attendu + j - 1 /\ tail[j] \in Morceaux
    OBVIOUS
  <2>1. CASE j = 1
    BY <1>1, <2>1 DEF InSequence, DataPackets
  <2>2. CASE j # 1
    <3>1. j - 1 \in 1..k /\ Suivant(j - 1) = attendu + (j - 1)
      BY <1>1, <1>4, <2>2
    <3>2. tail[j] = buffer[attendu + (j - 1)]
      BY <2>2, <3>1
    <3> QED BY <1>1, <1>6, <3>1, <3>2 DEF BufferInv, TypeOK
  <2> QED BY <2>1, <2>2
<1>8. tail \in Seq(Morceaux) /\ Len(tail) = k + 1
  <2>1. tail \in [1..k+1 -> Morceaux]
    BY <1>7
  <2>2. tail \in Seq(Morceaux)
    BY <1>1, <2>1, SeqDef
  <2>3. DOMAIN tail = 1..k+1
    OBVIOUS
  <2> QED BY <1>1, <2>2, <2>3, LenProperties
<1>9. ecrit' = ecrit \o tail
  BY DEF InSequence
<1> HIDE DEF tail
<1>10. /\ Len(ecrit') = attendu + (k + 1)
       /\ \A i \in 1..attendu + (k + 1) :
             ecrit'[i] = IF i <= attendu THEN ecrit[i] ELSE tail[i - attendu]
  <2>1. ecrit \in Seq(Morceaux) /\ Len(ecrit) = attendu
    BY DEF EcritInv, TypeOK
  <2>2. /\ Len(ecrit \o tail) = Len(ecrit) + Len(tail)
        /\ \A i \in 1..Len(ecrit) + Len(tail) :
             (ecrit \o tail)[i] = IF i <= Len(ecrit) THEN ecrit[i] ELSE tail[i - Len(ecrit)]
    BY <1>8, <2>1, ConcatProperties, Zenon
  <2> QED BY <1>8, <1>9, <2>1, <2>2, Zenon
<1>11. \A i \in 1..Len(ecrit') : ecrit'[i] = i - 1
  <2> SUFFICES ASSUME NEW i \in 1..attendu + (k + 1) PROVE ecrit'[i] = i - 1
    BY <1>10
  <2>1. CASE i <= attendu
    BY <1>1, <1>10, <2>1 DEF EcritInv
  <2>2. CASE i > attendu
    <3>1. i - attendu \in 1..k+1
      BY <1>1, <2>2
    <3> QED BY <1>1, <1>7, <1>10, <2>2, <3>1
  <2> QED BY <1>1, <2>1, <2>2
<1>12. buffer' = Without(buffer, vides)
  BY DEF InSequence
<1>13. /\ DOMAIN buffer' = DOMAIN buffer \ vides
       /\ \A s \in DOMAIN buffer' : buffer'[s] = buffer[s]
  BY <1>12 DEF Without
<1>14. \A s \in vides : s < attendu'
  BY <1>1, <1>4, <1>5
<1>15. attendu' \notin DOMAIN buffer'
  BY <1>13 DEF InSequence
<1> QED BY <1>1, <1>3, <1>5, <1>10, <1>11, <1>13, <1>14, <1>15

(* Any other DATA packet leaves the file alone and is buffered under its    *)
(* own number.                                                              *)
LEMMA OutOfSequenceIntegrity ==
  ASSUME BufferInv, NEW m, m.morceau = m.seqnum, m.seqnum < taille,
         OutOfSequence(m)
  PROVE  /\ DOMAIN buffer' = DOMAIN buffer \cup {m.seqnum}
         /\ \A s \in DOMAIN buffer' : buffer'[s] = s /\ s < taille
         /\ UNCHANGED <<ecrit, attendu>>
BY DEF OutOfSequence, BufferInv

(* The first state satisfies the inductive invariant of the contents. *)
LEMMA IntegrityInit == Init => Integrity
<1> SUFFICES ASSUME Init PROVE Integrity
  OBVIOUS
<1>1. TypeOK
  BY TypeInit
<1>2. MemoireInv /\ BufferInv
  BY EmptyType DEF Init, MemoireInv, BufferInv
<1>3. FinInv /\ FlightInv /\ ResultInv
  BY DEF Init, FinInv, FlightInv, ResultInv
<1>4. EcritInv
  <2>1. taille \in Nat /\ attendu = 0 /\ ecrit = <<>> /\ Len(ecrit) = 0
    BY <1>1, EmptySeq DEF Init, TypeOK
  <2> QED BY <2>1 DEF EcritInv
<1> QED BY <1>1, <1>2, <1>3, <1>4 DEF Integrity

(* No step puts a morceau under a sequence number that is not its own. *)
LEMMA IntegrityStep ==
  ASSUME MaxMorceaux < SeqMod, Integrity, [Next]_vars
  PROVE  Integrity'
<1> USE ConstantsAssumption
<1>0. TypeOK'
  BY TypeStep DEF Integrity
<1>1. CASE SrvRecvGet
  <2>1. UNCHANGED <<fichier, client>>
    BY <1>1 DEF SrvRecvGet
  <2>2. BufferInv' /\ EcritInv' /\ ResultInv'
    BY <2>1 DEF Integrity, BufferInv, EcritInv, ResultInv, fichier, client, reception
  <2>3. MemoireInv' /\ FinInv'
    <3>1. CASE FreshEtat(TRUE)
      BY <3>1, EmptyType DEF FreshEtat, MemoireInv, FinInv
    <3>2. CASE UNCHANGED etat
      BY <2>1, <3>2 DEF Integrity, MemoireInv, FinInv, etat, fichier
    <3> QED BY <1>1, <3>1, <3>2 DEF SrvRecvGet
  <2>4. FlightInv'
    <3>1. FIN(0).type = "FIN" /\ FIN(0).seqnum = 0
      BY ModSeqnum, ModSmall DEF FIN
    <3>2. ~existe => taille = 0
      BY DEF Integrity, TypeOK
    <3>3. \A m \in versClient' : m \in versClient \/ m = CONN \/ (m = FIN(0) /\ ~existe)
      <4>1. \/ UNCHANGED <<etat, versClient>>
            \/ versClient' = versClient \cup {CONN}
            \/ ~existe /\ versClient' = versClient \cup {CONN, FIN(0)}
        BY <1>1, Zenon DEF SrvRecvGet
      <4>2. UNCHANGED <<etat, versClient>> => versClient' = versClient
        OBVIOUS
      <4> QED BY <4>1, <4>2
    <3>4. CONN.type = "CONN"
      BY DEF CONN
    <3> QED BY <2>1, <3>1, <3>2, <3>3, <3>4 DEF Integrity, FlightInv, fichier
  <2> QED BY <1>0, <2>2, <2>3, <2>4 DEF Integrity
<1>2. ASSUME NEW m \in versServeur, SrvRecvAck(m) PROVE Integrity'
  <2>1. UNCHANGED <<fichier, client, versClient, lus, fini, fin_envoye>>
    BY <1>2 DEF SrvRecvAck, etat
  <2>2. MemoireInv'
    <3>1. CASE memoire' = Without(memoire, Acquitted(m))
      BY <2>1, <3>1 DEF Without, Integrity, MemoireInv
    <3>2. CASE UNCHANGED memoire
      BY <2>1, <3>2 DEF Integrity, MemoireInv
    <3> QED BY <1>2, <3>1, <3>2 DEF SrvRecvAck, etat
  <2> QED BY <1>0, <2>1, <2>2 DEF Integrity, FinInv, FlightInv, BufferInv, EcritInv,
                              ResultInv, fichier, client, reception
<1>3. CASE SrvPumpSome(Fenetre)
  <2>1. PICK k \in 0..taille-lus, expires \in SUBSET DOMAIN memoire,
             silence \in BOOLEAN, trois \in BOOLEAN :
               SrvPump(Fenetre, k, expires, silence, trois)
    BY <1>3 DEF SrvPumpSome
  <2> DEFINE mem == MemoireAfter(k)
  <2>2. /\ DOMAIN mem = DOMAIN memoire \cup (lus..lus+k-1)
        /\ \A s \in DOMAIN mem : mem[s] = s /\ s < lus + k
        /\ fini \/ Open(k, Fenetre) => lus + k = taille
    BY <2>1, PumpIntegrity DEF SrvPump, Integrity
  <2>3. UNCHANGED <<fichier, client>>
    BY <2>1 DEF SrvPump
  <2>4. BufferInv' /\ EcritInv' /\ ResultInv'
    BY <2>3 DEF Integrity, BufferInv, EcritInv, ResultInv, fichier, client, reception
  <2>5. MemoireInv' /\ FinInv'
    <3>1. CASE FreshEtat(FALSE)
      BY <3>1, EmptyType DEF FreshEtat, MemoireInv, FinInv
    <3>2. CASE ~FreshEtat(FALSE)
      <4>1. /\ lus' = lus + k /\ memoire' = mem
            /\ fini' = (fini \/ Open(k, Fenetre))
            /\ fin_envoye' = (fin_envoye \/ Ends(mem, fini \/ Open(k, Fenetre)))
        BY <2>1, <3>2, Zenon DEF SrvPump
      <4>2. MemoireInv'
        BY <2>2, <4>1, Zenon DEF MemoireInv
      <4>3. fini' => lus' = taille'
        BY <2>2, <2>3, <4>1 DEF fichier
      <4>4. fin_envoye' => fini'
        BY <4>1 DEF Integrity, FinInv, Ends
      <4> QED BY <4>2, <4>3, <4>4 DEF FinInv
    <3> QED BY <3>1, <3>2
  <2>6. FlightInv'
    <3>1. /\ lus \in Nat /\ taille \in Nat /\ lus + k <= taille /\ taille < SeqMod
          /\ DOMAIN memoire \subseteq Seqnums
      BY DEF Integrity, TypeOK
    <3>2. \A i \in 0..SeqMod-1 : i % SeqMod = i
      BY ModSmall, ModSeqnum
    <3>3. \A i \in lus..lus+k-1 :
             /\ DATA(i).type = "DATA" /\ DATA(i).morceau = DATA(i).seqnum
             /\ DATA(i).seqnum < taille
      BY <3>1, <3>2 DEF DATA
    <3>4. Resends(mem, expires, silence) \subseteq DOMAIN mem
      BY <2>2 DEF Resends
    <3>5. \A s \in DOMAIN mem :
             /\ DATA(mem[s]).type = "DATA" /\ DATA(mem[s]).morceau = DATA(mem[s]).seqnum
             /\ DATA(mem[s]).seqnum < taille
      <4> SUFFICES ASSUME NEW s \in DOMAIN mem
                   PROVE  /\ DATA(s).type = "DATA" /\ DATA(s).morceau = DATA(s).seqnum
                          /\ DATA(s).seqnum < taille
        BY <2>2
      <4>1. s \in Nat /\ s < taille
        BY <2>2, <3>1 DEF Seqnums
      <4> QED BY <3>1, <3>2, <4>1 DEF DATA
    <3>6. Ends(mem, fini \/ Open(k, Fenetre)) \/ fin_envoye => FIN(lus + k).seqnum = taille
      <4>1. Ends(mem, fini \/ Open(k, Fenetre)) \/ fin_envoye => lus + k = taille
        BY <2>2 DEF Ends, Integrity, FinInv
      <4> QED BY <3>1, <3>2, <4>1 DEF FIN
    <3>7. FIN(lus + k).type = "FIN"
      BY DEF FIN
    <3> DEFINE fin == IF Ends(mem, fini \/ Open(k, Fenetre)) \/ (silence /\ (fin_envoye \/ Ends(mem, fini \/ Open(k, Fenetre))))
                       THEN {FIN(lus + k)} ELSE {}
    <3>8. versClient' = versClient
             \cup {DATA(i) : i \in lus..lus+k-1}
             \cup {DATA(mem[s]) : s \in Resends(mem, expires, silence)} \cup fin
      BY <2>1, Zenon DEF SrvPump
    <3>9. \A m \in fin : m.type = "FIN" /\ m.seqnum = taille
      BY <3>6, <3>7
    <3>10. \A m \in {DATA(i) : i \in lus..lus+k-1}
                    \cup {DATA(mem[s]) : s \in Resends(mem, expires, silence)} :
              m.type = "DATA" /\ m.morceau = m.seqnum /\ m.seqnum < taille
      BY <3>3, <3>4, <3>5
    <3> HIDE DEF fin
    <3>11. taille' = taille
      BY <2>3 DEF fichier
    <3> QED BY <3>8, <3>9, <3>10, <3>11 DEF Integrity, FlightInv
  <2> QED BY <1>0, <2>4, <2>5, <2>6 DEF Integrity
<1>4. ASSUME NEW m \in versClient, ClientRecvData(m) PROVE Integrity'
  <2>1. m \in DataPackets /\ m.morceau = m.seqnum /\ m.seqnum < taille
    BY <1>4 DEF ClientRecvData, Integrity, FlightInv, TypeOK, FinPackets, CONN
  <2>2. UNCHANGED <<fichier, etat, versClient>> /\ demarre' = TRUE /\ pc = "run"
        /\ pc' \in {"run", "crash"}
    BY <1>4 DEF ClientRecvData, Acknowledge
  <2>3. MemoireInv' /\ FinInv' /\ FlightInv'
    BY <2>2 DEF Integrity, MemoireInv, FinInv, FlightInv, etat, fichier
  <2>4. taille' = taille
    BY <2>2 DEF fichier
  <2>5. BufferInv' /\ EcritInv'
    <3>1. ASSUME NEW k \in 0..SeqMod-1, InSequence(m, k) PROVE BufferInv' /\ EcritInv'
      BY <2>1, <2>4, <3>1, InSequenceIntegrity DEF Integrity, BufferInv, EcritInv
    <3>2. ASSUME OutOfSequence(m) PROVE BufferInv' /\ EcritInv'
      BY <2>1, <2>4, <3>2, OutOfSequenceIntegrity DEF Integrity, BufferInv, EcritInv
    <3> QED BY <1>4, <3>1, <3>2 DEF ClientRecvData
  <2> QED BY <1>0, <2>2, <2>3, <2>5 DEF Integrity, ResultInv
<1>5. ASSUME NEW m \in versClient, ClientRecvFin(m) PROVE Integrity'
  <2>1. UNCHANGED <<fichier, etat, reception, versClient, demarre>>
    BY <1>5 DEF ClientRecvFin
  <2>2. ResultInv'
    <3>1. m.seqnum = taille
      BY <1>5 DEF ClientRecvFin, Integrity, FlightInv
    <3> QED BY <1>5, <2>1, <3>1 DEF ClientRecvFin, FinExpected, Integrity, ResultInv,
                                    fichier, reception
  <2> QED BY <1>0, <2>1, <2>2 DEF Integrity, MemoireInv, FinInv, FlightInv, BufferInv,
                              EcritInv, fichier, etat, reception
<1>6. CASE ClientTimeout
  BY <1>0, <1>6 DEF ClientTimeout, Integrity, MemoireInv, FinInv, FlightInv, BufferInv,
                    EcritInv, ResultInv, fichier, etat, reception
<1>7. CASE SrvRecvNothing \/ SrvPumpNobody \/ ClientRecvOther \/ UNCHANGED vars
  <2>1. UNCHANGED <<fichier, etat, reception, pc, demarre, versClient>>
    BY <1>7 DEF SrvRecvNothing, SrvPumpNobody, ClientRecvOther, vars, client
  <2> QED BY <1>0, <2>1 DEF Integrity, MemoireInv, FinInv, FlightInv, BufferInv,
                            EcritInv, ResultInv, fichier, etat, reception
<1>8. CASE NetLose
  <2>1. UNCHANGED <<fichier, etat, client>> /\ versClient' \subseteq versClient
    BY <1>8 DEF NetLose
  <2> QED BY <1>0, <2>1 DEF Integrity, MemoireInv, FinInv, FlightInv, BufferInv,
                            EcritInv, ResultInv, fichier, etat, client, reception
<1> QED BY <1>1, <1>2, <1>3, <1>4, <1>5, <1>6, <1>7, <1>8 DEF Next

(* The save file is always a prefix of the requested file, when that file   *)
(* has fewer morceaux than there are sequence numbers.                      *)
THEOREM PrefixCorrect ==
  ASSUME MaxMorceaux < SeqMod
  PROVE  Spec => []PrefixIntegrity
<1>1. Init => Integrity
  BY IntegrityInit
<1>2. Integrity /\ [Next]_vars => Integrity'
  BY IntegrityStep
<1>3. Integrity => PrefixIntegrity
  BY DEF Integrity, EcritInv, PrefixIntegrity
<1> QED BY <1>1, <1>2, <1>3, PTL DEF Spec

(* Under the same condition the end packet ends only complete downloads.    *)
THEOREM DoneCorrect ==
  ASSUME MaxMorceaux < SeqMod
  PROVE  Spec => []DoneMeansComplete
<1>1. Init => Integrity
  BY IntegrityInit
<1>2. Integrity /\ [Next]_vars => Integrity'
  BY IntegrityStep
<1>3. Integrity => DoneMeansComplete
  BY DEF Integrity, EcritInv, ResultInv, DoneMeansComplete
<1> QED BY <1>1, <1>2, <1>3, PTL DEF Spec

-----------------------------------------------------------------------------
(* The client fails on no file that fits in one SACK payload, and the       *)
(* download implements FileTransfer.                                        *)

(* Numbers of morceaux of a file that short fit in a SACK.                  *)
LEMMA FileFits ==
  ASSUME NEW n \in Nat, n <= MaxSack, NEW B \in SUBSET (0..n-1)
  PROVE  SackFits(B)
<1>1. IsFiniteSet(0..n-1) /\ Cardinality(0..n-1) = n
  <2>1. 0 \in Int /\ n-1 \in Int
    OBVIOUS
  <2>2. /\ IsFiniteSet(0..n-1)
        /\ Cardinality(0..n-1) = IF 0 > n-1 THEN 0 ELSE (n-1)-0+1
    BY <2>1, FS_Interval
  <2> QED BY <2>2
<1>2. IsFiniteSet(B) /\ Cardinality(B) <= n
  BY <1>1, FS_Subset
<1>3. Cardinality(B) \in Nat
  BY <1>2, FS_CardinalityType
<1> QED BY <1>2, <1>3, ConstantsAssumption DEF SackFits

(* A DATA packet of a short enough file is acknowledged and the client goes *)
(* on: its buffer holds morceaux of the file only, however late they came.  *)
LEMMA DataAnswered ==
  ASSUME Integrity', NEW m, ClientRecvData(m), taille' <= MaxSack
  PROVE  pc' = pc
<1>1. taille' \in Nat
  BY DEF Integrity, TypeOK
<1>2. DOMAIN buffer' \subseteq 0..taille'-1
  BY <1>1 DEF Integrity, TypeOK, BufferInv, Seqnums
<1>3. SackFits(DOMAIN buffer')
  BY <1>1, <1>2, FileFits
<1> QED BY <1>3 DEF ClientRecvData, Acknowledge

(* The client's acknowledgement fails only for a file with more morceaux    *)
(* than a SACK lists, in whatever order, how late and how often its packets *)
(* arrive.                                                                  *)
THEOREM CrashCorrect ==
  ASSUME MaxMorceaux < SeqMod
  PROVE  Spec => []CrashNeedsLongFile
<1> DEFINE I == Integrity /\ CrashNeedsLongFile
<1>1. Init => I
  BY IntegrityInit DEF Init, CrashNeedsLongFile
<1>2. I /\ [Next]_vars => I'
  <2> SUFFICES ASSUME Integrity, CrashNeedsLongFile, [Next]_vars PROVE I'
    OBVIOUS
  <2>1. Integrity'
    BY IntegrityStep
  <2> SUFFICES CrashNeedsLongFile'
    BY <2>1
  <2>2. ASSUME NEW m \in versClient, ClientRecvData(m) PROVE CrashNeedsLongFile'
    <3>1. pc = "run" /\ taille' \in Nat /\ MaxSack \in Nat
      BY <2>1, <2>2, ConstantsAssumption DEF ClientRecvData, Integrity, TypeOK
    <3>2. CASE taille' <= MaxSack
      BY <2>1, <2>2, <3>1, <3>2, DataAnswered DEF CrashNeedsLongFile
    <3>3. CASE ~(taille' <= MaxSack)
      BY <3>1, <3>3 DEF CrashNeedsLongFile
    <3> QED BY <3>2, <3>3
  <2>3. ASSUME NEW m \in versClient, ClientRecvFin(m) PROVE CrashNeedsLongFile'
    BY <2>3 DEF CrashNeedsLongFile, ClientRecvFin
  <2>4. CASE ClientTimeout
    BY <2>4 DEF CrashNeedsLongFile, ClientTimeout
  <2>5. ASSUME NEW m \in versServeur, SrvRecvAck(m) PROVE CrashNeedsLongFile'
    BY <2>5 DEF CrashNeedsLongFile, SrvRecvAck, client, fichier
  <2>6. CASE SrvRecvGet \/ SrvRecvNothing \/ SrvPumpNobody \/ ClientRecvOther \/ NetLose
    BY <2>6 DEF CrashNeedsLongFile, SrvRecvGet, SrvRecvNothing, SrvPumpNobody,
                ClientRecvOther, NetLose, client, fichier
  <2>7. CASE SrvPumpSome(Fenetre)
    BY <2>7 DEF CrashNeedsLongFile, SrvPumpSome, SrvPump, client, fichier
  <2>8. CASE UNCHANGED vars
    BY <2>8 DEF CrashNeedsLongFile, vars, client, fichier
  <2> QED BY <2>2, <2>3, <2>4, <2>5, <2>6, <2>7, <2>8 DEF Next
<1>3. I => CrashNeedsLongFile
  OBVIOUS
<1> QED BY <1>1, <1>2, <1>3, PTL DEF Spec

(* The save file is the extract of the requested file that FileTransfer     *)
(* speaks of.                                                               *)
LEMMA PrefixExtrait ==
  ASSUME NEW e \in Seq(Morceaux), \A i \in 1..Len(e) : e[i] = i - 1
  PROVE  e = Abstract!Extrait(Len(e))
<1>1. e \in [1..Len(e) -> Morceaux]
  BY LenProperties
<1> QED BY <1>1 DEF Abstract!Extrait

(* Every step writes the next morceaux, ends, or changes nothing FileTransfer
   sees. *)
LEMMA RefinementStep ==
  ASSUME MaxMorceaux < SeqMod, Integrity, [Next]_vars
  PROVE  [Abstract!ANext]_Abstract!avars
<1> USE ConstantsAssumption
<1>0. Integrity'
  BY IntegrityStep
<1>1. ecrit = Abstract!Extrait(attendu) /\ Len(ecrit) = attendu
      /\ attendu \in Nat /\ taille \in Nat
  <2>1. /\ ecrit \in Seq(Morceaux) /\ Len(ecrit) = attendu
        /\ \A i \in 1..Len(ecrit) : ecrit[i] = i - 1
    BY DEF Integrity, EcritInv, TypeOK
  <2>2. attendu \in Nat /\ taille \in Nat
    BY DEF Integrity, TypeOK, Seqnums
  <2> QED BY <2>1, <2>2, PrefixExtrait
<1>2. ecrit' = Abstract!Extrait(attendu')
  BY <1>0, PrefixExtrait DEF Integrity, EcritInv, TypeOK
<1>3. ASSUME NEW m \in versClient, ClientRecvData(m)
      PROVE  [Abstract!ANext]_Abstract!avars
  <2>1. pc = "run" /\ pc' \in {"run", "crash"} /\ taille' = taille
    BY <1>3 DEF ClientRecvData, Acknowledge, fichier
  <2>2. m \in DataPackets /\ m.morceau = m.seqnum /\ m.seqnum < taille
    BY <1>3 DEF ClientRecvData, Integrity, FlightInv, TypeOK, FinPackets, CONN
  <2>3. ASSUME NEW k \in 0..SeqMod-1, InSequence(m, k)
        PROVE  Abstract!Deliver \/ Abstract!Fail
    <3>1. attendu' = attendu + k + 1 /\ attendu' <= taille
      BY <2>2, <2>3, InSequenceIntegrity DEF Integrity
    <3>2. attendu' \in Len(ecrit)+1..taille /\ attendu' \in Len(ecrit)..taille
      BY <1>1, <3>1
    <3>3. CASE pc' = "run"
      BY <1>2, <2>1, <3>2, <3>3 DEF Abstract!Deliver
    <3>4. CASE pc' = "crash"
      BY <1>2, <2>1, <3>2, <3>4 DEF Abstract!Fail
    <3> QED BY <2>1, <3>3, <3>4
  <2>4. ASSUME OutOfSequence(m) PROVE UNCHANGED Abstract!avars \/ Abstract!Fail
    <3>1. ecrit' = ecrit /\ Len(ecrit) \in Len(ecrit)..taille
      BY <1>1, <2>4 DEF OutOfSequence, Integrity, EcritInv, TypeOK
    <3>2. CASE pc' = "run"
      BY <2>1, <3>1, <3>2 DEF Abstract!avars
    <3>3. CASE pc' = "crash"
      BY <1>1, <2>1, <3>1, <3>3 DEF Abstract!Fail
    <3> QED BY <2>1, <3>2, <3>3
  <2> QED BY <1>3, <2>3, <2>4 DEF ClientRecvData, Abstract!ANext
<1>4. ASSUME NEW m \in versClient, ClientRecvFin(m)
      PROVE  [Abstract!ANext]_Abstract!avars
  <2>1. UNCHANGED <<taille, ecrit>> /\ pc = "run"
    BY <1>4 DEF ClientRecvFin, fichier, reception
  <2>2. CASE FinExpected(m)
    <3>1. attendu = taille /\ pc' = "done"
      BY <1>4, <2>2 DEF ClientRecvFin, FinExpected, Integrity, FlightInv
    <3> QED BY <1>1, <2>1, <3>1 DEF Abstract!ANext, Abstract!Finish
  <2>3. CASE ~FinExpected(m)
    BY <1>4, <2>1, <2>3 DEF ClientRecvFin, Abstract!avars
  <2> QED BY <2>2, <2>3
<1>5. CASE ClientTimeout
  <2>1. UNCHANGED <<taille, ecrit>> /\ pc = "run"
    BY <1>5 DEF ClientTimeout, fichier, reception
  <2>2. CASE Waiting /\ pc' # pc
    <3>1. pc' = "abandon"
      BY <1>5, <2>2 DEF ClientTimeout
    <3>2. ecrit \in Seq(Morceaux) /\ Len(ecrit) = 0
      BY <1>1, <2>2 DEF Waiting, Integrity, ResultInv, TypeOK
    <3>3. ecrit = <<>>
      BY <3>2, EmptySeq
    <3> QED BY <2>1, <3>1, <3>3 DEF Abstract!ANext, Abstract!GiveUp
  <2>3. CASE pc' = pc
    BY <2>1, <2>3 DEF Abstract!avars
  <2> QED BY <1>5, <2>2, <2>3 DEF ClientTimeout
<1>6. ASSUME NEW m \in versServeur, SrvRecvAck(m) PROVE UNCHANGED Abstract!avars
  BY <1>6 DEF SrvRecvAck, fichier, client, reception, Abstract!avars
<1>7. CASE SrvRecvGet \/ SrvRecvNothing \/ SrvPumpNobody \/ ClientRecvOther \/ NetLose
  BY <1>7 DEF SrvRecvGet, SrvRecvNothing, SrvPumpNobody, ClientRecvOther, NetLose,
              fichier, client, reception, Abstract!avars
<1>8. CASE SrvPumpSome(Fenetre)
  BY <1>8 DEF SrvPumpSome, SrvPump, fichier, client, reception, Abstract!avars
<1>9. CASE UNCHANGED vars
  BY <1>9 DEF vars, fichier, client, reception, Abstract!avars
<1> QED BY <1>3, <1>4, <1>5, <1>6, <1>7, <1>8, <1>9 DEF Next

(* Client, server and network together implement the abstract transfer.     *)
THEOREM Refinement ==
  ASSUME MaxMorceaux < SeqMod
  PROVE  Spec => RefinesFileTransfer
<1>1. Init => Integrity
  BY IntegrityInit
<1>2. Integrity /\ [Next]_vars => Integrity'
  BY IntegrityStep
<1>3. Init => Abstract!AInit
  BY <1>1 DEF Init, Integrity, TypeOK, Abstract!AInit
<1>4. Integrity /\ [Next]_vars => [Abstract!ANext]_Abstract!avars
  BY RefinementStep
<1> QED BY <1>1, <1>2, <1>3, <1>4, PTL DEF Spec, RefinesFileTransfer, Abstract!ASpec

-----------------------------------------------------------------------------
(* Nothing is lost between the two sides, for files of at most HalfMod      *)
(* morceaux: an acknowledgement, however late, then speaks only of morceaux *)
(* the client has.                                                          *)

Received(s) == s < attendu \/ s \in DOMAIN buffer

AckInv ==
  \A m \in versServeur \cup {dernier_ack} :
     m.type \in {"ACK", "SACK"} =>
        m.seqnum <= attendu /\ \A s \in m.sack : Received(s)

BaseInv == base <= attendu

HeldInv == \A i \in 0..lus-1 : i \in DOMAIN memoire \/ Received(i)

EndInv ==
  fin_envoye \/ (\E m \in versClient : m.type = "FIN") => attendu = taille

GapInv == attendu \notin DOMAIN buffer

Delivery == Integrity /\ AckInv /\ BaseInv /\ HeldInv /\ EndInv /\ GapInv

(* An acknowledgement moves base only forward, and only over morceaux the   *)
(* client has.                                                              *)
LEMMA AckForward ==
  ASSUME MaxMorceaux < SeqMod, ShortFile, Delivery,
         NEW m \in versServeur, m.type \in {"ACK", "SACK"}
  PROVE  /\ Ahead(m.seqnum) => m.seqnum >= base
         /\ m.seqnum <= attendu
         /\ \A s \in Acquitted(m) : Received(s)
<1> USE ConstantsAssumption
<1>1. m.seqnum <= attendu /\ \A s \in m.sack : Received(s)
  BY DEF Delivery, AckInv
<1>2. /\ m \in AckPackets /\ m.seqnum \in 0..SeqMod-1
      /\ base \in 0..SeqMod-1 /\ attendu \in Nat /\ attendu <= HalfMod
      /\ SeqMod \in Nat \ {0}
  <2>1. m \in AckPackets
    BY DEF Delivery, Integrity, TypeOK, GET
  <2>2. m.seqnum \in 0..SeqMod-1
    BY <2>1 DEF AckPackets, Seqnums
  <2>3. base \in 0..SeqMod-1 /\ attendu \in Nat
    BY DEF Delivery, Integrity, TypeOK, Seqnums
  <2>4. attendu <= HalfMod
    BY <2>3 DEF Delivery, Integrity, TypeOK, EcritInv, ShortFile
  <2> QED BY <2>1, <2>2, <2>3, <2>4
<1>3. base <= attendu
  BY DEF Delivery, BaseInv
<1>4. \A s \in 0..SeqMod-1 : Steps(s) = IF s >= base THEN s - base ELSE s - base + SeqMod
  BY <1>2, ModDistance DEF Steps
<1>5. Ahead(m.seqnum) => m.seqnum >= base
  BY <1>1, <1>2, <1>3, <1>4 DEF Ahead
<1>6. ASSUME NEW s \in Seqnums, Ahead(m.seqnum), Steps(s) < Steps(m.seqnum)
      PROVE  s < attendu
  <2>1. Steps(m.seqnum) = m.seqnum - base
    BY <1>2, <1>4, <1>5, <1>6
  <2>2. s \in 0..SeqMod-1
    BY <1>6 DEF Seqnums
  <2>3. Steps(s) = IF s >= base THEN s - base ELSE s - base + SeqMod
    BY <1>4, <2>2
  <2> QED BY <1>1, <1>2, <1>3, <1>6, <2>1, <2>2, <2>3
<1>7. \A s \in Acquitted(m) : Received(s)
  BY <1>1, <1>6 DEF Acquitted, Received
<1> QED BY <1>1, <1>5, <1>7

(* What the client has, it keeps.                                           *)
LEMMA ReceivedStays ==
  ASSUME MaxMorceaux < SeqMod, Integrity, NEW m \in versClient, ClientRecvData(m)
  PROVE  /\ \A s \in Nat : Received(s) => Received(s)'
         /\ attendu \in Nat /\ attendu' \in Nat /\ attendu <= attendu'
         /\ GapInv => GapInv'
         /\ attendu = taille => attendu' = taille
<1> USE ConstantsAssumption
<1>1. m \in DataPackets /\ m.morceau = m.seqnum /\ m.seqnum < taille
  BY DEF ClientRecvData, Integrity, FlightInv, TypeOK, FinPackets, CONN
<1>2. attendu \in Nat /\ taille \in Nat
  BY DEF Integrity, TypeOK, Seqnums
<1>3. ASSUME NEW k \in 0..SeqMod-1, InSequence(m, k)
      PROVE  /\ \A s \in Nat : Received(s) => Received(s)'
             /\ attendu' \in Nat /\ attendu <= attendu'
             /\ GapInv' /\ (attendu = taille => attendu' = taille)
  <2>1. /\ attendu' = attendu + k + 1 /\ attendu' <= taille
        /\ \A s \in DOMAIN buffer \ DOMAIN buffer' : s < attendu'
        /\ attendu' \notin DOMAIN buffer'
    BY <1>1, <1>3, InSequenceIntegrity DEF Integrity
  <2>2. attendu' \in Nat /\ attendu < attendu'
    BY <1>2, <2>1
  <2>3. \A s \in Nat : Received(s) => Received(s)'
    BY <1>2, <2>1, <2>2 DEF Received
  <2> QED BY <1>2, <2>1, <2>2, <2>3 DEF GapInv
<1>4. ASSUME OutOfSequence(m)
      PROVE  /\ \A s \in Nat : Received(s) => Received(s)'
             /\ attendu' = attendu /\ (GapInv => GapInv')
  <2>1. /\ DOMAIN buffer' = DOMAIN buffer \cup {m.seqnum} /\ attendu' = attendu
        /\ m.seqnum # attendu
    BY <1>4 DEF OutOfSequence
  <2> QED BY <2>1 DEF Received, GapInv
<1> QED BY <1>2, <1>3, <1>4 DEF ClientRecvData

(* The first state satisfies the inductive invariant of acknowledgement. *)
LEMMA DeliveryInit == Init => Delivery
<1> SUFFICES ASSUME Init PROVE Delivery
  OBVIOUS
<1>1. Integrity
  BY IntegrityInit
<1>2. AckInv
  BY DEF Init, AckInv, GET, NoAck
<1>3. BaseInv /\ HeldInv /\ EndInv
  BY DEF Init, BaseInv, HeldInv, EndInv
<1>4. GapInv
  BY EmptyType DEF Init, GapInv
<1> QED BY <1>1, <1>2, <1>3, <1>4 DEF Delivery

(* No step makes an acknowledgement claim more than the client holds, or the
   server forget it. *)
LEMMA DeliveryStep ==
  ASSUME MaxMorceaux < SeqMod, ShortFile, Delivery, [Next]_vars
  PROVE  Delivery'
<1> USE ConstantsAssumption
<1>0. Integrity'
  BY IntegrityStep DEF Delivery
<1>1. CASE SrvRecvGet
  <2>1. UNCHANGED <<fichier, client, versServeur>>
    BY <1>1 DEF SrvRecvGet
  <2>2. AckInv' /\ GapInv'
    BY <2>1 DEF Delivery, AckInv, GapInv, Received, client, reception
  <2>3. BaseInv' /\ HeldInv' /\ (fin_envoye' => fin_envoye)
    <3>1. CASE FreshEtat(TRUE)
      <4>1. base' = 0 /\ lus' = 0 /\ fin_envoye' = FALSE
        BY <3>1 DEF FreshEtat
      <4>2. attendu' \in Nat
        BY <1>0 DEF Integrity, TypeOK, Seqnums
      <4> QED BY <4>1, <4>2 DEF BaseInv, HeldInv
    <3>2. CASE UNCHANGED etat
      BY <2>1, <3>2 DEF Delivery, BaseInv, HeldInv, Received, etat, client, reception
    <3> QED BY <1>1, <3>1, <3>2 DEF SrvRecvGet
  <2>4. EndInv'
    <3>1. ~existe => taille = 0 /\ attendu = 0
      BY DEF Delivery, Integrity, TypeOK, EcritInv, Seqnums
    <3>2. \A m \in versClient' : m.type = "FIN" => m \in versClient \/ ~existe
      <4>1. \/ UNCHANGED <<etat, versClient>>
            \/ versClient' = versClient \cup {CONN}
            \/ ~existe
        BY <1>1, Zenon DEF SrvRecvGet
      <4>2. UNCHANGED <<etat, versClient>> => versClient' = versClient
        OBVIOUS
      <4> QED BY <4>1, <4>2 DEF CONN
    <3> QED BY <2>1, <2>3, <3>1, <3>2 DEF Delivery, EndInv, fichier, client, reception
  <2> QED BY <1>0, <2>2, <2>3, <2>4 DEF Delivery
<1>2. ASSUME NEW m \in versServeur, SrvRecvAck(m) PROVE Delivery'
  <2>1. /\ UNCHANGED <<fichier, client, versServeur, versClient, lus, fin_envoye>>
        /\ m.type \in {"ACK", "SACK"}
    BY <1>2 DEF SrvRecvAck, etat
  <2>2. AckInv' /\ GapInv' /\ EndInv'
    BY <2>1 DEF Delivery, AckInv, GapInv, EndInv, Received, fichier, client, reception
  <2>3. /\ m.seqnum <= attendu
        /\ \A s \in Acquitted(m) : Received(s)
    BY <2>1, AckForward
  <2>4. BaseInv' /\ HeldInv'
    <3>1. CASE UNCHANGED etat
      BY <2>1, <3>1 DEF Delivery, BaseInv, HeldInv, Received, etat, client, reception
    <3>2. CASE /\ base' = IF Ahead(m.seqnum) THEN m.seqnum ELSE base
               /\ memoire' = Without(memoire, Acquitted(m))
      <4>1. DOMAIN memoire' = DOMAIN memoire \ Acquitted(m)
        BY <3>2 DEF Without
      <4> QED BY <2>1, <2>3, <3>2, <4>1
              DEF Delivery, BaseInv, HeldInv, Received, client, reception
    <3> QED BY <1>2, <3>1, <3>2 DEF SrvRecvAck, etat
  <2> QED BY <1>0, <2>2, <2>4 DEF Delivery
<1>3. CASE SrvPumpSome(Fenetre)
  <2>1. PICK k \in 0..taille-lus, expires \in SUBSET DOMAIN memoire,
             silence \in BOOLEAN, trois \in BOOLEAN :
               SrvPump(Fenetre, k, expires, silence, trois)
    BY <1>3 DEF SrvPumpSome
  <2> DEFINE mem == MemoireAfter(k)
             ends == Ends(mem, fini \/ Open(k, Fenetre))
  <2>2. /\ DOMAIN mem = DOMAIN memoire \cup (lus..lus+k-1)
        /\ fini \/ Open(k, Fenetre) => lus + k = taille
    BY <2>1, PumpIntegrity DEF SrvPump, Delivery, Integrity
  <2>3. UNCHANGED <<fichier, client, versServeur>>
    BY <2>1 DEF SrvPump
  <2>4. AckInv' /\ GapInv'
    BY <2>3 DEF Delivery, AckInv, GapInv, Received, client, reception
  <2>5. lus \in Nat /\ attendu \in Nat /\ taille \in Nat /\ attendu <= taille
    BY DEF Delivery, Integrity, TypeOK, EcritInv, Seqnums
  <2>6. \A i \in 0..lus+k-1 : i \in DOMAIN mem \/ Received(i)
    BY <2>2, <2>5 DEF Delivery, HeldInv
  <2>7. ends => attendu = taille
    <3> SUFFICES ASSUME ends, attendu # taille PROVE FALSE
      OBVIOUS
    <3>1. DOMAIN mem = {} /\ lus + k = taille
      BY <2>2 DEF Ends
    <3>2. attendu \in 0..lus+k-1
      BY <2>5, <3>1
    <3>3. Received(attendu)
      BY <2>6, <3>1, <3>2
    <3> QED BY <2>5, <3>3 DEF Received, Delivery, GapInv
  <2>8. ends \/ fin_envoye => attendu = taille
    BY <2>7 DEF Delivery, EndInv
  <2>9. EndInv'
    <3>1. fin_envoye' => ends \/ fin_envoye
      BY <2>1 DEF SrvPump, FreshEtat
    <3>2. \A i : DATA(i).type = "DATA"
      BY DEF DATA
    <3>3. \A m \in versClient' : m.type = "FIN" => m \in versClient \/ ends \/ fin_envoye
      BY <2>1, <3>2 DEF SrvPump
    <3> HIDE DEF ends
    <3> QED BY <2>3, <2>8, <3>1, <3>3 DEF Delivery, EndInv, fichier, client, reception
  <2>10. BaseInv' /\ HeldInv'
    <3>1. CASE FreshEtat(FALSE)
      BY <2>3, <2>5, <3>1 DEF FreshEtat, BaseInv, HeldInv, client, reception
    <3>2. CASE lus' = lus + k /\ memoire' = mem /\ base' = base
      <4> HIDE DEF mem
      <4>1. attendu' = attendu /\ buffer' = buffer
        BY <2>3 DEF client, reception
      <4>2. BaseInv'
        BY <3>2, <4>1 DEF Delivery, BaseInv
      <4>3. HeldInv'
        <5>1. \A i \in 0..lus'-1 : i \in DOMAIN memoire' \/ i < attendu \/ i \in DOMAIN buffer
          BY <2>5, <2>6, <3>2 DEF Received
        <5> QED BY <4>1, <5>1 DEF HeldInv, Received
      <4> QED BY <4>2, <4>3
    <3> QED BY <2>1, <3>1, <3>2 DEF SrvPump
  <2> QED BY <1>0, <2>4, <2>9, <2>10 DEF Delivery
<1>4. ASSUME NEW m \in versClient, ClientRecvData(m) PROVE Delivery'
  <2>1. UNCHANGED <<fichier, etat, versClient>>
    BY <1>4 DEF ClientRecvData
  <2>2. /\ \A s \in Nat : Received(s) => Received(s)'
        /\ attendu \in Nat /\ attendu' \in Nat /\ attendu <= attendu'
        /\ GapInv'
        /\ attendu = taille => attendu' = taille
    BY <1>4, ReceivedStays DEF Delivery
  <2>3. /\ base \in Nat /\ lus \in Nat /\ DOMAIN buffer' \subseteq Nat
        /\ versServeur \subseteq AckPackets \cup {GET}
        /\ dernier_ack \in AckPackets \cup {NoAck}
    <3>1. TypeOK /\ TypeOK'
      BY <1>0 DEF Delivery, Integrity
    <3>2. DOMAIN buffer' \subseteq Seqnums
      BY <3>1 DEF TypeOK
    <3>3. /\ base \in Seqnums /\ lus \in Nat
          /\ versServeur \subseteq AckPackets \cup {GET}
          /\ dernier_ack \in AckPackets \cup {NoAck}
      BY <3>1 DEF TypeOK
    <3> QED BY <3>2, <3>3 DEF Seqnums
  <2>4. BaseInv'
    BY <2>1, <2>2, <2>3 DEF Delivery, BaseInv, etat
  <2>5. HeldInv'
    BY <2>1, <2>2, <2>3 DEF Delivery, HeldInv, etat
  <2>6. EndInv'
    BY <2>1, <2>2 DEF Delivery, EndInv, etat, fichier
  <2>7. AckInv'
    <3> DEFINE a == ACK(IF DOMAIN buffer' = {} THEN "ACK" ELSE "SACK", attendu',
                        DecodedSack(DOMAIN buffer', apres_zero'))
    <3>1. a.seqnum <= attendu' /\ \A s \in a.sack : Received(s)'
      BY <2>2 DEF ACK, DecodedSack, Received
    <3>2. \A p \in versServeur' \cup {dernier_ack'} : p \in versServeur \cup {dernier_ack} \/ p = a
      BY <1>4 DEF ClientRecvData, Acknowledge
    <3> HIDE DEF a
    <3>3. ASSUME NEW p \in versServeur \cup {dernier_ack}, p.type \in {"ACK", "SACK"}
          PROVE  p.seqnum <= attendu' /\ \A s \in p.sack : Received(s)'
      <4>1. p.seqnum <= attendu /\ \A s \in p.sack : Received(s)
        BY <3>3 DEF Delivery, AckInv
      <4>2. p \in AckPackets
        <5>1. GET.type = "GET" /\ NoAck.type = "NONE"
          BY DEF GET, NoAck
        <5>2. p \in AckPackets \/ p = GET \/ p = NoAck
          BY <2>3, <3>3
        <5> QED BY <3>3, <5>1, <5>2
      <4>3. p.seqnum \in Nat /\ p.sack \subseteq Nat
        BY <4>2 DEF AckPackets, Seqnums
      <4> QED BY <2>2, <4>1, <4>3
    <3> QED BY <3>1, <3>2, <3>3 DEF AckInv
  <2> QED BY <1>0, <2>2, <2>4, <2>5, <2>6, <2>7 DEF Delivery
<1>5. ASSUME NEW m \in versClient, ClientRecvFin(m) PROVE Delivery'
  <2>1. /\ UNCHANGED <<fichier, etat, reception, dernier_ack, versClient>>
        /\ \A p \in versServeur' : p \in versServeur \/ p = ACK("ACK", attendu, {})
    BY <1>5 DEF ClientRecvFin
  <2>2. AckInv'
    <3>1. ACK("ACK", attendu, {}).seqnum <= attendu /\ ACK("ACK", attendu, {}).sack = {}
      BY DEF ACK, Delivery, Integrity, TypeOK, Seqnums
    <3> QED BY <2>1, <3>1 DEF Delivery, AckInv, Received, reception
  <2> QED BY <1>0, <2>1, <2>2 DEF Delivery, BaseInv, HeldInv, EndInv, GapInv, Received,
                                  fichier, etat, reception
<1>6. CASE ClientTimeout \/ SrvRecvNothing \/ SrvPumpNobody \/ ClientRecvOther
           \/ NetLose \/ UNCHANGED vars
  <2>1. /\ UNCHANGED <<fichier, etat, reception, dernier_ack>>
        /\ versClient' \subseteq versClient
        /\ \A p \in versServeur' : p \in versServeur \cup {dernier_ack} \/ p = GET
    <3>1. CASE ClientTimeout
      BY <3>1 DEF ClientTimeout
    <3>2. CASE SrvRecvNothing \/ SrvPumpNobody
      BY <3>2 DEF SrvRecvNothing, SrvPumpNobody, client
    <3>3. CASE ClientRecvOther
      BY <3>3 DEF ClientRecvOther
    <3>4. CASE NetLose
      BY <3>4 DEF NetLose, client
    <3>5. CASE UNCHANGED vars
      BY <3>5 DEF vars, client
    <3> QED BY <1>6, <3>1, <3>2, <3>3, <3>4, <3>5
  <2>2. AckInv'
    BY <2>1 DEF Delivery, AckInv, Received, GET, reception
  <2> QED BY <1>0, <2>1, <2>2 DEF Delivery, BaseInv, HeldInv, EndInv, GapInv, Received,
                                  fichier, etat, reception
<1> QED BY <1>1, <1>2, <1>3, <1>4, <1>5, <1>6 DEF Next

(* The invariant that no assumption on the longest file is needed for.      *)
ShortDelivery == Integrity /\ (ShortFile => Delivery)

LEMMA ShortDeliveryInit == Init => ShortDelivery
BY DeliveryInit DEF ShortDelivery, Delivery

(* The length of the file does not change during a download.                *)
LEMMA ShortDeliveryStep ==
  ASSUME MaxMorceaux < SeqMod, ShortDelivery, [Next]_vars
  PROVE  ShortDelivery'
<1>1. Integrity'
  BY IntegrityStep DEF ShortDelivery
<1>2. UNCHANGED taille
  BY DEF Next, vars, fichier, SrvRecvGet, SrvRecvAck, SrvRecvNothing, SrvPumpSome, SrvPump,
         SrvPumpNobody, ClientRecvData, ClientRecvFin, ClientRecvOther, ClientTimeout, NetLose
<1>3. ShortFile' => ShortFile
  BY <1>2 DEF ShortFile
<1>4. ShortFile /\ Delivery => Delivery'
  BY DeliveryStep
<1> QED BY <1>1, <1>3, <1>4 DEF ShortDelivery

(* What the server forgets, the client has: for every late, repeated or     *)
(* reordered acknowledgement and every key order of the client's buffer.    *)
THEOREM ForgottenCorrect ==
  ASSUME MaxMorceaux < SeqMod
  PROVE  Spec => []ForgottenMeansReceived
<1>1. Init => ShortDelivery
  BY ShortDeliveryInit
<1>2. ShortDelivery /\ [Next]_vars => ShortDelivery'
  BY ShortDeliveryStep
<1>3. ShortDelivery => ForgottenMeansReceived
  <2> SUFFICES ASSUME Delivery, NEW i \in 0..lus-1
               PROVE  \/ i % SeqMod \in DOMAIN memoire /\ memoire[i % SeqMod] = i
                      \/ i < Len(ecrit)
                      \/ i % SeqMod \in DOMAIN buffer /\ buffer[i % SeqMod] = i
    BY DEF ShortDelivery, ForgottenMeansReceived
  <2>1. i % SeqMod = i
    <3>1. i \in 0..SeqMod-1
      BY ConstantsAssumption DEF Delivery, Integrity, TypeOK
    <3> QED BY <3>1, ModSeqnum, ModSmall
  <2>2. i \in DOMAIN memoire \/ i < Len(ecrit) \/ i \in DOMAIN buffer
    BY DEF Delivery, HeldInv, Received, Integrity, EcritInv
  <2> QED BY <2>1, <2>2 DEF Delivery, Integrity, MemoireInv, BufferInv
<1> QED BY <1>1, <1>2, <1>3, PTL DEF Spec

(* The end packet is sent only to a client that has written the whole file. *)
THEOREM FinCorrect ==
  ASSUME MaxMorceaux < SeqMod
  PROVE  Spec => []FinMeansDelivered
<1>1. Init => ShortDelivery
  BY ShortDeliveryInit
<1>2. ShortDelivery /\ [Next]_vars => ShortDelivery'
  BY ShortDeliveryStep
<1>3. ShortDelivery => FinMeansDelivered
  BY DEF ShortDelivery, Delivery, EndInv, Integrity, EcritInv, FinMeansDelivered
<1> QED BY <1>1, <1>2, <1>3, PTL DEF Spec

(* Within a session the server's base never moves back.                     *)
THEOREM BaseCorrect ==
  ASSUME MaxMorceaux < SeqMod
  PROVE  Spec => BaseNeverRetreats
<1>1. Init => ShortDelivery
  BY ShortDeliveryInit
<1>2. ShortDelivery /\ [Next]_vars => ShortDelivery'
  BY ShortDeliveryStep
<1>3. ShortDelivery /\ [Next]_vars
        => [ShortFile /\ session /\ session' => base' >= base]_vars
  <2> SUFFICES ASSUME ShortFile, Delivery, [Next]_vars, session, session'
               PROVE  base' >= base
    BY DEF ShortDelivery
  <2>1. base \in Int
    BY DEF Delivery, Integrity, TypeOK, Seqnums
  <2>2. ASSUME NEW m \in versServeur, SrvRecvAck(m) PROVE base' >= base
    <3>1. m.type \in {"ACK", "SACK"} /\ base' = IF Ahead(m.seqnum) THEN m.seqnum ELSE base
      BY <2>2 DEF SrvRecvAck
    <3> QED BY <2>1, <3>1, AckForward
  <2>3. CASE SrvRecvGet
    BY <2>1, <2>3 DEF SrvRecvGet, etat
  <2>4. CASE SrvPumpSome(Fenetre)
    BY <2>1, <2>4 DEF SrvPumpSome, SrvPump, FreshEtat
  <2>5. CASE SrvRecvNothing \/ SrvPumpNobody \/ ClientRecvOther \/ ClientTimeout \/ NetLose
    BY <2>1, <2>5 DEF SrvRecvNothing, SrvPumpNobody, ClientRecvOther, ClientTimeout, NetLose, etat
  <2>6. ASSUME NEW m \in versClient, ClientRecvData(m) \/ ClientRecvFin(m) PROVE base' >= base
    BY <2>1, <2>6 DEF ClientRecvData, ClientRecvFin, etat
  <2>7. CASE UNCHANGED vars
    BY <2>1, <2>7 DEF vars, etat
  <2> QED BY <2>2, <2>3, <2>4, <2>5, <2>6, <2>7 DEF Next
<1> QED BY <1>1, <1>2, <1>3, PTL DEF Spec, BaseNeverRetreats
=============================================================================
