-------------------------- MODULE SackCodecProofs ---------------------------
(***************************************************************************)
(* How many sequence numbers a SACK packet holds, and what its decoders    *)
(* make of the padding.                                                    *)
(***************************************************************************)
EXTENDS SackCodec, SequenceTheorems, TLAPS

(* encode_sack's padding never adds a whole word and never cuts a bit.      *)
LEMMA PaddingBounds ==
  ASSUME NEW n \in Nat
  PROVE  /\ PaddedLen(n) \in Nat /\ PaddedLen(n) % Alignement = 0
         /\ n * Largeur <= PaddedLen(n) /\ PaddedLen(n) < n * Largeur + Alignement
BY CodecAssumption DEF PaddedLen

(* With sequence numbers of 11 bits padded to 32, the payload stays within  *)
(* the 1024 bytes empackage accepts exactly up to 744 sequence numbers: the *)
(* value of SrtpTransfer's MaxSack.                                         *)
THEOREM SackCapacity ==
  ASSUME Largeur = 11, Alignement = 32, NEW n \in Nat
  PROVE  PaddedLen(n) \div 8 <= 1024 <=> n <= 744
BY DEF PaddedLen

-----------------------------------------------------------------------------
(* What the bits after the sequence numbers decode to: k zeros.             *)
Padded(liste, k) ==
  [j \in 1..Len(liste) + k |-> IF j <= Len(liste) THEN liste[j] ELSE 0]

(* The greatest number of a set.                                            *)
LEMMA Greatest ==
  ASSUME NEW S \in SUBSET Nat, NEW m \in S, \A y \in S : y <= m
  PROVE  Max(S) = m
<1>1. \A y \in S : m >= y
  OBVIOUS
<1>2. Max(S) \in S /\ \A y \in S : Max(S) >= y
  BY <1>1, Zenon DEF Max
<1>3. Max(S) \in Nat /\ m \in Nat /\ Max(S) >= m /\ Max(S) <= m
  BY <1>2
<1> QED BY <1>3

(* The beginning of a padded list is that of the list.                      *)
LEMMA PaddedPrefix ==
  ASSUME NEW liste \in Seq(Nat), NEW k \in Nat, NEW m \in 0..Len(liste)
  PROVE  /\ SubSeq(Padded(liste, k), 1, m) = SubSeq(liste, 1, m)
         /\ SubSeq(liste, 1, Len(liste)) = liste
<1> DEFINE n == Len(liste)
           P == Padded(liste, k)
<1>1. n \in Nat /\ \A i \in 1..n : liste[i] \in Nat /\ P[i] = liste[i]
  BY LenProperties DEF Padded
<1> HIDE DEF P, n
<1>2. m \in Nat /\ m <= n
  BY <1>1 DEF n
<1>3. /\ SubSeq(P, 1, m) \in Seq(Nat) /\ SubSeq(liste, 1, m) \in Seq(Nat)
      /\ Len(SubSeq(P, 1, m)) = IF 1 <= m THEN m - 1 + 1 ELSE 0
      /\ Len(SubSeq(liste, 1, m)) = IF 1 <= m THEN m - 1 + 1 ELSE 0
      /\ \A i \in 1..m - 1 + 1 : SubSeq(P, 1, m)[i] = P[1 + i - 1]
      /\ \A i \in 1..m - 1 + 1 : SubSeq(liste, 1, m)[i] = liste[1 + i - 1]
  BY <1>1, <1>2, SubSeqProperties
<1>4. /\ Len(SubSeq(P, 1, m)) = m /\ Len(SubSeq(liste, 1, m)) = m
      /\ \A i \in 1..m : SubSeq(P, 1, m)[i] = SubSeq(liste, 1, m)[i]
  BY <1>1, <1>2, <1>3
<1>5. SubSeq(P, 1, m) = SubSeq(liste, 1, m)
  BY <1>3, <1>4, SeqEqual
<1>6. SubSeq(liste, 1, n) = liste
  <2>1. /\ SubSeq(liste, 1, n) \in Seq(Nat)
        /\ Len(SubSeq(liste, 1, n)) = IF 1 <= n THEN n - 1 + 1 ELSE 0
        /\ \A i \in 1..n - 1 + 1 : SubSeq(liste, 1, n)[i] = liste[1 + i - 1]
    BY <1>1, SubSeqProperties
  <2>2. Len(SubSeq(liste, 1, n)) = n /\ \A i \in 1..n : SubSeq(liste, 1, n)[i] = liste[i]
    BY <1>1, <2>1
  <2> QED BY <2>1, <2>2, SeqEqual DEF n
<1> QED BY <1>5, <1>6 DEF P, n

(* However many zeros the padding of a SACK decodes to, our decode_sack     *)
(* drops them and, of the sequence numbers, which are all different, only   *)
(* a last 0; group 20's decoder keeps that 0 too when it is alone.          *)
THEOREM OnlyPaddingStripped ==
  ASSUME NEW liste \in Seq(Nat), NEW k \in Nat,
         \A i, j \in 1..Len(liste) : liste[i] = liste[j] => i = j
  PROVE  /\ SansZeros(Padded(liste, k)) =
              IF liste # <<>> /\ Last(liste) = 0 THEN Front(liste) ELSE liste
         /\ liste # <<>> => StripsPadding(Padded(liste, k)) =
              IF Len(liste) > 1 /\ Last(liste) = 0 THEN Front(liste) ELSE liste
<1> DEFINE n == Len(liste)
           P == Padded(liste, k)
           Z == {i \in DOMAIN P : P[i] # 0}
<1>1. /\ n \in Nat /\ (liste # <<>> <=> n > 0)
      /\ Last(liste) = liste[n] /\ Front(liste) = SubSeq(liste, 1, n - 1)
  BY LenProperties, EmptySeq DEF Last, Front
<1>2. DOMAIN P = 1..n+k /\ \A j \in 1..n+k : P[j] = IF j <= n THEN liste[j] ELSE 0
  BY DEF Padded
<1>3. Z = {i \in 1..n : liste[i] # 0}
  BY <1>1, <1>2
<1>4. SansZeros(P) = SubSeq(P, 1, Max({0} \cup Z)) /\ StripsPadding(P) = SubSeq(P, 1, Max({1} \cup Z))
  BY DEF SansZeros, StripsPadding
<1>5. \A m \in 0..n : SubSeq(P, 1, m) = SubSeq(liste, 1, m) /\ SubSeq(liste, 1, n) = liste
  BY PaddedPrefix
<1>6. SubSeq(P, 1, n) = liste
  <2>1. n \in 0..n
    BY <1>1
  <2>2. SubSeq(P, 1, n) = SubSeq(liste, 1, n) /\ SubSeq(liste, 1, n) = liste
    BY <2>1, PaddedPrefix
  <2> QED BY <2>2
<1>7. \A i, j \in 1..n : liste[i] = liste[j] => i = j
  OBVIOUS
<1>8. SUFFICES /\ SansZeros(P) = IF n > 0 /\ liste[n] = 0 THEN SubSeq(liste, 1, n - 1) ELSE liste
               /\ n > 0 => StripsPadding(P) =
                    IF n > 1 /\ liste[n] = 0 THEN SubSeq(liste, 1, n - 1) ELSE liste
  BY <1>1
<1> HIDE DEF P, Z, n
<1>9. CASE n = 0
  <2>1. Max({0} \cup Z) = 0
    BY <1>3, <1>9, Greatest
  <2>2. SansZeros(P) = liste
    <3>1. SubSeq(P, 1, 0) = liste
      BY <1>6, <1>9, Zenon
    <3> QED BY <1>4, <2>1, <3>1, Zenon
  <2>3. ~(n > 0)
    BY <1>9
  <2> QED BY <2>2, <2>3, Zenon
<1>10. CASE n > 0 /\ liste[n] # 0
  <2>1. n \in Z /\ \A y \in Z : y \in 1..n
    BY <1>1, <1>3, <1>10
  <2>2. Max({0} \cup Z) = n /\ Max({1} \cup Z) = n
    <3>1. {0} \cup Z \in SUBSET Nat /\ {1} \cup Z \in SUBSET Nat
      BY <2>1
    <3>2. \A y \in {0, 1} \cup Z : y <= n
      BY <1>1, <1>10, <2>1
    <3> QED BY <2>1, <3>1, <3>2, Greatest
  <2> QED BY <1>4, <1>10, <1>6, <2>2
<1>11. CASE n > 0 /\ liste[n] = 0
  <2>1. n > 1 => liste[n - 1] # 0
    <3>1. n > 1 => n - 1 \in 1..n /\ n \in 1..n /\ n - 1 # n
      BY <1>1
    <3> QED BY <1>7, <1>11, <3>1
  <2>2. \A y \in Z : y \in Nat /\ y <= n - 1
    BY <1>1, <1>3, <1>11
  <2>3. n > 1 => n - 1 \in Z
    BY <1>1, <1>3, <2>1
  <2>4. Max({0} \cup Z) = n - 1
    <3>1. {0} \cup Z \in SUBSET Nat /\ n - 1 \in {0} \cup Z
      BY <1>1, <1>11, <2>2, <2>3
    <3>2. \A y \in {0} \cup Z : y <= n - 1
      BY <1>1, <1>11, <2>2
    <3> QED BY <3>1, <3>2, Greatest
  <2>5. n > 1 => Max({1} \cup Z) = n - 1
    <3> SUFFICES ASSUME n > 1 PROVE Max({1} \cup Z) = n - 1
      OBVIOUS
    <3>1. {1} \cup Z \in SUBSET Nat /\ n - 1 \in {1} \cup Z
      BY <2>2, <2>3
    <3>2. \A y \in {1} \cup Z : y <= n - 1
      BY <1>1, <2>2
    <3> QED BY <3>1, <3>2, Greatest
  <2>6. n = 1 => Max({1} \cup Z) = n
    <3> SUFFICES ASSUME n = 1 PROVE Max({1} \cup Z) = 1
      OBVIOUS
    <3>1. {1} \cup Z \in SUBSET Nat /\ \A y \in {1} \cup Z : y <= 1
      BY <1>1, <2>2
    <3> QED BY <3>1, Greatest
  <2>7. n - 1 \in 0..n /\ n \in 0..n /\ (n > 1 \/ n = 1)
    BY <1>1, <1>11
  <2>8. SansZeros(P) = SubSeq(liste, 1, n - 1)
    BY <1>1, <1>4, <1>5, <2>4, <2>7
  <2>9. StripsPadding(P) = IF n > 1 THEN SubSeq(liste, 1, n - 1) ELSE liste
    BY <1>1, <1>4, <1>5, <2>5, <2>6, <2>7
  <2> QED BY <1>11, <2>8, <2>9
<1> QED BY <1>1, <1>9, <1>10, <1>11
=============================================================================
