------------------------- MODULE PacketCodecProofs --------------------------
(***************************************************************************)
(* Packing and unpacking a segment, for every width of the header fields   *)
(* and every payload.                                                      *)
(***************************************************************************)
EXTENDS PacketCodec, SequenceTheorems, TLAPS

(* Shifting a field in below another one, and taking the two apart again.   *)
LEMMA ShiftIn ==
  ASSUME NEW a \in Nat, NEW m \in Nat \ {0}, NEW b \in 0..m-1
  PROVE  /\ a * m + b \in Nat
         /\ (a * m + b) % m = b
         /\ (a * m + b) \div m = a
OBVIOUS

(* Each field of the first header word is read back as it was packed.       *)
LEMMA HeaderFields ==
  ASSUME NEW t \in Nat, NEW w \in 0..WindowMod-1,
         NEW l \in 0..LongMod-1, NEW s \in 0..SeqnumMod-1
  PROVE  /\ Seqnum(Bloc(t, w, l, s)) = s
         /\ Longueur(Bloc(t, w, l, s)) = l
         /\ Window(Bloc(t, w, l, s)) = w
         /\ PackType(Bloc(t, w, l, s)) = t
<1> USE RadixAssumption
<1> DEFINE tw  == (t * WindowMod) + w
           twl == (tw * LongMod) + l
           b   == (twl * SeqnumMod) + s
<1>1. tw \in Nat /\ tw % WindowMod = w /\ tw \div WindowMod = t
  BY ShiftIn
<1> HIDE DEF tw
<1>2. twl \in Nat /\ twl % LongMod = l /\ twl \div LongMod = tw
  BY <1>1, ShiftIn
<1> HIDE DEF twl
<1>3. b \in Nat /\ b % SeqnumMod = s /\ b \div SeqnumMod = twl
  BY <1>2, ShiftIn
<1>4. b = Bloc(t, w, l, s)
  BY DEF Bloc, tw, twl
<1> HIDE DEF b
<1> QED BY <1>1, <1>2, <1>3, <1>4 DEF Seqnum, Longueur, Window, PackType

(* The bytes after a header with a payload: the payload, then its CRC.      *)
LEMMA SuiteBytes ==
  ASSUME NEW p \in Seq(Octets), p # <<>>
  PROVE  /\ Len(p) > 0 /\ Len(Suite(p)) = Len(p) + 4 /\ \E S : Suite(p) \in Seq(S)
         /\ \A i \in 1..Len(p) : Suite(p)[i] = p[i]
         /\ \A j \in 1..4 : Suite(p)[Len(p) + j] = <<p, j>>
<1> DEFINE l == Len(p)
           S == Octets \cup {<<p, j>> : j \in 1..4}
           c == Crc2(p)
           u == p \o c
<1>1. l \in Nat /\ l > 0 /\ p \in Seq(S)
  BY LenProperties, SeqMonotonic, EmptySeq
<1>2. c \in Seq(S) /\ Len(c) = 4 /\ \A j \in 1..4 : c[j] = <<p, j>>
  <2>0. \A j \in 1..4 : <<p, j>> \in S
    BY Zenon
  <2>1. c \in [1..4 -> S] /\ \A j \in 1..4 : c[j] = <<p, j>>
    <3> HIDE DEF S
    <3> QED BY <2>0, Zenon DEF Crc2
  <2>2. c \in Seq(S) /\ DOMAIN c = 1..4
    <3> HIDE DEF c, S
    <3> QED BY <2>1, SeqDef
  <2> QED BY <2>1, <2>2, LenProperties
<1> HIDE DEF c, S
<1>3. /\ u \in Seq(S) /\ Len(u) = Len(p) + Len(c)
      /\ \A i \in 1..Len(p) + Len(c) : u[i] = IF i <= Len(p) THEN p[i] ELSE c[i - Len(p)]
  BY <1>1, <1>2, ConcatProperties, Zenon
<1>4. u = Suite(p)
  BY DEF Suite, c
<1> HIDE DEF u
<1>5. \A j \in 1..4 : u[l + j] = <<p, j>>
  <2> TAKE j \in 1..4
  <2>1. l + j \in 1..l + 4 /\ ~(l + j <= l) /\ (l + j) - l = j
    BY <1>1
  <2> QED BY <1>2, <1>3, <2>1
<1>6. \A i \in 1..l : u[i] = p[i]
  BY <1>1, <1>2, <1>3
<1> QED BY <1>1, <1>2, <1>3, <1>4, <1>5, <1>6

(* The two slices depackage takes of the bytes after the header are the     *)
(* payload and its CRC.                                                     *)
LEMMA SuiteSlices ==
  ASSUME NEW p \in Seq(Octets), p # <<>>,
         NEW seg, seg.suite = Suite(p)
  PROVE  /\ Tranche(seg, 0, Len(p)) = p
         /\ Tranche(seg, Len(p), Len(p) + 4) = Crc2(p)
         /\ Len(seg.suite) = Len(p) + 4
<1> DEFINE l == Len(p)
           u == Suite(p)
<1>1. /\ l \in Nat /\ l > 0 /\ Len(u) = l + 4
      /\ \A i \in 1..l : u[i] = p[i]
      /\ \A j \in 1..4 : u[l + j] = <<p, j>>
  BY SuiteBytes, LenProperties
<1>2. PICK S : u \in Seq(S)
  BY SuiteBytes
<1> HIDE DEF u
<1>3. Tranche(seg, 0, l) = SubSeq(u, 1, l) /\ Tranche(seg, l, l + 4) = SubSeq(u, l + 1, l + 4)
  BY <1>1 DEF Tranche, u
<1>4. \A i \in 1..l + 4 : u[i] \in S
  BY <1>1, <1>2, LenProperties
<1>5. SubSeq(u, 1, l) = p
  <2>1. /\ SubSeq(u, 1, l) \in Seq(S)
        /\ Len(SubSeq(u, 1, l)) = IF 1 <= l THEN l - 1 + 1 ELSE 0
        /\ \A i \in 1..l - 1 + 1 : SubSeq(u, 1, l)[i] = u[1 + i - 1]
    BY <1>1, <1>4, SubSeqProperties
  <2>2. Len(SubSeq(u, 1, l)) = l /\ \A i \in 1..l : SubSeq(u, 1, l)[i] = p[i]
    BY <1>1, <2>1
  <2> QED BY <2>1, <2>2, SeqEqual
<1>6. SubSeq(u, l + 1, l + 4) = Crc2(p)
  <2>1. /\ SubSeq(u, l + 1, l + 4) \in Seq(S)
        /\ Len(SubSeq(u, l + 1, l + 4)) = IF l + 1 <= l + 4 THEN l + 4 - (l + 1) + 1 ELSE 0
        /\ \A i \in 1..l + 4 - (l + 1) + 1 : SubSeq(u, l + 1, l + 4)[i] = u[l + 1 + i - 1]
    BY <1>1, <1>4, SubSeqProperties
  <2>2. \A j \in 1..4 : j \in 1..l + 4 - (l + 1) + 1 /\ l + 1 + j - 1 = l + j
    BY <1>1
  <2>3. Len(SubSeq(u, l + 1, l + 4)) = 4 /\ \A j \in 1..4 : SubSeq(u, l + 1, l + 4)[j] = <<p, j>>
    BY <1>1, <2>1, <2>2
  <2>4. Crc2(p) \in Seq({<<p, j>> : j \in 1..4}) /\ Len(Crc2(p)) = 4
    <3>1. Crc2(p) \in Seq({<<p, j>> : j \in 1..4}) /\ DOMAIN Crc2(p) = 1..4
      BY SeqDef DEF Crc2
    <3> QED BY <3>1, LenProperties
  <2>5. \A j \in 1..4 : Crc2(p)[j] = <<p, j>>
    BY DEF Crc2
  <2> DEFINE c == Crc2(p)
             v == SubSeq(u, l + 1, l + 4)
  <2>6. Len(v) = Len(c) /\ \A i \in 1..Len(v) : v[i] = c[i]
    BY <2>3, <2>4, <2>5
  <2> HIDE DEF c, v
  <2>7. v \in Seq(S) /\ c \in Seq({<<p, j>> : j \in 1..4})
    BY <2>1, <2>4 DEF c, v
  <2>8. v = c
    BY <2>6, <2>7, SeqEqual
  <2> QED BY <2>8 DEF c, v
<1> QED BY <1>1, <1>3, <1>5, <1>6 DEF u

(* What every decoder finds in a segment that empackage built.              *)
LEMMA Unpacked ==
  ASSUME NEW t \in Nat, NEW w \in 0..WindowMod-1, NEW s \in 0..SeqnumMod-1, NEW ts,
         NEW p \in Seq(Octets), Len(p) <= MaxPayload,
         NEW seg, seg = empackage(t, w, s, ts, p)
  PROVE  /\ HeaderOk(seg)
         /\ PackType(seg.bloc) = t /\ Longueur(seg.bloc) = Len(p)
         /\ Len(seg.suite) = IF Len(p) = 0 THEN 0 ELSE Len(p) + 4
         /\ Len(p) = 0 => seg.suite = <<>>
         /\ Checked(seg) = <<t, w, s, ts, p>>
<1> USE RadixAssumption
<1> DEFINE l  == Len(p)
           bl == Bloc(t, w, l, s)
<1>1. l \in 0..LongMod-1 /\ s % SeqnumMod = s
  BY LenProperties
<1>2. /\ Seqnum(bl) = s /\ Longueur(bl) = l
      /\ Window(bl) = w /\ PackType(bl) = t
  BY <1>1, HeaderFields
<1> HIDE DEF bl
<1>3. /\ seg.bloc = bl /\ seg.ts = ts /\ seg.crc1 = <<seg.bloc, seg.ts>>
      /\ seg.suite = Suite(p) /\ seg.entier
  BY <1>1 DEF empackage, bl
<1>4. HeaderOk(seg)
  BY <1>3 DEF HeaderOk
<1>5. CASE p = <<>>
  <2>1. l = 0 /\ seg.suite = <<>> /\ Len(seg.suite) = 0
    BY <1>3, <1>5, EmptySeq DEF Suite
  <2>2. Tranche(seg, 0, 0) = <<>>
    <3>1. Tranche(seg, 0, 0) = SubSeq(<<>>, 1, 0)
      BY <2>1, EmptySeq DEF Tranche
    <3> QED BY <3>1, SubSeqEmpty
  <2>3. Checked(seg) = <<PackType(bl), Window(bl), Seqnum(bl), ts, Tranche(seg, 0, 0)>>
    BY <1>2, <1>3, <2>1 DEF Checked
  <2> QED BY <1>2, <1>3, <1>4, <1>5, <2>1, <2>2, <2>3
<1>6. CASE p # <<>>
  <2>1. l \in Nat \ {0}
    BY <1>6, EmptySeq
  <2>2. /\ Tranche(seg, 0, l) = p /\ Tranche(seg, l, l + 4) = Crc2(p)
        /\ Len(seg.suite) = l + 4
    BY <1>3, <1>6, SuiteSlices
  <2>3. Len(Crc2(p)) = 4
    <3>1. Crc2(p) \in Seq({<<p, j>> : j \in 1..4}) /\ DOMAIN Crc2(p) = 1..4
      BY SeqDef DEF Crc2
    <3> QED BY <3>1, LenProperties
  <2>4. Crc2Check(seg, l)
    BY <2>2 DEF Crc2Check
  <2>5. Checked(seg) = <<PackType(bl), Window(bl), Seqnum(bl), ts, Tranche(seg, 0, l)>>
    <3>1. ~(Len(Tranche(seg, l, l + 4)) < 4)
      <4>1. Len(Tranche(seg, l, l + 4)) = 4
        BY <2>2, <2>3, Zenon
      <4>2. ~(4 < 4)
        OBVIOUS
      <4> QED BY <4>1, <4>2, Zenon
    <3>2. l # 0 /\ Longueur(seg.bloc) = l
      BY <1>2, <1>3, <2>1
    <3> HIDE DEF l
    <3> QED BY <1>3, <2>4, <3>1, <3>2, Zenon DEF Checked
  <2> QED BY <1>2, <1>3, <1>4, <2>1, <2>2, <2>5
<1> QED BY <1>5, <1>6

(* Every group's decoder undoes every group's encoder.                      *)
LEMMA ReadsEmpackage ==
  ASSUME NEW t \in {PTYPE_DATA, PTYPE_ACK, PTYPE_SACK}, NEW w \in 0..WindowMod-1,
         NEW s \in 0..SeqnumMod-1, NEW ts, NEW p \in Seq(Octets), Len(p) <= MaxPayload,
         NEW g \in Groupes, g = 20 => WordSized(t, Len(p))
  PROVE  Reads(g, empackage(t, w, s, ts, p)) = <<t, w, s, ts, p>>
<1> DEFINE seg == empackage(t, w, s, ts, p)
<1>1. t \in Nat
  BY DEF PTYPE_DATA, PTYPE_ACK, PTYPE_SACK
<1>2. /\ HeaderOk(seg)
      /\ PackType(seg.bloc) = t /\ Longueur(seg.bloc) = Len(p)
      /\ Len(seg.suite) = IF Len(p) = 0 THEN 0 ELSE Len(p) + 4
      /\ Len(p) = 0 => seg.suite = <<>>
      /\ Checked(seg) = <<t, w, s, ts, p>>
  BY <1>1, Unpacked
<1> HIDE DEF seg
<1>3. FieldsOk(seg)
  BY <1>2 DEF FieldsOk
<1>4. LongEnough(seg) /\ NothingAfter(seg) /\ NothingMore(seg)
  BY <1>2, LenProperties DEF LongEnough, NothingAfter, NothingMore
<1> SUFFICES Reads(g, seg) = <<t, w, s, ts, p>>
  BY DEF seg
<1>5. CASE g = 0
  BY <1>2, <1>5 DEF Reads, depackage
<1>6. CASE g = 20
  <2>1. WordSized(PackType(seg.bloc), Longueur(seg.bloc))
    BY <1>2, <1>6
  <2> QED BY <1>2, <1>3, <1>4, <1>6, <2>1 DEF Reads, from_segment
<1>7. CASE g = 42
  BY <1>2, <1>3, <1>4, <1>7 DEF Reads, decode
<1>8. CASE g = 61
  BY <1>2, <1>3, <1>4, <1>8 DEF Reads, decode_pack
<1> QED BY <1>5, <1>6, <1>7, <1>8 DEF Groupes

-----------------------------------------------------------------------------
(* What travels, until the link alters it, is what empackage built.         *)
Intact ==
  \E t \in {PTYPE_DATA, PTYPE_ACK, PTYPE_SACK}, w \in 0..WindowMod-1,
     s \in 0..SeqnumMod-1, ts \in {0, 1}, p \in Seq(Octets) :
    /\ Len(p) <= MaxPayload
    /\ envoye = <<t, w, s, ts, p>>
    /\ segment = empackage(t, w, s, ts, p)

CodecInv == ~altere => Intact /\ IntactAccepted

(* The payloads the model sends are those the code would accept.            *)
LEMMA PayloadsAccepted ==
  ASSUME NEW p \in Payloads
  PROVE  p \in Seq(Octets) /\ Len(p) <= MaxPayload
<1>1. PICK n \in 0..MaxPayload : p \in [1..n -> Octets]
  BY DEF Payloads
<1>2. n \in Nat
  BY RadixAssumption
<1>3. p \in Seq(Octets) /\ Len(p) = n
  BY <1>1, <1>2, SeqDef, LenProperties
<1> QED BY <1>3, RadixAssumption

(* The sequence number that travels fits its field.                         *)
LEMMA NumeroFits ==
  ASSUME NEW g \in Groupes, NEW s \in 0..SeqnumMod
  PROVE  Numero(g, s) \in 0..SeqnumMod-1
BY RadixAssumption DEF Numero, fill_header

(* A segment leaves its sender as empackage built it.                       *)
LEMMA InitIntact == Init => Intact
<1> SUFFICES ASSUME Init PROVE Intact
  OBVIOUS
<1>1. PICK g \in Groupes, t \in {PTYPE_DATA, PTYPE_ACK, PTYPE_SACK},
           w \in 0..WindowMod-1, s \in 0..SeqnumMod, ts \in {0, 1}, p \in Payloads :
        /\ envoye = <<t, w, Numero(g, s), ts, p>>
        /\ segment = empackage(t, w, Numero(g, s), ts, p)
  BY DEF Init, to_segment
<1>2. Numero(g, s) \in 0..SeqnumMod-1 /\ p \in Seq(Octets) /\ Len(p) <= MaxPayload
  BY PayloadsAccepted, NumeroFits
<1> QED BY <1>1, <1>2, Zenon DEF Intact

(* An unaltered segment of any type, window, sequence number and payload,   *)
(* encoded by any of the four groups, is received as it was sent by any of  *)
(* the four, except for the shapes group 20 refuses.                        *)
THEOREM IntactCorrect == Spec => []IntactAccepted
<1> USE RadixAssumption
<1>1. Init => CodecInv
  <2>1. Init => resultat = Attente
    BY DEF Init
  <2> QED BY <2>1, InitIntact DEF CodecInv, IntactAccepted
<1>2. CodecInv /\ [Next]_vars => CodecInv'
  <2> SUFFICES ASSUME CodecInv, [Next]_vars, ~altere' PROVE Intact' /\ IntactAccepted'
    BY DEF CodecInv
  <2>1. ASSUME NEW g \in Groupes, Receive(g) PROVE Intact' /\ IntactAccepted'
    <3>1. /\ UNCHANGED <<envoye, segment, altere>>
          /\ lecteur' = g /\ resultat' = Reads(g, segment)
      BY <2>1 DEF Receive
    <3>2. Intact /\ Intact'
      BY <3>1 DEF CodecInv, Intact
    <3>3. PICK t \in {PTYPE_DATA, PTYPE_ACK, PTYPE_SACK}, w \in 0..WindowMod-1,
               s \in 0..SeqnumMod-1, ts \in {0, 1}, p \in Seq(Octets) :
             /\ Len(p) <= MaxPayload
             /\ envoye = <<t, w, s, ts, p>>
             /\ segment = empackage(t, w, s, ts, p)
      BY <3>2 DEF Intact
    <3>4. envoye[1] = t /\ envoye[5] = p
      BY <3>3
    <3>5. (g = 20 => WordSized(envoye[1], Len(envoye[5]))) => Reads(g, segment) = envoye
      BY <3>3, <3>4, ReadsEmpackage
    <3> QED BY <3>1, <3>2, <3>5 DEF IntactAccepted
  <2>2. CASE Corrupt \/ Cut \/ Shorten \/ Behead
    BY <2>2 DEF Corrupt, Cut, Shorten, Behead
  <2>3. CASE UNCHANGED vars
    BY <2>3 DEF vars, CodecInv, Intact, IntactAccepted
  <2> QED BY <2>1, <2>2, <2>3 DEF Next
<1>3. CodecInv => IntactAccepted
  BY DEF CodecInv, IntactAccepted
<1> QED BY <1>1, <1>2, <1>3, PTL DEF Spec

-----------------------------------------------------------------------------
(* Altered segments.                                                        *)

(* A sequence is one of its own elements.                                   *)
Bytes(u) == {u[i] : i \in DOMAIN u}
LEMMA OwnBytes ==
  ASSUME NEW S, NEW u \in Seq(S)
  PROVE  u \in Seq(Bytes(u)) /\ DOMAIN u = 1..Len(u) /\ Len(u) \in Nat
<1>1. DOMAIN u = 1..Len(u) /\ Len(u) \in Nat
  BY LenProperties
<1>2. u \in [1..Len(u) -> Bytes(u)]
  <2>1. u = [i \in 1..Len(u) |-> u[i]]
    BY LenProperties
  <2>2. \A i \in 1..Len(u) : u[i] \in Bytes(u)
    BY <1>1 DEF Bytes
  <2> HIDE DEF Bytes
  <2> QED BY <2>1, <2>2
<1> QED BY <1>1, <1>2, SeqDef

(* The slices of the bytes u after a header that announces l of them.       *)
LEMMA Slices ==
  ASSUME NEW S, NEW u \in Seq(S), NEW l \in Nat, NEW seg, seg.suite = u
  PROVE  /\ Len(u) = l + 4 =>
              /\ Len(Tranche(seg, l, l + 4)) = 4
              /\ \A j \in 1..4 : Tranche(seg, l, l + 4)[j] = u[l + j]
         /\ Len(u) < l + 4 => Len(Tranche(seg, l, l + 4)) < 4
<1> DEFINE n == IF l + 4 < Len(u) THEN l + 4 ELSE Len(u)
<1>1. Len(u) \in Nat /\ n \in Nat /\ n <= Len(u) /\ Tranche(seg, l, l + 4) = SubSeq(u, l + 1, n)
  BY LenProperties DEF Tranche
<1>2. \A i \in l + 1..n : u[i] \in S
  BY <1>1, LenProperties
<1> HIDE DEF n
<1>3. /\ Len(SubSeq(u, l + 1, n)) = IF l + 1 <= n THEN n - (l + 1) + 1 ELSE 0
      /\ \A i \in 1..n - (l + 1) + 1 : SubSeq(u, l + 1, n)[i] = u[l + 1 + i - 1]
  BY <1>1, <1>2, SubSeqProperties
<1>4. CASE Len(u) = l + 4
  <2>1. n = l + 4
    BY <1>1, <1>4 DEF n
  <2>2. \A j \in 1..4 : l + 1 + j - 1 = l + j /\ j \in 1..n - (l + 1) + 1
    BY <2>1
  <2>3. Len(SubSeq(u, l + 1, n)) = 4
    BY <1>3, <2>1
  <2>4. \A j \in 1..4 : SubSeq(u, l + 1, n)[j] = u[l + j]
    BY <1>3, <2>2
  <2>5. Tranche(seg, l, l + 4) = SubSeq(u, l + 1, n) /\ ~(Len(u) < l + 4)
    BY <1>1, <1>4
  <2> QED BY <2>3, <2>4, <2>5, Zenon
<1>5. CASE Len(u) < l + 4
  <2>1. n < l + 4
    BY <1>1, <1>5
  <2> QED BY <1>1, <1>3, <1>5, <2>1
<1> QED BY <1>4, <1>5, <1>1

(* A place among the last four bytes is one of the CRC's.                   *)
LEMMA CrcPlace ==
  ASSUME NEW n \in Nat, NEW j \in 1..n+4, j \notin 1..n
  PROVE  j - n \in 1..4 /\ j = n + (j - n)
OBVIOUS

(* The payload is what comes before the last four bytes.                    *)
LEMMA PayloadSlice ==
  ASSUME NEW S, NEW u \in Seq(S), NEW l \in Nat, NEW seg, seg.suite = u, Len(u) = l + 4
  PROVE  \A i \in 1..l : Tranche(seg, 0, l)[i] = u[i]
<1>1. Tranche(seg, 0, l) = SubSeq(u, 1, l)
  BY DEF Tranche
<1>2. \A i \in 1..l : u[i] \in S
  BY LenProperties
<1>3. \A i \in 1..l - 1 + 1 : SubSeq(u, 1, l)[i] = u[1 + i - 1]
  BY <1>2, SubSeqProperties
<1>4. \A i \in 1..l : i \in 1..l - 1 + 1 /\ 1 + i - 1 = i
  OBVIOUS
<1> QED BY <1>1, <1>3, <1>4

(* The four words a decoder may answer are not packets.                     *)
LEMMA Answers ==
  /\ None # Exception /\ None # Attente /\ Exception # Attente
  /\ \A t, w, s, ts, p : <<t, w, s, ts, p>> \notin {None, Exception, Attente}
BY DEF None, Exception, Attente

(* A segment that lost bytes after its header: our decoder raises, the      *)
(* others reject it.                                                        *)
LEMMA Truncated ==
  ASSUME NEW S, NEW seg, seg.suite \in Seq(S), Longueur(seg.bloc) \in Nat \ {0},
         Len(seg.suite) < Longueur(seg.bloc) + 4, NEW g \in Groupes
  PROVE  Reads(g, seg) \in {None, Exception} /\ (g # 0 => Reads(g, seg) = None)
<1> DEFINE l == Longueur(seg.bloc)
<1>1. Len(Tranche(seg, l, l + 4)) < 4
  BY Slices
<1>2. Checked(seg) = Exception
  BY <1>1 DEF Checked
<1>3. ~LongEnough(seg)
  BY LenProperties DEF LongEnough
<1> QED BY <1>2, <1>3 DEF Groupes, Reads, depackage, decode, decode_pack, from_segment

(* A segment one byte of which has changed after the header: whatever the   *)
(* byte, its payload fails the check of its CRC.                            *)
LEMMA OneByteWrong ==
  ASSUME NEW t \in Nat, NEW w \in 0..WindowMod-1, NEW s \in 0..SeqnumMod-1,
         NEW p \in Seq(Octets), p # <<>>, Len(p) <= MaxPayload,
         NEW S, NEW seg, seg.suite \in Seq(S), Len(seg.suite) = Len(p) + 4,
         seg.bloc = Bloc(t, w, Len(p), s),
         \E j \in 1..4 : seg.suite[Len(p) + j] = <<p, j>>,
         \E i \in 1..Len(p) + 4 : seg.suite[i] # Suite(p)[i],
         NEW g \in Groupes
  PROVE  Reads(g, seg) = None
<1> USE RadixAssumption
<1> DEFINE l == Len(p)
           P == Tranche(seg, 0, l)
           C == Tranche(seg, l, l + 4)
<1>1. l \in Nat \ {0} /\ l \in 0..LongMod-1
  BY EmptySeq, LenProperties
<1>2. /\ Seqnum(seg.bloc) = s /\ Longueur(seg.bloc) = l
      /\ Window(seg.bloc) = w /\ PackType(seg.bloc) = t
  BY <1>1, HeaderFields
<1>3. Len(C) = 4 /\ \A j \in 1..4 : C[j] = seg.suite[l + j]
  BY <1>1, Slices
<1>4. Crc2Check(seg, l) => P = p
  <2> SUFFICES ASSUME Crc2Check(seg, l) PROVE P = p
    OBVIOUS
  <2>1. PICK j \in 1..4 : seg.suite[l + j] = <<p, j>>
    OBVIOUS
  <2>2. C = [i \in 1..4 |-> <<P, i>>]
    BY DEF Crc2Check, Crc2
  <2>3. C[j] = <<p, j>>
    BY <1>3, <2>1
  <2> HIDE DEF P, C
  <2>4. <<P, j>> = <<p, j>>
    BY <2>2, <2>3
  <2> QED BY <2>4
<1>5. ~Crc2Check(seg, l)
  <2> SUFFICES ASSUME Crc2Check(seg, l) PROVE FALSE
    OBVIOUS
  <2>1. P = p /\ \A j \in 1..4 : C[j] = <<p, j>>
    BY <1>4 DEF Crc2Check, Crc2
  <2>2. \A i \in 1..l : seg.suite[i] = p[i]
    <3>1. \A i \in 1..l : P[i] = seg.suite[i]
      BY <1>1, PayloadSlice
    <3> QED BY <2>1, <3>1
  <2>3. \A j \in 1..4 : seg.suite[l + j] = <<p, j>>
    BY <1>3, <2>1
  <2>4. /\ \A i \in 1..l : Suite(p)[i] = p[i]
        /\ \A j \in 1..4 : Suite(p)[l + j] = <<p, j>>
    BY SuiteBytes
  <2>5. PICK i \in 1..l + 4 : seg.suite[i] # Suite(p)[i]
    OBVIOUS
  <2>6. i \in 1..l \/ (i - l \in 1..4 /\ i = l + (i - l))
    BY <1>1, CrcPlace
  <2> HIDE DEF l, P, C
  <2>7. CASE i \in 1..l
    BY <2>2, <2>4, <2>5, <2>7
  <2>8. CASE i - l \in 1..4 /\ i = l + (i - l)
    BY <2>3, <2>4, <2>5, <2>8
  <2> QED BY <2>6, <2>7, <2>8
<1> HIDE DEF l
<1>6. Checked(seg) = None
  <2>1. l # 0 /\ ~(Len(C) < 4)
    BY <1>1, <1>3
  <2> QED BY <1>2, <1>5, <2>1 DEF Checked
<1> QED BY <1>6 DEF Groupes, Reads, depackage, decode, decode_pack, from_segment, l

(* Nobody reads past a header that is not the one sent.                     *)
LEMMA BadHeader ==
  ASSUME NEW seg, ~HeaderOk(seg), NEW g \in Groupes
  PROVE  Reads(g, seg) = None
BY DEF Groupes, Reads, depackage, decode, decode_pack, from_segment

(* What may travel: the segment that was sent; one whose header is broken;  *)
(* one with a changed byte after an intact header, or that has lost bytes   *)
(* after one.                                                               *)
OneByte(p) ==
  /\ p # <<>> /\ segment.suite \in Seq(Bytes(segment.suite))
  /\ Len(segment.suite) = Len(p) + 4
  /\ \E j \in 1..4 : segment.suite[Len(p) + j] = <<p, j>>
  /\ \E i \in 1..Len(p) + 4 : segment.suite[i] # Suite(p)[i]
Short(p) ==
  /\ p # <<>> /\ segment.suite \in Seq(Bytes(segment.suite))
  /\ Len(segment.suite) < Len(p) + 4

Travels ==
  \E t \in {PTYPE_DATA, PTYPE_ACK, PTYPE_SACK}, w \in 0..WindowMod-1,
     s \in 0..SeqnumMod-1, ts \in {0, 1}, p \in Seq(Octets) :
    /\ Len(p) <= MaxPayload
    /\ envoye = <<t, w, s, ts, p>>
    /\ \/ ~altere /\ segment = empackage(t, w, s, ts, p)
       \/ /\ altere
          /\ \/ ~HeaderOk(segment)
             \/ /\ segment.bloc = Bloc(t, w, Len(p), s) /\ segment.ts = ts
                /\ OneByte(p) \/ Short(p)

TravelsInv == /\ altere \in BOOLEAN /\ (~altere => Intact) /\ Travels
              /\ NothingForged /\ OthersRejectAltered

(* An intact segment is read as it was sent, or refused by group 20.        *)
LEMMA ReadsIntact ==
  ASSUME NEW t \in {PTYPE_DATA, PTYPE_ACK, PTYPE_SACK}, NEW w \in 0..WindowMod-1,
         NEW s \in 0..SeqnumMod-1, NEW ts, NEW p \in Seq(Octets), Len(p) <= MaxPayload,
         NEW g \in Groupes
  PROVE  Reads(g, empackage(t, w, s, ts, p)) \in {None, <<t, w, s, ts, p>>}
<1> DEFINE seg == empackage(t, w, s, ts, p)
<1>1. CASE g = 20 => WordSized(t, Len(p))
  BY <1>1, ReadsEmpackage
<1>2. CASE g = 20 /\ ~WordSized(t, Len(p))
  <2>1. t \in Nat
    BY DEF PTYPE_DATA, PTYPE_ACK, PTYPE_SACK
  <2>2. PackType(seg.bloc) = t /\ Longueur(seg.bloc) = Len(p)
    BY <2>1, Unpacked
  <2> HIDE DEF seg
  <2>3. Reads(g, seg) = None
    BY <1>2, <2>2 DEF Reads, from_segment
  <2> QED BY <2>3 DEF seg
<1> QED BY <1>1, <1>2

(* Whoever receives what travels makes of it what was sent, or nothing.     *)
LEMMA ReadsTravels ==
  ASSUME Travels, NEW g \in Groupes
  PROVE  /\ Reads(g, segment) \in {None, Exception, envoye}
         /\ altere /\ g # 0 => Reads(g, segment) = None
<1> USE RadixAssumption
<1>1. PICK t \in {PTYPE_DATA, PTYPE_ACK, PTYPE_SACK}, w \in 0..WindowMod-1,
           s \in 0..SeqnumMod-1, ts \in {0, 1}, p \in Seq(Octets) :
        /\ Len(p) <= MaxPayload
        /\ envoye = <<t, w, s, ts, p>>
        /\ \/ ~altere /\ segment = empackage(t, w, s, ts, p)
           \/ /\ altere
              /\ \/ ~HeaderOk(segment)
                 \/ /\ segment.bloc = Bloc(t, w, Len(p), s) /\ segment.ts = ts
                    /\ OneByte(p) \/ Short(p)
  BY DEF Travels
<1>2. t \in Nat
  BY DEF PTYPE_DATA, PTYPE_ACK, PTYPE_SACK
<1>3. CASE ~altere /\ segment = empackage(t, w, s, ts, p)
  <2>1. Reads(g, segment) \in {None, <<t, w, s, ts, p>>}
    BY <1>1, <1>3, ReadsIntact
  <2> QED BY <1>1, <1>3, <2>1
<1>4. CASE altere /\ ~HeaderOk(segment)
  BY <1>4, BadHeader, Answers
<1>5. CASE altere /\ segment.bloc = Bloc(t, w, Len(p), s) /\ segment.ts = ts /\ OneByte(p)
  <2> DEFINE S == Bytes(segment.suite)
  <2>1. /\ p # <<>> /\ segment.suite \in Seq(S) /\ Len(segment.suite) = Len(p) + 4
        /\ \E j \in 1..4 : segment.suite[Len(p) + j] = <<p, j>>
        /\ \E i \in 1..Len(p) + 4 : segment.suite[i] # Suite(p)[i]
    BY <1>5 DEF OneByte
  <2> HIDE DEF S
  <2>2. Reads(g, segment) = None
    BY <1>1, <1>2, <1>5, <2>1, OneByteWrong
  <2> QED BY <2>2
<1>6. CASE altere /\ segment.bloc = Bloc(t, w, Len(p), s) /\ Short(p)
  <2>1. Len(p) \in Nat \ {0} /\ Len(p) \in 0..LongMod-1
    BY <1>1, <1>6, EmptySeq, LenProperties DEF Short
  <2>2. Longueur(segment.bloc) = Len(p)
    BY <1>2, <1>6, <2>1, HeaderFields
  <2>3. Reads(g, segment) \in {None, Exception} /\ (g # 0 => Reads(g, segment) = None)
    BY <1>6, <2>1, <2>2, Truncated DEF Short
  <2> QED BY <1>6, <2>3, Answers
<1> QED BY <1>1, <1>3, <1>4, <1>5, <1>6

(* What the link does to the segment that was sent.                         *)
LEMMA LinkTravels ==
  ASSUME Intact, Corrupt \/ Cut \/ Shorten \/ Behead
  PROVE  Travels'
<1> USE RadixAssumption
<1>1. PICK t \in {PTYPE_DATA, PTYPE_ACK, PTYPE_SACK}, w \in 0..WindowMod-1,
           s \in 0..SeqnumMod-1, ts \in {0, 1}, p \in Seq(Octets) :
        /\ Len(p) <= MaxPayload
        /\ envoye = <<t, w, s, ts, p>>
        /\ segment = empackage(t, w, s, ts, p)
  BY DEF Intact
<1> DEFINE l == Len(p)
           b == Bloc(t, w, l, s)
           u == Suite(p)
<1>2. t \in Nat /\ l \in Nat /\ l \in 0..LongMod-1
  BY <1>1, LenProperties DEF PTYPE_DATA, PTYPE_ACK, PTYPE_SACK
<1>3. segment = [bloc |-> b, ts |-> ts, crc1 |-> <<b, ts>>, entier |-> TRUE, suite |-> u]
  <2>1. s % SeqnumMod = s
    OBVIOUS
  <2> QED BY <1>1, <2>1 DEF empackage
<1>4. SUFFICES \/ ~HeaderOk(segment')
               \/ /\ segment'.bloc = b /\ segment'.ts = ts
                  /\ OneByte(p)' \/ Short(p)'
  <2>1. altere' /\ envoye' = <<t, w, s, ts, p>>
    BY <1>1 DEF Corrupt, Cut, Shorten, Behead
  <2>2. HeaderOk(segment)' = HeaderOk(segment')
    BY DEF HeaderOk
  <2> QED BY <1>1, <1>4, <2>1, <2>2 DEF Travels
<1>5. p # <<>> => /\ l > 0 /\ Len(u) = l + 4 /\ \E S : u \in Seq(S)
                  /\ \A j \in 1..4 : u[l + j] = <<p, j>>
  <2> SUFFICES ASSUME p # <<>>
               PROVE  /\ l > 0 /\ Len(u) = l + 4 /\ \E S : u \in Seq(S)
                      /\ \A j \in 1..4 : u[l + j] = <<p, j>>
    OBVIOUS
  <2> QED BY SuiteBytes
<1>6. p = <<>> => u = <<>>
  BY DEF Suite
<1> HIDE DEF b, u, l
<1>7. CASE Behead
  BY <1>7 DEF Behead, HeaderOk
<1>8. CASE Shorten
  <2>1. Len(u) > MaxPktLen /\ segment' = [segment EXCEPT !.suite = SubSeq(u, 1, MaxPktLen)]
    BY <1>3, <1>8 DEF Shorten
  <2>2. p # <<>>
    BY <1>6, <2>1, EmptySeq
  <2>3. PICK S : u \in Seq(S)
    BY <1>5, <2>2
  <2>4. SubSeq(u, 1, MaxPktLen) \in Seq(S) /\ Len(SubSeq(u, 1, MaxPktLen)) < l + 4
    <3>1. \A i \in 1..MaxPktLen : u[i] \in S
      BY <2>1, <2>3, LenProperties
    <3>2. /\ SubSeq(u, 1, MaxPktLen) \in Seq(S)
          /\ Len(SubSeq(u, 1, MaxPktLen)) = IF 1 <= MaxPktLen THEN MaxPktLen - 1 + 1 ELSE 0
      BY <3>1, SubSeqProperties
    <3>3. Len(u) = l + 4
      BY <1>5, <2>2
    <3>4. Len(SubSeq(u, 1, MaxPktLen)) = MaxPktLen
      BY <3>2
    <3> QED BY <1>2, <2>1, <3>2, <3>3, <3>4
  <2>5. /\ segment'.bloc = b /\ segment'.ts = ts
        /\ segment'.suite = SubSeq(u, 1, MaxPktLen)
    BY <1>3, <2>1
  <2>6. Short(p)'
    <3> DEFINE v == SubSeq(u, 1, MaxPktLen)
    <3>1. v \in Seq(Bytes(v)) /\ Len(v) < l + 4 /\ segment'.suite = v
      BY <2>4, <2>5, OwnBytes
    <3> HIDE DEF v
    <3> QED BY <2>2, <3>1 DEF Short, l
  <2> QED BY <2>5, <2>6
<1>9. CASE Cut
  <2> DEFINE c == Bloc(PackType(b), CutMark(Window(b)), Longueur(b), Seqnum(b))
  <2>1. u # <<>> /\ segment' = [segment EXCEPT !.bloc = c, !.suite = <<>>]
    BY <1>3, <1>9 DEF Cut
  <2> HIDE DEF c
  <2>2. /\ segment'.bloc = c /\ segment'.ts = ts /\ segment'.crc1 = <<b, ts>>
        /\ segment'.suite = <<>>
    BY <1>3, <2>1
  <2>3. CASE c # b
    BY <2>2, <2>3 DEF HeaderOk
  <2>4. CASE c = b
    <3>1. Short(p)'
      BY <1>2, <1>6, <2>1, <2>2, EmptySeq, OwnBytes DEF Short, l, Bytes
    <3> QED BY <2>2, <2>4, <3>1
  <2> QED BY <2>3, <2>4
<1>10. CASE Corrupt
  <2>1. CASE \E x : x # segment.bloc /\ segment' = [segment EXCEPT !.bloc = x]
    BY <1>3, <2>1 DEF HeaderOk
  <2>2. CASE segment' = [segment EXCEPT !.ts = 1 - segment.ts]
    <3>1. 1 - ts # ts
      OBVIOUS
    <3> QED BY <1>3, <2>2, <3>1 DEF HeaderOk
  <2>3. CASE segment' = [segment EXCEPT !.crc1 = <<>>]
    BY <1>3, <2>3 DEF HeaderOk
  <2>4. ASSUME NEW i \in DOMAIN segment.suite, NEW x, x # segment.suite[i],
               segment' = [segment EXCEPT !.suite[i] = x]
        PROVE  segment'.bloc = b /\ segment'.ts = ts /\ OneByte(p)'
    <3>1. /\ segment'.bloc = b /\ segment'.ts = ts /\ i \in DOMAIN u /\ x # u[i]
          /\ segment'.suite = [u EXCEPT ![i] = x]
      BY <1>3, <2>4
    <3>2. p # <<>>
      BY <1>6, <3>1, EmptySeq
    <3>3. PICK S : u \in Seq(S)
      BY <1>5, <3>2
    <3> DEFINE v == [u EXCEPT ![i] = x]
               T == S \cup {x}
    <3>4. u \in [1..l+4 -> S] /\ l + 4 \in Nat /\ i \in 1..l+4
      BY <1>2, <1>5, <3>1, <3>2, <3>3, LenProperties
    <3>5. v \in [1..l+4 -> T]
      BY <3>4
    <3>6. v[i] = x /\ \A j \in 1..l+4 : j # i => v[j] = u[j]
      BY <3>4
    <3> HIDE DEF v, T
    <3>7. v \in Seq(T) /\ Len(v) = l + 4
      BY <3>4, <3>5, SeqDef, LenProperties
    <3>8. \E j \in 1..4 : v[l + j] = <<p, j>>
      <4>1. CASE i # l + 1
        <5>1. 1 \in 1..4 /\ l + 1 \in 1..l+4
          BY <1>2
        <5> QED BY <1>5, <3>2, <3>6, <4>1, <5>1
      <4>2. CASE i = l + 1
        <5>1. 2 \in 1..4 /\ l + 2 \in 1..l+4 /\ l + 2 # i
          BY <1>2, <4>2
        <5> QED BY <1>5, <3>2, <3>6, <5>1
      <4> QED BY <4>1, <4>2
    <3>9. segment'.suite = v
      BY <3>1 DEF v
    <3>10. v \in Seq(Bytes(v))
      BY <3>7, OwnBytes
    <3>11. \E j \in 1..Len(p)+4 : v[j] # Suite(p)[j]
      BY <3>1, <3>4, <3>6 DEF u, l
    <3> QED BY <3>1, <3>2, <3>7, <3>8, <3>9, <3>10, <3>11 DEF OneByte, l
  <2>5. CASE \E i \in 1..Len(envoye[5]), o \in Octets :
               o # segment.suite[i] /\ segment' = [segment EXCEPT !.suite[i] = o]
    <3>1. PICK i \in 1..l, o \in Octets :
             o # segment.suite[i] /\ segment' = [segment EXCEPT !.suite[i] = o]
      BY <1>1, <2>5 DEF l
    <3>2. p # <<>> /\ segment.suite = u
      BY <1>2, <1>3, <3>1, EmptySeq DEF l
    <3>3. DOMAIN u = 1..l+4
      BY <1>5, <3>2, LenProperties
    <3>4. i \in DOMAIN segment.suite
      BY <1>2, <3>2, <3>3
    <3> QED BY <2>4, <3>1, <3>4
  <2>6. CASE \E i \in DOMAIN segment.suite \ 1..Len(envoye[5]) :
               segment' = [segment EXCEPT !.suite[i] = <<>>]
    <3>1. PICK i \in DOMAIN segment.suite \ 1..l : segment' = [segment EXCEPT !.suite[i] = <<>>]
      BY <1>1, <2>6 DEF l
    <3>2. p # <<>> /\ segment.suite = u
      BY <1>3, <1>6, <3>1, EmptySeq
    <3>3. DOMAIN u = 1..l+4
      BY <1>5, <3>2, LenProperties
    <3>4. i - l \in 1..4 /\ i = l + (i - l)
      BY <1>2, <3>1, <3>2, <3>3, CrcPlace
    <3>5. u[i] = <<p, i - l>>
      BY <1>5, <3>2, <3>4
    <3>6. segment.suite[i] # <<>>
      BY <3>2, <3>5
    <3> QED BY <2>4, <3>1, <3>6
  <2> QED BY <1>10, <2>1, <2>2, <2>3, <2>5, <2>6 DEF Corrupt
<1> QED BY <1>7, <1>8, <1>9, <1>10

(* A segment the link has not altered is one that may travel.               *)
LEMMA IntactTravels == Intact /\ ~altere => Travels
BY DEF Intact, Travels

(* The invariant of altered and unaltered segments.                         *)
LEMMA AlwaysTravels == Spec => []TravelsInv
<1> USE RadixAssumption
<1>1. Init => TravelsInv
  <2> SUFFICES ASSUME Init PROVE TravelsInv
    OBVIOUS
  <2>1. Intact
    BY InitIntact
  <2>2. altere = FALSE /\ resultat = Attente
    BY DEF Init
  <2>3. Travels
    BY <2>1, <2>2, IntactTravels
  <2> QED BY <2>1, <2>2, <2>3, Answers DEF TravelsInv, NothingForged, OthersRejectAltered, Rejected
<1>2. TravelsInv /\ [Next]_vars => TravelsInv'
  <2> SUFFICES ASSUME TravelsInv, [Next]_vars PROVE TravelsInv'
    OBVIOUS
  <2>1. ASSUME UNCHANGED <<envoye, segment, altere>>
        PROVE  Travels' /\ altere' \in BOOLEAN /\ (~altere' => Intact')
    <3>1. Travels' <=> Travels
      BY <2>1 DEF Travels, OneByte, Short, Bytes, HeaderOk
    <3>2. Intact' <=> Intact
      BY <2>1 DEF Intact
    <3>3. altere' = altere
      BY <2>1
    <3> QED BY <3>1, <3>2, <3>3 DEF TravelsInv
  <2>2. ASSUME NEW g \in Groupes, Receive(g) PROVE TravelsInv'
    <3>1. /\ UNCHANGED <<envoye, segment, altere>>
          /\ lecteur' = g /\ resultat' = Reads(g, segment)
      BY <2>2 DEF Receive
    <3>2. /\ Reads(g, segment) \in {None, Exception, envoye}
          /\ altere /\ g # 0 => Reads(g, segment) = None
      BY ReadsTravels DEF TravelsInv
    <3>3. NothingForged' /\ OthersRejectAltered'
      BY <3>1, <3>2 DEF NothingForged, OthersRejectAltered, Rejected
    <3> QED BY <2>1, <3>1, <3>3 DEF TravelsInv
  <2>3. CASE Corrupt \/ Cut \/ Shorten \/ Behead
    <3>1. ~altere /\ altere' = TRUE /\ resultat = Attente /\ resultat' = Attente
      BY <2>3 DEF Corrupt, Cut, Shorten, Behead
    <3>2. Travels'
      BY <2>3, <3>1, LinkTravels DEF TravelsInv
    <3> QED BY <3>1, <3>2, Answers DEF TravelsInv, NothingForged, OthersRejectAltered, Rejected
  <2>4. CASE UNCHANGED vars
    <3>1. UNCHANGED <<envoye, segment, altere>> /\ NothingForged' /\ OthersRejectAltered'
      BY <2>4 DEF vars, TravelsInv, NothingForged, OthersRejectAltered, Rejected
    <3> QED BY <2>1, <3>1 DEF TravelsInv
  <2> QED BY <2>2, <2>3, <2>4 DEF Next
<1> QED BY <1>1, <1>2, PTL DEF Spec

(* Whatever one byte the link changes, and wherever it cuts a segment, no   *)
(* decoder of the four groups hands its program a packet that was not sent  *)
(* (CRC-32 taken to be without collisions).                                 *)
THEOREM NothingForgedCorrect == Spec => []NothingForged
<1>1. TravelsInv => NothingForged
  BY DEF TravelsInv
<1> QED BY <1>1, AlwaysTravels, PTL

(* The decoders of groups 20, 42 and 61 reject every segment the link has   *)
(* altered: none raises, and none takes it for the one that was sent.       *)
THEOREM OthersRejectCorrect == Spec => []OthersRejectAltered
<1>1. TravelsInv => OthersRejectAltered
  BY DEF TravelsInv
<1> QED BY <1>1, AlwaysTravels, PTL
=============================================================================
