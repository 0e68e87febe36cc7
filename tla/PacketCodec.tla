---------------------------- MODULE PacketCodec -----------------------------
(***************************************************************************)
(* One segment on its way: empackage and depackage of src/protocol.py, the *)
(* functions that do the same in groups 20, 42 and 61, and what the link   *)
(* simulator the project is tested with does to a datagram in between      *)
(* (link_sim.c: corruption of a byte, truncation).                         *)
(*                                                                         *)
(* A segment is its three header words, whether they are all there, and    *)
(* the bytes after them (the payload, then the four bytes of its CRC).     *)
(* zlib.crc32 is taken to have no collision among the segments considered: *)
(* the check value of x is x.                                              *)
(***************************************************************************)
EXTENDS Integers, Sequences

CONSTANTS
  WindowMod, LongMod, SeqnumMod, \* values of the window, length and seqnum fields
  Octets,                     \* values of a payload byte
  MaxPayload,                 \* longest payload empackage accepts (1024)
  Mot,                        \* 20: bytes a SACK payload is a multiple of (4)
  MaxPktLen                   \* bytes after the header that link_sim passes on

ASSUME RadixAssumption ==
  /\ WindowMod \in Nat \ {0} /\ LongMod \in Nat \ {0} /\ SeqnumMod \in Nat \ {0}
  /\ MaxPayload \in 0..LongMod-1 /\ MaxPktLen \in Nat
  /\ Mot \in Nat \ {0}

PTYPE_DATA == 1
PTYPE_ACK  == 2
PTYPE_SACK == 3

Groupes == {0, 20, 42, 61}  \* whose program; 0 is ours

VARIABLES
  envoye,   \* the arguments of the sender's call of empackage
  segment,  \* what travels
  altere,   \* did the link change it?
  lecteur,  \* whose program receives it
  resultat  \* what that program makes of it

vars == <<envoye, segment, altere, lecteur, resultat>>

None      == <<"None">>
Exception == <<"struct.error">>
Attente   == <<"...">>

-----------------------------------------------------------------------------
(* The first header word: type, window, length and sequence number side by  *)
(* side.  Every caller passes a type below 4 and a window below 64, so the  *)
(* code's `|' never overlaps.                                               *)

Bloc(t, w, l, s) == (((t * WindowMod) + w) * LongMod + l) * SeqnumMod + s

Seqnum(b)       == b % SeqnumMod
LongueurWide(b) == b \div SeqnumMod
Longueur(b)     == (b \div SeqnumMod) % LongMod
Window(b)       == ((b \div SeqnumMod) \div LongMod) % WindowMod
PackType(b)     == ((b \div SeqnumMod) \div LongMod) \div WindowMod

(* The four bytes of a payload's CRC.                                       *)
Crc2(payload) == [j \in 1..4 |-> <<payload, j>>]

(* crc1 covers the two words before it; an empty payload has no crc2.       *)
Suite(payload) == IF payload = <<>> THEN <<>> ELSE payload \o Crc2(payload)

(* A payload above MaxPayload is refused: see SackFits of SrtpTransfer, the  *)
(* only caller whose payload can be that long.                              *)
empackage(t, w, s, ts, payload) ==
  LET bloc == Bloc(t, w, Len(payload), s % SeqnumMod)
  IN [bloc |-> bloc, ts |-> ts, crc1 |-> <<bloc, ts>>, entier |-> TRUE,
      suite |-> Suite(payload)]

(* The other groups lay out the same words.  The constructor of 20 and      *)
(* encode_pack of 61 refuse a sequence number that does not fit, for which  *)
(* fill_header of 42 sends 0; 20 also refuses an ACK with a payload and a   *)
(* SACK of broken words.                                                    *)
WordSized(t, n) == (t = PTYPE_ACK => n = 0) /\ (t = PTYPE_SACK => n % Mot = 0)
SRTPPacket(t, s, payload) == s < SeqnumMod /\ WordSized(t, Len(payload))
encode_pack(s) == s < SeqnumMod
fill_header(s) == IF s >= SeqnumMod THEN 0 ELSE s

Encodes(g, t, s, payload) ==
  (g = 20 => SRTPPacket(t, s, payload)) /\ (g = 61 => encode_pack(s))
Numero(g, s) == IF g = 42 THEN fill_header(s) ELSE s % SeqnumMod
to_segment(g, t, w, s, ts, payload) == empackage(t, w, Numero(g, s), ts, payload)

(* A slice [a:b] of the bytes after the header stops at their end.          *)
Tranche(seg, a, b) == SubSeq(seg.suite, a + 1, IF b < Len(seg.suite) THEN b ELSE Len(seg.suite))

(* Is the payload of this length the one its CRC was computed on?           *)
NoCrc2Check(seg, l) == TRUE
Crc2Check(seg, l) == Tranche(seg, l, l + 4) = Crc2(Tranche(seg, 0, l))

HeaderOk(seg) == seg.entier /\ seg.crc1 = <<seg.bloc, seg.ts>>

(* The packet, if its payload is intact.  Unpacking a CRC of fewer than     *)
(* four bytes raises.                                                       *)
Checked(seg) ==
  LET l  == Longueur(seg.bloc)
      ok == <<PackType(seg.bloc), Window(seg.bloc), Seqnum(seg.bloc), seg.ts, Tranche(seg, 0, l)>>
  IN IF l = 0 THEN ok
     ELSE IF Len(Tranche(seg, l, l + 4)) < 4 THEN Exception
     ELSE IF Crc2Check(seg, l) THEN ok ELSE None

depackage(seg) == IF HeaderOk(seg) THEN Checked(seg) ELSE None

(* What the other groups check besides: the fields, then the size of the    *)
(* datagram against the length it announces.                                *)
FieldsOk(seg) ==
  /\ PackType(seg.bloc) \in {PTYPE_DATA, PTYPE_ACK, PTYPE_SACK}
  /\ Longueur(seg.bloc) <= MaxPayload
AnySize(seg) == TRUE
LongEnough(seg) == Longueur(seg.bloc) # 0 => Len(seg.suite) >= Longueur(seg.bloc) + 4
NothingAfter(seg) == Longueur(seg.bloc) = 0 => seg.suite = <<>>
NothingMore(seg) == Longueur(seg.bloc) # 0 => Len(seg.suite) <= Longueur(seg.bloc) + 4

decode_pack(seg) ==
  IF HeaderOk(seg) /\ FieldsOk(seg) /\ LongEnough(seg) THEN Checked(seg) ELSE None
decode(seg) ==
  IF HeaderOk(seg) /\ FieldsOk(seg) /\ LongEnough(seg) /\ NothingAfter(seg)
    THEN Checked(seg) ELSE None
from_segment(seg) ==
  IF /\ HeaderOk(seg) /\ FieldsOk(seg) /\ LongEnough(seg) /\ NothingAfter(seg)
     /\ NothingMore(seg) /\ WordSized(PackType(seg.bloc), Longueur(seg.bloc))
    THEN Checked(seg) ELSE None

Reads(g, seg) ==
  CASE g = 0  -> depackage(seg)
    [] g = 20 -> from_segment(seg)
    [] g = 42 -> decode(seg)
    [] g = 61 -> decode_pack(seg)

-----------------------------------------------------------------------------
Payloads == UNION {[1..n -> Octets] : n \in 0..MaxPayload}

(* A sender's call; the sequence number may be too large.                   *)
Init ==
  \E g \in Groupes, t \in {PTYPE_DATA, PTYPE_ACK, PTYPE_SACK}, w \in 0..WindowMod-1,
     s \in 0..SeqnumMod, ts \in {0, 1}, payload \in Payloads :
    /\ Encodes(g, t, s, payload)
    /\ envoye = <<t, w, Numero(g, s), ts, payload>>
    /\ segment = to_segment(g, t, w, s, ts, payload)
    /\ altere = FALSE /\ lecteur = 0 /\ resultat = Attente

(* `buf[idx] = ~buf[idx]': one byte of the segment changes.                 *)
Corrupt ==
  /\ resultat = Attente /\ ~altere
  /\ altere' = TRUE
  /\ \/ \E b \in 0..4*WindowMod*LongMod*SeqnumMod-1 :
          b # segment.bloc /\ segment' = [segment EXCEPT !.bloc = b]
     \/ segment' = [segment EXCEPT !.ts = 1 - @]
     \/ segment' = [segment EXCEPT !.crc1 = <<>>]
     \/ \E i \in 1..Len(envoye[5]), o \in Octets :
          o # segment.suite[i] /\ segment' = [segment EXCEPT !.suite[i] = o]
     \/ \E i \in DOMAIN segment.suite \ 1..Len(envoye[5]) :
          segment' = [segment EXCEPT !.suite[i] = <<>>]
  /\ UNCHANGED <<envoye, lecteur, resultat>>

(* A DATA packet cut after its header.  link_sim.c marks it in the bit that *)
(* is the window's highest one here.                                        *)
CutMark(w) == IF 2 * w >= WindowMod THEN w ELSE w + (WindowMod \div 2)
Cut ==
  /\ resultat = Attente /\ ~altere
  /\ PackType(segment.bloc) = PTYPE_DATA /\ segment.suite # <<>>
  /\ altere' = TRUE
  /\ segment' = [segment EXCEPT
                   !.bloc = Bloc(PackType(@), CutMark(Window(@)), Longueur(@), Seqnum(@)),
                   !.suite = <<>>]
  /\ UNCHANGED <<envoye, lecteur, resultat>>

(* recvfrom of link_sim.c with a buffer shorter than the segment.           *)
Shorten ==
  /\ resultat = Attente /\ ~altere /\ Len(segment.suite) > MaxPktLen
  /\ altere' = TRUE
  /\ segment' = [segment EXCEPT !.suite = SubSeq(@, 1, MaxPktLen)]
  /\ UNCHANGED <<envoye, lecteur, resultat>>

(* A datagram that ends before its header does.                             *)
Behead ==
  /\ resultat = Attente /\ ~altere
  /\ altere' = TRUE
  /\ segment' = [segment EXCEPT !.entier = FALSE, !.suite = <<>>]
  /\ UNCHANGED <<envoye, lecteur, resultat>>

Receive(g) ==
  /\ resultat = Attente
  /\ lecteur' = g /\ resultat' = Reads(g, segment)
  /\ UNCHANGED <<envoye, segment, altere>>

Next == Corrupt \/ Cut \/ Shorten \/ Behead \/ \E g \in Groupes : Receive(g)

Spec == Init /\ [][Next]_vars

-----------------------------------------------------------------------------
(* An unaltered segment gives back what was sent, whoever encoded it and    *)
(* whoever decodes it, with and without payload, whatever the fields; 20    *)
(* refuses the shapes it would not send.                                    *)
IntactAccepted ==
  /\ ~altere /\ resultat # Attente
  /\ lecteur = 20 => WordSized(envoye[1], Len(envoye[5]))
  => resultat = envoye

(* No decoder gives its caller anything other than what was sent: an        *)
(* altered segment is rejected, or raises.                                  *)
NothingForged == resultat \in {Attente, None, Exception, envoye}

(* What the README and the tests say of our receiver: it rejects a segment  *)
(* that was damaged on the way, whatever byte changed and wherever it was   *)
(* cut.  A decoder that raises ends its program's loop.                     *)
Rejected == altere /\ resultat # Attente => resultat = None
AlteredRejected == lecteur = 0 => Rejected

(* It is so of the three other groups: their decoders compare the size of   *)
(* the datagram with the length in its header before they unpack a CRC.     *)
OthersRejectAltered == lecteur # 0 => Rejected
=============================================================================
