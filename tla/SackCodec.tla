----------------------------- MODULE SackCodec ------------------------------
(***************************************************************************)
(* The payload of a SACK packet: encode_sack and decode_sack of            *)
(* src/protocol.py and their counterparts of group 20, the only other      *)
(* group that uses SACKs, at bit level, driven by the client's buffer.     *)
(* Our client encodes list(buffer.keys()), so the order of the sequence    *)
(* numbers is that of their insertion.                                     *)
(***************************************************************************)
EXTENDS Integers, Sequences, SequencesExt, FiniteSetsExt

CONSTANTS
  Largeur,     \* bits of a sequence number (11)
  Alignement,  \* the bit string is padded to a multiple of this (32)
  Cles         \* sequence numbers the buffer may hold

ASSUME CodecAssumption ==
  /\ Largeur \in Nat \ {0} /\ Alignement \in Nat \ {0} /\ Alignement % 8 = 0
  /\ Cles \subseteq 0..2^Largeur - 1

VARIABLE cles  \* list(buffer.keys()) of the client

-----------------------------------------------------------------------------
(* encode_sack.                                                             *)

(* The bits of n, most significant first, and the number a bit string is.   *)
Bits(n, largeur) == [i \in 1..largeur |-> (n \div 2^(largeur - i)) % 2]
Nombre(bits) == FoldLeft(LAMBDA n, b : 2 * n + b, 0, bits)

(* The j-th run of `largeur' bits of a bit string.                          *)
Champ(bits, largeur, j) == SubSeq(bits, (j - 1) * largeur + 1, j * largeur)

(* Length of the padded bit string for n sequence numbers.                  *)
PaddedLen(n) ==
  LET reste == (n * Largeur) % Alignement
  IN IF reste = 0 THEN n * Largeur ELSE (n * Largeur) + (Alignement - reste)

encode_sack(liste) ==
  LET bits == [b \in 1..PaddedLen(Len(liste)) |->
                 IF b <= Len(liste) * Largeur
                   THEN Bits(liste[((b - 1) \div Largeur) + 1], Largeur)[((b - 1) % Largeur) + 1]
                   ELSE 0]
  IN [o \in 1..Len(bits) \div 8 |-> Nombre(Champ(bits, 8, o))]

-----------------------------------------------------------------------------
(* decode_sack.                                                             *)

(* The list without the zeros at its end.                                   *)
AnyZeros(liste) == SelectSeq(liste, LAMBDA n : n # 0)
SansZeros(liste) == SubSeq(liste, 1, Max({0} \cup {i \in DOMAIN liste : liste[i] # 0}))

BitString(payload) ==
  [b \in 1..8 * Len(payload) |-> Bits(payload[((b - 1) \div 8) + 1], 8)[((b - 1) % 8) + 1]]
Champs(bits) == [j \in 1..Len(bits) \div Largeur |-> Nombre(Champ(bits, Largeur, j))]

decode_sack(payload) == SansZeros(Champs(BitString(payload)))

-----------------------------------------------------------------------------
(* Group 20: the numbers are sorted, the decoder checks that the bits after *)
(* the last whole number are 0 (a ValueError otherwise), and never strips   *)
(* the only number left.                                                    *)

ValueError == <<"ValueError">>

Unsorted(liste) == liste
Sorted(liste) ==
  [i \in DOMAIN liste |->
     CHOOSE n \in ToSet(liste) : Cardinality({m \in ToSet(liste) : m < n}) = i - 1]
encode_sack_payload(liste) == encode_sack(Sorted(liste))

StripsAll(liste) == SansZeros(liste)
StripsPadding(liste) ==
  SubSeq(liste, 1, Max({1} \cup {i \in DOMAIN liste : liste[i] # 0}))

decode_sack_payload(payload) ==
  LET bits   == BitString(payload)
      pleins == Len(bits) - (Len(bits) % Largeur)
  IN IF bits = <<>> THEN <<>>
     ELSE IF \E b \in pleins+1..Len(bits) : bits[b] # 0 THEN ValueError
     ELSE StripsPadding(Champs(bits))

-----------------------------------------------------------------------------
(* The client's dictionary: assigning a new key puts it last, an existing   *)
(* one keeps its place; the drain deletes keys anywhere.                    *)

BufferInit == cles = <<>>

Buffer(s) ==
  /\ ~Contains(cles, s)
  /\ cles' = Append(cles, s)

Drain(s) ==
  /\ Contains(cles, s)
  /\ cles' = Remove(cles, s)

BufferNext == \E s \in Cles : Buffer(s) \/ Drain(s)

-----------------------------------------------------------------------------
(* What the server decodes is what the client encoded, in order, whatever   *)
(* the padding, except that sequence number 0 is lost when it is the last:  *)
(* protocol.py strips it with the padding.  SrtpTransfer's DecodedSack is   *)
(* this fact.                                                               *)
OnlyLastZeroLost ==
  decode_sack(encode_sack(cles)) =
    IF cles # <<>> /\ Last(cles) = 0 THEN Front(cles) ELSE cles

(* Group 20 reads our SACKs as we would, but for a lone 0, which it keeps:  *)
(* Select20 of PeerServers.                                                 *)
ReadBy20 ==
  decode_sack_payload(encode_sack(cles)) =
    IF Len(cles) > 1 /\ Last(cles) = 0 THEN Front(cles) ELSE cles

(* Nothing is lost between two programs of group 20, whatever the buffer    *)
(* holds; our server misses a lone 0: SackOrAck20 of PeerClients.           *)
SentBy20 ==
  LET payload == encode_sack_payload(cles)
      tri     == SortSeq(cles, <)
  IN /\ decode_sack_payload(payload) = tri
     /\ decode_sack(payload) = IF cles = <<0>> THEN <<>> ELSE tri
=============================================================================
