----------------------------- MODULE SackPacket -----------------------------
(***************************************************************************)
(* From the client's buffer to the server's list: SackCodec's payload in   *)
(* one of PacketCodec's segments.  src/client.py answers a DATA packet     *)
(* with a SACK as soon as its buffer holds something; src/server.py hands  *)
(* the payload that depackage accepts to decode_sack.  Every other call of *)
(* an encoder is made without a look at the buffer, which is then empty.   *)
(***************************************************************************)
EXTENDS SackCodec, PacketCodec

CONSTANT MaxListe  \* bound: longest list sent

(* Before a SACK is sent.                                                   *)
Rien == <<"rien">>
NothingSent ==
  envoye = Rien /\ segment = Rien /\ altere = FALSE /\ lecteur = 0 /\ resultat = Attente

(* The list as our client and as group 20's encode it.                      *)
Encodings == {encode_sack(cles), encode_sack_payload(cles)}

(* The number the client awaits: it never buffers that one.                 *)
Attendu == CHOOSE s \in 0..SeqnumMod-1 : ~Contains(cles, s)

SendSack ==
  /\ NothingSent /\ Len(cles) \in 1..MaxListe
  /\ \E payload \in Encodings :
       /\ Len(payload) <= MaxPayload
       /\ envoye' = <<PTYPE_SACK, WindowMod - 1, Attendu, 0, payload>>
       /\ segment' = empackage(PTYPE_SACK, WindowMod - 1, Attendu, 0, payload)
  /\ UNCHANGED <<cles, altere, lecteur, resultat>>

InitSack == BufferInit /\ (Init \/ NothingSent)

NextSack ==
  \/ NothingSent /\ BufferNext /\ UNCHANGED vars
  \/ SendSack
  \/ ~NothingSent /\ Next /\ UNCHANGED cles

SpecSack == InitSack /\ [][NextSack]_<<cles, vars>>

-----------------------------------------------------------------------------
(* Whatever the link does to a SACK, the numbers our server acts on, each   *)
(* of which it deletes from memoire_envoi, are those the client has         *)
(* buffered; of these it misses at most number 0.                           *)
SackTold ==
  (cles # <<>> /\ lecteur = 0 /\ resultat \notin {Attente, None, Exception}) =>
    LET lus == ToSet(decode_sack(resultat[5]))
    IN lus \subseteq ToSet(cles) /\ ToSet(cles) \ {0} \subseteq lus
=============================================================================
