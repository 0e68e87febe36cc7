---------------------------- MODULE SrtpTransfer ----------------------------
(***************************************************************************)
(* One download: a client (src/client.py), the session the server keeps    *)
(* for it (src/server.py), and the UDP network between them, which loses,  *)
(* duplicates, reorders, delays and corrupts datagrams.                    *)
(*                                                                         *)
(* The requested file is cut in `taille' morceaux of at most 1024 bytes;   *)
(* morceau i is represented by its index i, so "the right bytes in the     *)
(* right order" is "0, 1, 2, ...".                                         *)
(*                                                                         *)
(* Clocks are not modelled.  Every timer (the client's socket timeout, the *)
(* server's per-packet timer, its adaptive timer and the three seconds     *)
(* after the end packet) may have expired whenever the code tests it.      *)
(***************************************************************************)
EXTENDS Integers, Sequences, FiniteSets

CONSTANTS
  MaxMorceaux, \* longest file considered, in morceaux
  SeqMod,      \* size of the sequence number space (2048)
  HalfMod,     \* an ACK less than this far ahead is new (1024)
  Fenetre,     \* window the client advertises (63)
  MaxSack,     \* most sequence numbers a 1024-byte SACK payload holds (744)
  MaxGet,      \* MAX_RETRANSMITS_INITIAL (5)
  LossyTypes   \* the packet types the network may lose

ASSUME ConstantsAssumption ==
  /\ MaxMorceaux \in Nat /\ MaxSack \in Nat /\ MaxGet \in Nat
  /\ HalfMod \in Nat \ {0} /\ SeqMod = 2 * HalfMod
  /\ Fenetre \in 1..SeqMod

VARIABLES
  existe,      \* does the requested path name a file?
  taille,      \* its length in morceaux (0 when there is no such file)
  \* the server: its entry clients[peer_addr]
  session,     \* is there one?
  base,        \* etat['base']
  lus,         \* morceaux read so far; etat['prochain_seqnum'] = lus % SeqMod
  memoire,     \* etat['memoire_envoi']: sequence number -> morceau
  fini,        \* etat['fichier_fini']
  fin_envoye,  \* etat['fin_envoye']
  phase,       \* which half of the server's loop runs next
  \* the client
  pc,          \* still in its loop, or how it left it
  attendu,     \* seqnum_attendu
  buffer,      \* out-of-sequence packets: sequence number -> morceau
  apres_zero,  \* keys of buffer inserted after its key 0, when it has one
  ecrit,       \* what was written to the save file
  demarre,     \* transfer_started
  dernier_ack, \* last_ack_sent
  essais,      \* retransmits_initial
  \* the network
  versServeur, versClient

fichier   == <<existe, taille>>
etat      == <<session, base, lus, memoire, fini, fin_envoye>>
reception == <<attendu, buffer, apres_zero, ecrit>>
client    == <<reception, pc, demarre, dernier_ack, essais>>
vars      == <<fichier, etat, phase, client, versServeur, versClient>>

-----------------------------------------------------------------------------
(* Packets.  FIN is a DATA packet with an empty payload, GET the client's   *)
(* DATA packet, CONN the server's ACK of the request.                       *)

Seqnums  == 0..SeqMod-1
Morceaux == 0..MaxMorceaux-1

GET     == [type |-> "GET"]
CONNAsData == [type |-> "FIN", seqnum |-> 1 % SeqMod]
CONN    == [type |-> "CONN"]
NoAck   == [type |-> "NONE"]
DATA(i) == [type |-> "DATA", seqnum |-> i % SeqMod, morceau |-> i]
FINOffByOne(n) == [type |-> "FIN", seqnum |-> (n + 1) % SeqMod]
FIN(n)  == [type |-> "FIN", seqnum |-> n % SeqMod]
ACK(t, n, S) == [type |-> t, seqnum |-> n, sack |-> S]

DataPackets == [type : {"DATA"}, seqnum : Seqnums, morceau : Morceaux]
FinPackets  == [type : {"FIN"}, seqnum : Seqnums]
AckPackets  == [type : {"ACK", "SACK"}, seqnum : Seqnums, sack : SUBSET Seqnums]

(* The entries of dictionary f that survive `del' of the keys S.            *)
Without(f, S) == [s \in DOMAIN f \ S |-> f[s]]

Empty == [s \in {} |-> 0]

-----------------------------------------------------------------------------
(* Each variable holds a value of its kind; ~existe is an empty download.   *)
TypeOK ==
  /\ existe \in BOOLEAN /\ taille \in 0..MaxMorceaux /\ (~existe => taille = 0)
  /\ session \in BOOLEAN /\ fini \in BOOLEAN /\ fin_envoye \in BOOLEAN
  /\ base \in Seqnums /\ lus \in 0..taille /\ phase \in {"recv", "pump"}
  /\ DOMAIN memoire \subseteq Seqnums /\ memoire \in [DOMAIN memoire -> Morceaux]
  /\ pc \in {"run", "done", "abandon", "crash"}
  /\ attendu \in Seqnums /\ ecrit \in Seq(Morceaux)
  /\ DOMAIN buffer \subseteq Seqnums /\ buffer \in [DOMAIN buffer -> Morceaux]
  /\ apres_zero \subseteq DOMAIN buffer
  /\ demarre \in BOOLEAN /\ essais \in 0..MaxGet+1
  /\ (pc = "run" => essais <= MaxGet)
  /\ dernier_ack \in AckPackets \cup {NoAck}
  /\ versServeur \subseteq AckPackets \cup {GET}
  /\ versClient \subseteq DataPackets \cup FinPackets \cup {CONN}

(* The fields of an entry of clients, as they are for a new peer; without a *)
(* session they keep these values.                                          *)
FreshEtat(s) ==
  /\ session' = s /\ base' = 0 /\ lus' = 0 /\ memoire' = Empty
  /\ fini' = FALSE /\ fin_envoye' = FALSE

(* The client has sent its request; the server does not know it yet.        *)
Init ==
  /\ existe \in BOOLEAN
  /\ taille \in IF existe THEN 0..MaxMorceaux ELSE {0}
  /\ session = FALSE /\ base = 0 /\ lus = 0 /\ memoire = Empty
  /\ fini = FALSE /\ fin_envoye = FALSE /\ phase = "recv"
  /\ pc = "run" /\ attendu = 0 /\ buffer = Empty /\ apres_zero = {}
  /\ ecrit = <<>> /\ demarre = FALSE /\ dernier_ack = NoAck /\ essais = 0
  /\ versServeur = {GET} /\ versClient = {}

-----------------------------------------------------------------------------
(* The server's loop, first half: one recvfrom.  The branches that end with *)
(* `continue' skip the second half, which is why they leave phase alone.    *)

SrvRecvGet ==
  /\ phase = "recv" /\ GET \in versServeur
  /\ \/ /\ session        \* known peer: only dernier_contact changes
        /\ phase' = "pump" /\ UNCHANGED <<etat, versClient>>
     \/ /\ ~session /\ existe
        /\ FreshEtat(TRUE) /\ phase' = "pump"
        /\ versClient' = versClient \cup {CONN}
     \/ /\ ~session /\ ~existe        \* FileNotFoundError
        /\ versClient' = versClient \cup {CONN, FIN(0)}
        /\ UNCHANGED <<etat, phase>>
  /\ UNCHANGED <<fichier, client, versServeur>>

(* How far a sequence number is ahead of base on the circle; whether an ACK *)
(* that far ahead advances base; what the server forgets on an ACK or SACK. *)
Steps(seqnum) == (seqnum - base) % SeqMod
AheadAlways(seqnum) == TRUE
Ahead(seqnum) == Steps(seqnum) < HalfMod
Acquitted(m) ==
  m.sack \cup {s \in Seqnums : Ahead(m.seqnum) /\ Steps(s) < Steps(m.seqnum)}

SrvRecvAck(m) ==
  /\ phase = "recv" /\ m \in versServeur /\ m.type \in {"ACK", "SACK"}
  /\ \/ ~session /\ UNCHANGED <<etat, phase>>
     \/ /\ session
        /\ base' = IF Ahead(m.seqnum) THEN m.seqnum ELSE base
        /\ memoire' = Without(memoire, Acquitted(m))
        /\ phase' = "pump"
        /\ UNCHANGED <<session, lus, fini, fin_envoye>>
  /\ UNCHANGED <<fichier, client, versServeur, versClient>>

(* socket.timeout, or a datagram that depackage rejects.                    *)
SrvRecvNothing ==
  /\ phase = "recv" /\ phase' = "pump"
  /\ UNCHANGED <<fichier, etat, client, versServeur, versClient>>

-----------------------------------------------------------------------------
(* The server's loop, second half: what it does for each client.            *)

(* How far a sequence number is ahead of etat['prochain_seqnum']; the keys  *)
(* of memoire, and its contents, after k more morceaux were sent.           *)
Rang(s) == (s - lus) % SeqMod
KeysAfter(k) == DOMAIN memoire \cup {s \in Seqnums : Rang(s) < k}
MemoireAfter(k) ==
  [s \in KeysAfter(k) |-> IF Rang(s) < k THEN lus + Rang(s) ELSE memoire[s]]

(* Is the window of w packets still open after k more morceaux?             *)
Open(k, w) == ~fini /\ Cardinality(KeysAfter(k)) < w

(* The sending loop stops after k morceaux: the window was open before each *)
(* of them, and then it is closed or the file is exhausted.                 *)
Sends(k, w) ==
  /\ \A j \in 0..k-1 : Open(j, w)
  /\ Open(k, w) => lus + k = taille

(* Is it time for the end packet?                                           *)
EndsEarly(mem, fini1) == fini1 /\ ~fin_envoye
Ends(mem, fini1) == fini1 /\ DOMAIN mem = {} /\ ~fin_envoye

(* The keys whose packets are sent again.                                   *)
ResendsNone(mem, expires, silence) == {}
Resends(mem, expires, silence) == IF silence THEN DOMAIN mem ELSE expires

(* w: etat['remote_window'].  The timers of the packets in expires have run *)
(* out; silence: nothing came from the client for the adaptive timeout;     *)
(* trois: the end packet was sent more than three seconds ago, and the      *)
(* entry is deleted.                                                        *)
SrvPump(w, k, expires, silence, trois) ==
  LET mem   == MemoireAfter(k)
      fini1 == fini \/ Open(k, w)
      fin1  == fin_envoye \/ Ends(mem, fini1)
  IN /\ phase = "pump" /\ session /\ Sends(k, w)
     /\ expires \subseteq DOMAIN memoire /\ (trois => fin_envoye)
     /\ versClient' = versClient
          \cup {DATA(i) : i \in lus..lus+k-1}
          \cup {DATA(mem[s]) : s \in Resends(mem, expires, silence)}
          \cup (IF Ends(mem, fini1) \/ (silence /\ fin1) THEN {FIN(lus + k)} ELSE {})
     /\ \/ trois /\ FreshEtat(FALSE)
        \/ /\ ~trois
           /\ lus' = lus + k /\ memoire' = mem /\ fini' = fini1
           /\ fin_envoye' = fin1 /\ UNCHANGED <<session, base>>
     /\ phase' = "recv"
     /\ UNCHANGED <<fichier, client, versServeur>>

SrvPumpSome(w) ==
  \E k \in 0..taille-lus, expires \in SUBSET DOMAIN memoire,
     silence, trois \in BOOLEAN : SrvPump(w, k, expires, silence, trois)

SrvPumpNobody ==
  /\ phase = "pump" /\ ~session /\ phase' = "recv"
  /\ UNCHANGED <<fichier, etat, client, versServeur, versClient>>

-----------------------------------------------------------------------------
(* The client's loop.                                                       *)

(* The sequence numbers decode_sack finds in encode_sack of the buffer's    *)
(* keys: it strips trailing zeros with the padding, so key 0 is lost when   *)
(* it is the last one inserted (module SackCodec).                          *)
DecodedPadding(keys, apres) == IF keys = {} THEN {} ELSE keys \cup {0}
DecodedSack(keys, apres) == IF 0 \in keys /\ apres = {} THEN keys \ {0} ELSE keys

(* empackage refuses a payload of more than 1024 bytes.                     *)
SackFitsShort(keys) == Cardinality(keys) < MaxSack
SackFits(keys) == Cardinality(keys) <= MaxSack

(* The answer to a DATA packet; sock.send(None) raises.                     *)
Acknowledge ==
  LET a == ACK(IF DOMAIN buffer' = {} THEN "ACK" ELSE "SACK", attendu',
               DecodedSack(DOMAIN buffer', apres_zero'))
  IN \/ /\ SackFits(DOMAIN buffer')
        /\ dernier_ack' = a /\ versServeur' = versServeur \cup {a}
        /\ UNCHANGED pc
     \/ /\ ~SackFits(DOMAIN buffer')
        /\ pc' = "crash" /\ UNCHANGED <<dernier_ack, versServeur>>

(* The sequence number j after the one expected.                            *)
SuivantShort(j) == (attendu + (IF j = 0 THEN 0 ELSE j - 1)) % SeqMod
Suivant(j) == (attendu + j) % SeqMod

(* seqnum == seqnum_attendu: write, then take out the k packets that follow *)
InSequence(m, k) ==
  LET vides == {Suivant(j) : j \in 1..k}
  IN /\ m.seqnum = attendu
     /\ vides \subseteq DOMAIN buffer /\ Suivant(k + 1) \notin DOMAIN buffer
     /\ ecrit' = ecrit \o [j \in 1..k+1 |->
                   IF j = 1 THEN m.morceau ELSE buffer[Suivant(j - 1)]]
     /\ attendu' = Suivant(k + 1)
     /\ buffer' = Without(buffer, vides)
     /\ apres_zero' = IF 0 \in vides THEN {} ELSE apres_zero \ vides

(* Any other sequence number, ahead or behind, goes to the buffer.          *)
OutOfSequence(m) ==
  /\ m.seqnum # attendu
  /\ buffer' = [s \in DOMAIN buffer \cup {m.seqnum} |->
                  IF s = m.seqnum THEN m.morceau ELSE buffer[s]]
  /\ apres_zero' = IF 0 \in DOMAIN buffer
                     THEN apres_zero \cup ({m.seqnum} \ DOMAIN buffer) ELSE {}
  /\ UNCHANGED <<ecrit, attendu>>

ClientRecvData(m) ==
  /\ pc = "run" /\ m \in versClient /\ m.type = "DATA"
  /\ essais' = 0 /\ demarre' = TRUE
  /\ \/ \E k \in 0..SeqMod-1 : InSequence(m, k)
     \/ OutOfSequence(m)
  /\ Acknowledge
  /\ UNCHANGED <<fichier, etat, phase, versClient>>

(* Does this end packet end the transfer?                                   *)
AnyFin(m) == TRUE
FinExpected(m) == m.seqnum = attendu

ClientRecvFin(m) ==
  /\ pc = "run" /\ m \in versClient /\ m.type = "FIN"
  /\ essais' = 0
  /\ \/ /\ FinExpected(m)
        /\ versServeur' = versServeur \cup {ACK("ACK", attendu, {})}
        /\ pc' = "done"
     \/ ~FinExpected(m) /\ UNCHANGED <<versServeur, pc>>
  /\ UNCHANGED <<fichier, etat, phase, reception, demarre, dernier_ack, versClient>>

(* A datagram that is not DATA, or that depackage rejects, only resets the  *)
(* count of unanswered requests.                                            *)
ClientRecvOther ==
  /\ pc = "run" /\ versClient # {}
  /\ essais' = 0
  /\ UNCHANGED <<fichier, etat, phase, reception, pc, demarre, dernier_ack,
                 versServeur, versClient>>

(* Is the client still waiting for its first byte, and has it asked enough? *)
WaitingAlways == TRUE
Waiting == ~demarre
NeverEnough(n) == FALSE
Enough(n) == n > MaxGet

ClientTimeout ==
  /\ pc = "run"
  /\ \/ /\ Waiting
        /\ essais' = essais + 1
        /\ \/ Enough(essais + 1) /\ pc' = "abandon" /\ UNCHANGED versServeur
           \/ ~Enough(essais + 1) /\ versServeur' = versServeur \cup {GET}
              /\ UNCHANGED pc
     \/ /\ ~Waiting
        /\ versServeur' = versServeur \cup ({dernier_ack} \ {NoAck})
        /\ UNCHANGED <<essais, pc>>
  /\ UNCHANGED <<fichier, etat, phase, reception, demarre, dernier_ack, versClient>>

-----------------------------------------------------------------------------
(* The network.  Delivery leaves a packet in flight: it can be delivered    *)
(* again, later, after others.  Loss (also by a corruption, which depackage *)
(* turns into loss) removes it, at a moment its receiver could have taken   *)
(* it.                                                                      *)
NetLose ==
  /\ \/ \E m \in versServeur : /\ m.type \in LossyTypes /\ phase = "recv"
                               /\ versServeur' = versServeur \ {m}
                               /\ UNCHANGED versClient
     \/ \E m \in versClient : /\ m.type \in LossyTypes
                              /\ versClient' = versClient \ {m}
                              /\ UNCHANGED versServeur
  /\ UNCHANGED <<fichier, etat, phase, client>>

Next ==
  \/ SrvRecvGet \/ (\E m \in versServeur : SrvRecvAck(m)) \/ SrvRecvNothing
  \/ SrvPumpSome(Fenetre) \/ SrvPumpNobody
  \/ \E m \in versClient : ClientRecvData(m) \/ ClientRecvFin(m)
  \/ ClientRecvOther \/ ClientTimeout
  \/ NetLose

Spec == Init /\ [][Next]_vars

-----------------------------------------------------------------------------
(* Correctness.                                                             *)

(* The save file is at all times a prefix of the requested file: no morceau *)
(* is skipped, repeated or taken from another place (client.py's file.write *)
(* of received and of buffered packets).                                    *)
PrefixIntegrity ==
  /\ Len(ecrit) <= taille
  /\ \A i \in 1..Len(ecrit) : ecrit[i] = i - 1

(* The client leaves its loop through the end packet only with the complete *)
(* file: client.py accepts an end packet by its sequence number alone.      *)
DoneMeansComplete == pc = "done" => Len(ecrit) = taille

(* Files of at most half the sequence space: the distance modulo SeqMod     *)
(* tells an old acknowledgement from a new one.                             *)
ShortFile == taille <= HalfMod

(* The server forgets a morceau it has sent (`del memoire_envoi[...]' on an *)
(* ACK or a SACK) only when the client has it, written or buffered: nobody  *)
(* would send it again.  Of a short file.                                   *)
ForgottenMeansReceived ==
  ShortFile => \A i \in 0..lus-1 :
    \/ i % SeqMod \in DOMAIN memoire /\ memoire[i % SeqMod] = i
    \/ i < Len(ecrit)
    \/ i % SeqMod \in DOMAIN buffer /\ buffer[i % SeqMod] = i

(* An end packet is sent, and is in flight, only for a client that has      *)
(* written the whole, short file (server.py: when memoire_envoi is empty).  *)
FinMeansDelivered ==
  ShortFile =>
    (fin_envoye \/ (\E m \in versClient : m.type = "FIN") => Len(ecrit) = taille)

(* The client's acknowledgement fails (empackage has no packet for a SACK   *)
(* payload above 1024 bytes, and sock.send(None) raises) only for a file    *)
(* with more morceaux than a SACK lists, for which it does fail: neither    *)
(* late duplicates, which client.py buffers too, nor sequence numbers used  *)
(* again fill the buffer beyond the file.                                   *)
CrashNeedsLongFile == pc = "crash" => taille > MaxSack

(* Within a session the server's base never moves back, whatever late or    *)
(* repeated acknowledgement arrives (server.py's `steps < 1024'), for a     *)
(* short file.                                                              *)
BaseNeverRetreats == [][ShortFile /\ session /\ session' => base' >= base]_vars

(* The download implements the abstract file transfer: server.py and        *)
(* client.py together behave as one writer of the file's next morceaux.     *)
Abstract == INSTANCE FileTransfer
              WITH longueur <- taille, sortie <- ecrit, statut <- pc
RefinesFileTransfer == Abstract!ASpec

-----------------------------------------------------------------------------
(* Progress.  The network is fair: a packet sent over and over is delivered *)
(* in the end.  Time passes: the server's loop turns, a packet's own timer  *)
(* expires, the three seconds after the end packet elapse, the client's     *)
(* socket times out.  Nothing is assumed of the adaptive timer, which every *)
(* packet from the client restarts.                                         *)

SrvPumpTimers(w) ==
  \E k \in 0..taille-lus, silence \in BOOLEAN :
     SrvPump(w, k, DOMAIN memoire, silence, FALSE)

SrvPumpTrois(w) ==
  \E k \in 0..taille-lus, expires \in SUBSET DOMAIN memoire, silence \in BOOLEAN :
     SrvPump(w, k, expires, silence, TRUE)

Fairness ==
  /\ WF_vars(SrvRecvNothing) /\ WF_vars(SrvPumpSome(Fenetre) \/ SrvPumpNobody)
  /\ SF_vars(SrvPumpTimers(Fenetre)) /\ SF_vars(SrvPumpTrois(Fenetre))
  /\ SF_vars(SrvRecvGet) /\ SF_vars(SrvRecvAck(dernier_ack))
  /\ SF_vars(\E m \in versClient : ClientRecvData(m) /\ m.seqnum = attendu)
  /\ SF_vars(\E m \in versClient : ClientRecvFin(m) /\ m.seqnum = attendu)
  /\ WF_vars(ClientTimeout)

FairSpec == Spec /\ Fairness

(* Once a first DATA packet has arrived the whole file ends up on disk,     *)
(* whatever the network loses (server.py's retransmissions, client.py's     *)
(* repetition of its last acknowledgement).                                 *)
DataDelivered == demarre ~> (Len(ecrit) = taille)

(* The client leaves its loop: with the file, or giving up on a server that *)
(* never answered.                                                          *)
ClientTerminates == <>(pc # "run")
=============================================================================
