---------------------------- MODULE PeerServers -----------------------------
(***************************************************************************)
(* The servers of the other groups (tools/groupe_20, groupe_42, groupe_61) *)
(* as they serve one address.  Group 61 is a single loop; groups 20 and 42 *)
(* have a dispatching loop and a thread per client, which talk through a   *)
(* queue.  The morceaux of the file are 0..taille-1, as in SrtpTransfer.   *)
(***************************************************************************)
EXTENDS Integers, Sequences, FiniteSets

CONSTANTS
  SeqMod,    \* size of the sequence number space (2048)
  MaxFils,   \* handlers the dispatching loop may start for the address
  MaxFile,   \* 42: acknowledgements waiting in a handler's queue
  MaxPile,   \* 20: packets waiting in the handler's queue
  MaxAcks,   \* 20: max_processed_acks (10)
  MaxAvance, \* 20: max_ack_advance (63)
  MaxMuet,   \* 20: max_consecutive_timeouts (50)
  LoopHigh,  \* 20: an acknowledgement above it announces the wrap (1000)
  LoopLow    \* 20: the first one below it is past the wrap (64)

VARIABLES
  existe, taille, \* the requested file, as in SrtpTransfer
  fils,           \* the handlers: 61's Session, the threads of 20 and 42
  enreg,          \* 42: the handler client_queues[addr] belongs to, or 0
  versServeur, versClient

GET  == [type |-> "GET"]
CONN == [type |-> "CONN"]
Paquet(i) == IF i < taille
               THEN [type |-> "DATA", seqnum |-> i % SeqMod, morceau |-> i]
               ELSE [type |-> "FIN", seqnum |-> i % SeqMod]
FIN(i) == [type |-> "FIN", seqnum |-> i % SeqMod]
IsAck(m) == m.type \in {"ACK", "SACK"}

Libre ==
  [etat     |-> "libre", \* where the handler is in its code
   base     |-> 0,       \* base_seqnum, last_ack, file_segment_num
   lus      |-> 0,       \* 42: morceaux read; next_seq is lus % SeqMod
   eof      |-> FALSE,   \* 42: end_of_file
   reste    |-> {},      \* packets, sent_packets: indices not acknowledged
   fenetre  |-> 0,       \* window_size, dest_window, window
   file     |-> <<>>,    \* the queue the dispatching loop fills
   select   |-> {},      \* 20: selective_acked
   recus    |-> 0,       \* 20: turns of the loop over max_processed_acks
   silences |-> 0,       \* 20: consecutive_timeouts
   boucle   |-> FALSE,   \* 20: about_to_loop
   tour     |-> 0]       \* 20: file_segment_num_mult

Repos == UNCHANGED <<existe, taille, versServeur>>
Envoie(S) == versClient' = versClient \cup S

-----------------------------------------------------------------------------
(* groupe_61: server.py.  Acknowledgements are read without their SACKs and *)
(* without a look at their age.  The file is shorter than SeqMod (see the   *)
(* assumption of Interop): encode_pack gives None beyond.                   *)

(* split_data, and send_payloads_init of the first w packets.               *)
Nouveau61(w) ==
  /\ GET \in versServeur /\ fils[1].etat = "libre"
  /\ fils' = [fils EXCEPT ![1] = [Libre EXCEPT !.etat = "session",
                                    !.reste = 0..taille, !.fenetre = w]]
  /\ Envoie({CONN} \cup {Paquet(i) : i \in {j \in 0..taille : j < w}})
  /\ Repos /\ UNCHANGED enreg

(* send_payloads: at most a window of the packets whose timer has expired.  *)
SendPayloads61(reste, w) ==
  \E E \in SUBSET reste : Cardinality(E) <= w /\ Envoie({Paquet(i) : i \in E})

(* Session.receive.                                                         *)
Remaining61(f, m) == f.reste \ (f.base..m.seqnum-1)

RecvAck61(m, w) ==
  /\ m \in versServeur /\ IsAck(m) /\ fils[1].etat = "session"
  /\ LET reste == Remaining61(fils[1], m)
     IN \/ /\ reste = {}          \* isdone: the entry is deleted
           /\ fils' = [fils EXCEPT ![1] = Libre] /\ UNCHANGED versClient
        \/ /\ reste # {}
           /\ fils' = [fils EXCEPT ![1].reste = reste, ![1].base = m.seqnum,
                                   ![1].fenetre = w]
           /\ SendPayloads61(reste, w)
  /\ Repos /\ UNCHANGED enreg

Timeout61 ==
  /\ fils[1].etat = "session"
  /\ SendPayloads61(fils[1].reste, fils[1].fenetre)
  /\ Repos /\ UNCHANGED <<fils, enreg>>

-----------------------------------------------------------------------------
(* groupe_42: server.py.                                                    *)

(* The main loop starts a handler when the address is not in client_queues; *)
(* it is the handler that puts it there.                                    *)
Nouveau42(t, w) ==
  /\ GET \in versServeur /\ enreg = 0
  /\ fils[t].etat = "libre" /\ \A u \in 1..t-1 : fils[u].etat # "libre"
  /\ fils' = [fils EXCEPT ![t] = [Libre EXCEPT !.etat = "demarre", !.fenetre = w]]
  /\ Repos /\ UNCHANGED <<enreg, versClient>>

Enregistre42(t) ==
  /\ fils[t].etat = "demarre"
  /\ fils' = [fils EXCEPT ![t].etat = "envoi"] /\ enreg' = t
  /\ Repos /\ UNCHANGED versClient

Depose42(m, w) ==
  /\ m \in versServeur /\ IsAck(m) /\ enreg # 0 /\ Len(fils[enreg].file) < MaxFile
  /\ fils' = [fils EXCEPT ![enreg].file = Append(@, [m |-> m, window |-> w])]
  /\ Repos /\ UNCHANGED <<enreg, versClient>>

(* Is the window open after k more packets?                                 *)
Open42(f, k) == ~f.eof /\ (f.lus + k - f.base) % SeqMod < f.fenetre

(* Is everything read and acknowledged?                                     *)
EndsRead42(eof, reste) == eof
Ends42(eof, reste) == eof /\ reste = {}

(* send_file: up to a window of packets, then the end or the wait.          *)
Envoi42(t, k) ==
  LET f     == fils[t]
      reste == f.reste \cup (f.lus..f.lus+k-1)
      eof   == f.eof \/ Open42(f, k)
  IN /\ f.etat = "envoi" /\ Repos /\ UNCHANGED enreg
     /\ \/ /\ ~existe /\ k = 0        \* FileNotFoundError
           /\ Envoie({FIN(0)}) /\ fils' = [fils EXCEPT ![t].etat = "fin"]
        \/ /\ existe
           /\ \A j \in 0..k-1 : Open42(f, j)
           /\ Open42(f, k) => f.lus + k = taille
           /\ Envoie({Paquet(i) : i \in f.lus..f.lus+k-1}
                       \cup IF Ends42(eof, reste) THEN {FIN(taille)} ELSE {})
           /\ fils' = [fils EXCEPT ![t].lus = @ + k, ![t].reste = reste,
                         ![t].eof = eof,
                         ![t].etat = IF Ends42(eof, reste) THEN "fin" ELSE "attente"]

(* handle_ack, for one packet of the queue.                                 *)
TooOld42(pas) == pas > SeqMod \div 2
KeepsAll42(f, p) == [f EXCEPT !.fenetre = p.window]
OffByOne42(f, p) ==
  [f EXCEPT !.fenetre = p.window, !.base = p.m.seqnum,
     !.reste = {i \in @ : (i - f.base) % SeqMod > (p.m.seqnum - f.base) % SeqMod}]
HandleAck42(f, p) ==
  LET pas == (p.m.seqnum - f.base) % SeqMod
  IN [f EXCEPT !.fenetre = p.window,
        !.base  = IF TooOld42(pas) THEN @ ELSE p.m.seqnum,
        !.reste = {i \in @ : TooOld42(pas) \/ (i - f.base) % SeqMod >= pas}]

(* The wait: the packets of the queue are read, first come, first served,   *)
(* those that arrive meanwhile included.                                    *)
Lit42(t) ==
  LET f == fils[t]
  IN /\ f.etat = "attente" /\ f.file # <<>>
     /\ fils' = [fils EXCEPT ![t] = [HandleAck42(f, Head(f.file)) EXCEPT !.file = Tail(f.file)]]
     /\ Repos /\ UNCHANGED <<enreg, versClient>>

(* Once the queue is empty, after a packet or after a timeout, the packets  *)
(* E, sent long enough ago, are sent again.                                 *)
Attente42(t, E) ==
  /\ fils[t].etat = "attente" /\ fils[t].file = <<>> /\ E \subseteq fils[t].reste
  /\ fils' = [fils EXCEPT ![t].etat = "envoi"]
  /\ Envoie({Paquet(i) : i \in E})
  /\ Repos /\ UNCHANGED enreg

(* client_queues.pop(addr, None), whoever the entry belongs to.             *)
Ferme42(t) ==
  /\ fils[t].etat = "fin"
  /\ fils' = [fils EXCEPT ![t] = [Libre EXCEPT !.etat = "fini"]] /\ enreg' = 0
  /\ Repos /\ UNCHANGED versClient

-----------------------------------------------------------------------------
(* groupe_20: server.py and SRTP.py.                                        *)

(* run_server: the entry of an address is made once and never removed.      *)
Nouveau20 ==
  /\ GET \in versServeur /\ fils[1].etat = "libre"
  /\ fils' = [fils EXCEPT ![1].etat = "debut"]
  /\ Repos /\ UNCHANGED <<enreg, versClient>>

(* serve_client, up to the loop of server_send.                             *)
Debut20 ==
  /\ fils[1].etat = "debut"
  /\ Envoie({IF existe THEN CONN ELSE FIN(0)})
  /\ fils' = [fils EXCEPT ![1].etat = IF existe THEN "envoi" ELSE "fini",
                          ![1].fenetre = 1]
  /\ Repos /\ UNCHANGED enreg

(* Every later packet, requests included, goes on the LIFO queue; nobody    *)
(* reads the one of a handler that has ended.                               *)
Depose20(m, w) ==
  /\ m \in versServeur /\ fils[1].etat \in {"debut", "envoi", "attente"}
  /\ Len(fils[1].file) < MaxPile
  /\ fils' = [fils EXCEPT ![1].file = Append(@, [m |-> m, window |-> w])]
  /\ Repos /\ UNCHANGED <<enreg, versClient>>

(* get_next_blocks.                                                         *)
Blocs20(f) ==
  LET libres == {i \in f.base..taille-1 : i % SeqMod \notin f.select}
  IN {i \in libres : Cardinality({j \in libres : j < i}) < f.fenetre}

Envoi20 ==
  LET f == fils[1]
  IN /\ f.etat = "envoi" /\ Repos /\ UNCHANGED enreg
     /\ \/ /\ Blocs20(f) = {}          \* server_end_connection
           /\ Envoie({FIN(f.base)})
           /\ fils' = [fils EXCEPT ![1] = [Libre EXCEPT !.etat = "fini"]]
        \/ /\ Blocs20(f) # {}
           /\ Envoie({Paquet(i) : i \in Blocs20(f)})
           /\ fils' = [fils EXCEPT ![1].etat = "attente", ![1].select = {},
                                   ![1].recus = 0]

(* The numbers decode_sack_payload finds; of our encoding of 0 alone it     *)
(* finds 0, where our decode_sack finds nothing (SackCodec).                *)
Select20(m) == IF m.type = "SACK" /\ m.sack = {} THEN {0} ELSE m.sack

Max20(a, b) == IF a < b THEN b ELSE a
Coherent20(m, w) ==
  \A s \in Select20(m) : s # m.seqnum /\ (s - m.seqnum) % SeqMod < Max20(w, 1)

(* file_segment_num after an acknowledgement of sequence number n.          *)
Avance20NoTurn(f, n) == [f EXCEPT !.boucle = f.boucle \/ n > LoopHigh, !.base = n]
Avance20Sticky(f, n) ==
  LET boucle == f.boucle \/ n > LoopHigh
      tour   == f.tour + IF boucle /\ n < LoopLow THEN 1 ELSE 0
  IN [f EXCEPT !.boucle = boucle, !.tour = tour, !.base = (tour * SeqMod) + n]
Avance20(f, n) ==
  LET boucle == f.boucle \/ n > LoopHigh
      passe  == boucle /\ n < LoopLow
      tour   == f.tour + IF passe THEN 1 ELSE 0
  IN [f EXCEPT !.boucle = boucle /\ ~passe, !.tour = tour, !.base = (tour * SeqMod) + n]

(* One packet taken from the queue.                                         *)
Lit20(f, p) ==
  IF ~IsAck(p.m) \/ (p.m.seqnum - f.base) % SeqMod > MaxAvance THEN f
  ELSE LET g == [f EXCEPT !.fenetre = p.window, !.silences = 0, !.select = Select20(p.m)]
       IN IF Coherent20(p.m, p.window) THEN Avance20(g, p.m.seqnum) ELSE g

Attente20 ==
  LET f == fils[1]
      n == Len(f.file)
      g == Lit20([f EXCEPT !.file = SubSeq(@, 1, n - 1), !.recus = @ + 1], f.file[n])
  IN /\ f.etat = "attente" /\ Repos /\ UNCHANGED <<enreg, versClient>>
     /\ \/ /\ f.file = <<>>
           /\ fils' = [fils EXCEPT ![1] =
                IF f.silences + 1 >= MaxMuet THEN [Libre EXCEPT !.etat = "muet"]
                ELSE [f EXCEPT !.silences = @ + 1, !.etat = "envoi"]]
        \/ /\ f.file # <<>>
           /\ fils' = [fils EXCEPT ![1] = IF g.recus < MaxAcks THEN g
                                          ELSE [g EXCEPT !.file = <<>>, !.etat = "envoi"]]
=============================================================================
