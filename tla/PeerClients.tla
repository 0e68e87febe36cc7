---------------------------- MODULE PeerClients -----------------------------
(***************************************************************************)
(* The clients of the other groups (tools/groupe_20, groupe_42, groupe_61) *)
(* as they meet a server: one action per turn of their receiving loops.    *)
(* They share the names of the client's state in SrtpTransfer; `buffer'    *)
(* also holds an end packet (payload VIDE) for groups 20 and 61, which     *)
(* treat it as a packet like the others.                                   *)
(***************************************************************************)
EXTENDS Integers, Sequences, FiniteSets

CONSTANTS
  SeqMod,     \* size of the sequence number space (2048)
  Place,      \* packets a client holds (window_size 63, W 32, window_len 63)
  MaxEssais,  \* requests sent before giving up (10, CONNECTION_TRIES 150)
  MaxSilence  \* consecutive timeouts before giving up (10, 250)

VARIABLES
  pc,          \* in its loop, or how it left: done, abandon (no answer), or
               \* silence (too many timeouts in the middle of a transfer)
  attendu,     \* base_seqnum, expected_seqnum, next_seqnum
  buffer,      \* packets, window_buffer, window: sequence number -> payload
  ecrit,       \* what was written to the save file
  demarre,     \* 61: request acknowledged; 42: in recv_file; 20: connected
  dernier_ack, \* 20: last_valid_ack_segment, once it is not the initial one
  essais,      \* requests repeated, then consecutive timeouts
  versServeur, versClient

ecriture == <<attendu, buffer, ecrit>>

GET == [type |-> "GET"]
VIDE == -1
Payload(m) == IF m.type = "FIN" THEN VIDE ELSE m.morceau
IsData(m) == m.type \in {"DATA", "FIN"}

Ack(t, n, S, w) == [type |-> t, seqnum |-> n, sack |-> S, window |-> w]

Seq0Short(j) == (attendu + (IF j = 0 THEN 0 ELSE j - 1)) % SeqMod
Seq0(j) == (attendu + j) % SeqMod
Ahead(s) == (s - attendu) % SeqMod
With(m) == [s \in DOMAIN buffer \cup {m.seqnum} |->
              IF s = m.seqnum THEN Payload(m) ELSE buffer[s]]

(* window_size - len(packets), free, free_window_space.                     *)
FreeOne(keys) == Place - Cardinality(keys) - 1
Free(keys) == Place - Cardinality(keys)

(* The writing loop over the packets f: it takes k of them from attendu on, *)
(* and stops at the first that is missing or after an end packet.           *)
EndsAt(f, k) == k > 0 /\ f[Seq0(k - 1)] = VIDE
Writes(f, k) ==
  /\ \A j \in 0..k-1 : Seq0(j) \in DOMAIN f
  /\ \A j \in 1..k-1 : ~EndsAt(f, j)
  /\ EndsAt(f, k) \/ Seq0(k) \notin DOMAIN f
  /\ attendu' = Seq0(k)
  /\ buffer' = [s \in DOMAIN f \ {Seq0(j) : j \in 0..k-1} |-> f[s]]
  /\ ecrit' = ecrit \o [j \in 1..(IF EndsAt(f, k) THEN k - 1 ELSE k) |-> f[Seq0(j - 1)]]

(* The acknowledgement of everything written.                               *)
CumulativeAck == Ack("ACK", attendu', {}, Free(DOMAIN buffer'))

-----------------------------------------------------------------------------
(* groupe_61: client.py.                                                    *)

InWindow61(s) ==
  IF attendu + Place < SeqMod
    THEN attendu <= s /\ s < attendu + Place
    ELSE (attendu <= s /\ s < SeqMod) \/ s < (attendu + Place) % SeqMod

AlreadyReceived61(s) == \E i \in 1..Place : s = (attendu - i) % SeqMod

(* The requests older than two seconds are sent again at every turn.        *)
Requests61 == IF demarre THEN {{}} ELSE {{}, {GET}}

(* Window.add_packet: is an ACK due?                                        *)
AddPacket61(m) ==
  \/ /\ AlreadyReceived61(m.seqnum)
     /\ UNCHANGED <<ecriture, pc>>
  \/ /\ ~AlreadyReceived61(m.seqnum) /\ InWindow61(m.seqnum)
     /\ m.seqnum \notin DOMAIN buffer
     /\ \/ m.seqnum # attendu /\ buffer' = With(m) /\ UNCHANGED <<attendu, ecrit, pc>>
        \/ /\ m.seqnum = attendu
           /\ \E k \in 1..SeqMod :
                /\ Writes(With(m), k)
                /\ pc' = IF EndsAt(With(m), k) THEN "done" ELSE pc
Refuse61(m) ==
  /\ ~AlreadyReceived61(m.seqnum)
  /\ ~InWindow61(m.seqnum) \/ m.seqnum \in DOMAIN buffer
  /\ UNCHANGED <<ecriture, pc>>

Client61Recv(m) ==
  /\ pc = "run" /\ m \in versClient /\ IsData(m)
  /\ \E r \in Requests61 :
       \/ AddPacket61(m) /\ versServeur' = versServeur \cup r \cup {CumulativeAck}
       \/ Refuse61(m) /\ versServeur' = versServeur \cup r
  /\ UNCHANGED <<demarre, dernier_ack, essais, versClient>>

(* The server's ACK of the request, seqnum 1.                               *)
Client61Conn ==
  /\ pc = "run" /\ \E m \in versClient : m.type = "CONN"
  /\ \E r \in Requests61 : versServeur' = versServeur \cup r
  /\ demarre' = TRUE
  /\ UNCHANGED <<ecriture, pc, dernier_ack, essais, versClient>>

(* socket.timeout, or a packet decode_pack refuses.                         *)
Client61Turn ==
  /\ pc = "run"
  /\ \E r \in Requests61 : versServeur' = versServeur \cup r
  /\ UNCHANGED <<ecriture, pc, demarre, dernier_ack, essais, versClient>>

-----------------------------------------------------------------------------
(* groupe_42: client.py and srtp_io.py.                                     *)

(* No DATA packet came for this request: send the next one, or give up.     *)
Client42Try ==
  /\ pc = "run" /\ ~demarre
  /\ \/ essais + 1 < MaxEssais /\ essais' = essais + 1 /\ UNCHANGED pc
        /\ versServeur' = versServeur \cup {GET}
     \/ essais + 1 >= MaxEssais /\ pc' = "abandon" /\ UNCHANGED <<essais, versServeur>>
  /\ UNCHANGED <<ecriture, demarre, dernier_ack, versClient>>

InWindow42(s) == Ahead(s) < Place

Buffer42(m) ==
  IF m.seqnum \notin DOMAIN buffer /\ Cardinality(DOMAIN buffer) < Place THEN With(m) ELSE buffer

(* recv_file, the packet that answered the request included.                *)
Client42Recv(m) ==
  /\ pc = "run" /\ m \in versClient /\ IsData(m)
  /\ demarre' = TRUE /\ essais' = 0
  /\ \/ /\ m.type = "FIN" /\ UNCHANGED ecriture
        /\ pc' = IF m.seqnum = attendu THEN "done" ELSE pc
     \/ m.type = "DATA" /\ ~InWindow42(m.seqnum) /\ UNCHANGED <<ecriture, pc>>
     \/ /\ m.type = "DATA" /\ m.seqnum = attendu
        /\ \E k \in 1..SeqMod : Writes(With(m), k)
        /\ UNCHANGED pc
     \/ /\ m.type = "DATA" /\ InWindow42(m.seqnum) /\ m.seqnum # attendu
        /\ buffer' = Buffer42(m) /\ UNCHANGED <<attendu, ecrit, pc>>
  /\ versServeur' = versServeur \cup {CumulativeAck}
  /\ UNCHANGED <<dernier_ack, versClient>>

ClientSilence(dehors) ==
  /\ pc = "run" /\ demarre
  /\ essais' = essais + 1
  /\ pc' = IF essais + 1 >= MaxSilence THEN dehors ELSE pc
  /\ UNCHANGED <<ecriture, demarre, dernier_ack, versServeur, versClient>>

(* SystemExit after `chances' timeouts.                                     *)
Client42Timeout == ClientSilence("silence")

-----------------------------------------------------------------------------
(* groupe_20: SRTPClient.py.                                                *)

(* client_establish_connection: a timeout, or a DATA packet, which is       *)
(* dropped; after the last request it waits once more, longer.              *)
Client20Try ==
  /\ pc = "run" /\ ~demarre
  /\ \/ essais + 1 < MaxEssais /\ essais' = essais + 1 /\ UNCHANGED pc
        /\ versServeur' = versServeur \cup {GET}
     \/ essais + 1 >= MaxEssais /\ pc' = "abandon" /\ UNCHANGED <<essais, versServeur>>
  /\ UNCHANGED <<ecriture, demarre, dernier_ack, versClient>>

Client20Conn ==
  /\ pc = "run" /\ \E m \in versClient : m.type = "CONN"
  /\ demarre' = TRUE /\ essais' = 0
  /\ UNCHANGED <<ecriture, pc, dernier_ack, versServeur, versClient>>

(* The segment sent again for a packet outside the window.                  *)
Last20 == IF dernier_ack.type = "NONE" THEN Ack("ACK", 0, {}, Place) ELSE dernier_ack

(* process_packet, in the loop that collects packets.                       *)
Client20Recv(m) ==
  /\ pc = "run" /\ demarre /\ Cardinality(DOMAIN buffer) < Place
  /\ m \in versClient /\ IsData(m)
  /\ essais' = 0
  /\ \/ /\ Ahead(m.seqnum) >= Place /\ UNCHANGED buffer
        /\ versServeur' = versServeur \cup {Last20}
     \/ /\ Ahead(m.seqnum) < Place
        /\ buffer' = IF m.seqnum \in DOMAIN buffer THEN buffer ELSE With(m)
        /\ UNCHANGED versServeur
  /\ UNCHANGED <<attendu, ecrit, pc, demarre, dernier_ack, versClient>>

(* client_ack.  What decode_sack of the server makes of the payload: the    *)
(* numbers are sorted, so 0 is lost only when it is alone (SackCodec).      *)
SackOrAck20 ==
  LET keys == DOMAIN buffer'
  IN Ack(IF keys = {} THEN "ACK" ELSE "SACK", attendu',
         IF keys = {0} THEN {} ELSE keys, Free(keys))

(* process_window: one millisecond without a new packet, or a full window.  *)
Client20Process ==
  /\ pc = "run" /\ demarre /\ DOMAIN buffer # {}
  /\ \E k \in 0..SeqMod :
       /\ Writes(buffer, k)
       /\ \/ /\ EndsAt(buffer, k)
             /\ pc' = "done" /\ UNCHANGED <<dernier_ack, versServeur>>
          \/ /\ ~EndsAt(buffer, k)
             /\ dernier_ack' = SackOrAck20 /\ versServeur' = versServeur \cup {SackOrAck20}
             /\ UNCHANGED pc
  /\ UNCHANGED <<demarre, essais, versClient>>

(* After max_consecutive_timeouts the client returns as if it were done.    *)
Client20Timeout == Cardinality(DOMAIN buffer) < Place /\ ClientSilence("silence")
=============================================================================
