------------------------------ MODULE Interop -------------------------------
(***************************************************************************)
(* A download between two implementations of the protocol: our client and  *)
(* server (SrtpTransfer) and those of groups 20, 42 and 61 (PeerClients,   *)
(* PeerServers), over the network of SrtpTransfer, in the pairs that       *)
(* tests/test_interop.py runs.                                             *)
(***************************************************************************)
EXTENDS Integers, Sequences, FiniteSets

CONSTANTS
  MaxMorceaux, SeqMod, HalfMod, Fenetre, MaxSack, MaxGet, LossyTypes,
  Place, MaxEssais, MaxSilence,
  MaxFils, MaxFile, MaxPile, MaxAcks, MaxAvance, MaxMuet, LoopHigh, LoopLow,
  Demande20, \* window in the request of group 20's client (40)
  Duos       \* the pairs <<server, client>> considered

(* The pairs test_interop.py runs: ours with each other group's, and each   *)
(* group with itself; 0 stands for our own programs.                        *)
Groupes == {0, 20, 42, 61}
Couples == {d \in Groupes \X Groupes : 0 \in {d[1], d[2]} \/ d[1] = d[2]}

(* Group 61's server cannot number a packet SeqMod; group 20's counts a     *)
(* wrap between an acknowledgement above LoopHigh and one below LoopLow.    *)
ASSUME InteropAssumption ==
  /\ MaxMorceaux \in Nat /\ MaxSack \in Nat /\ MaxGet \in Nat
  /\ HalfMod \in Nat \ {0} /\ SeqMod = 2 * HalfMod /\ Fenetre \in 1..SeqMod
  /\ MaxMorceaux < SeqMod /\ Place \in 1..SeqMod
  /\ MaxFils \in Nat \ {0} /\ MaxAvance \in Nat /\ Demande20 \in Nat
  /\ LoopLow \in Nat /\ LoopHigh \in Nat /\ LoopLow <= LoopHigh
  /\ Duos \subseteq Couples

VARIABLES
  duo,           \* which server and which client meet
  remote_window, \* our server: etat['remote_window']
  existe, taille, session, base, lus, memoire, fini, fin_envoye, phase,
  pc, attendu, buffer, apres_zero, ecrit, demarre, dernier_ack, essais,
  versServeur, versClient, fils, enreg

Ours  == INSTANCE SrtpTransfer
Peer  == INSTANCE PeerClients
Serve == INSTANCE PeerServers

serveur == <<session, base, lus, memoire, fini, fin_envoye, phase, remote_window>>
pairs   == <<fils, enreg>>
client  == <<pc, attendu, buffer, apres_zero, ecrit, demarre, dernier_ack, essais>>
vars    == <<duo, existe, taille, serveur, pairs, client, versServeur, versClient>>

(* The window a client advertises, in its request and in acknowledgement m; *)
(* our client always says the same.                                         *)
Request == CASE duo[2] = 0 -> Fenetre [] duo[2] = 20 -> Demande20 [] OTHER -> Place
Window(m) == IF "window" \in DOMAIN m THEN m.window ELSE Fenetre

(* The client has sent its request; no server knows it yet.                 *)
Init ==
  /\ duo \in Duos /\ remote_window = 0
  /\ Ours!Init
  /\ fils = [t \in 1..MaxFils |-> Serve!Libre] /\ enreg = 0

-----------------------------------------------------------------------------
(* Servers.                                                                 *)

OurServer(A) == duo[1] = 0 /\ A /\ UNCHANGED <<duo, pairs>>
PeerServer(g, A) == duo[1] = g /\ A /\ UNCHANGED <<duo, serveur, client>>

(* etat['remote_window']: from the request that opens the session, then     *)
(* from each acknowledgement.                                               *)
OurRecvGet ==
  /\ Ours!SrvRecvGet
  /\ remote_window' = IF ~session /\ session' THEN Request ELSE remote_window
OurRecvAck(m) ==
  /\ Ours!SrvRecvAck(m)
  /\ remote_window' = IF session THEN Window(m) ELSE remote_window

OurLoop ==
  OurServer(/\ Ours!SrvRecvNothing \/ Ours!SrvPumpSome(remote_window) \/ Ours!SrvPumpNobody
            /\ UNCHANGED remote_window)

Server61Timeout == PeerServer(61, Serve!Timeout61)
Server42Step(t) ==
  PeerServer(42, \/ Serve!Enregistre42(t)
                 \/ \E k \in 0..taille-fils[t].lus : Serve!Envoi42(t, k)
                 \/ Serve!Lit42(t) \/ \E E \in SUBSET fils[t].reste : Serve!Attente42(t, E)
                 \/ Serve!Ferme42(t))
Server20Step == PeerServer(20, Serve!Debut20 \/ Serve!Envoi20 \/ Serve!Attente20)

(* A server takes a request, or an acknowledgement.                         *)
RecvGet ==
  \/ OurServer(OurRecvGet)
  \/ PeerServer(61, Serve!Nouveau61(Request))
  \/ PeerServer(42, \E t \in 1..MaxFils : Serve!Nouveau42(t, Request))
  \/ PeerServer(20, Serve!Nouveau20 \/ Serve!Depose20(Serve!GET, 0))
RecvAck(m) ==
  /\ m.type # "GET"
  /\ \/ OurServer(OurRecvAck(m))
     \/ PeerServer(61, Serve!RecvAck61(m, Window(m)))
     \/ PeerServer(42, Serve!Depose42(m, Window(m)))
     \/ PeerServer(20, Serve!Depose20(m, Window(m)))

-----------------------------------------------------------------------------
(* Clients.                                                                 *)

OurClient(A) == duo[2] = 0 /\ A /\ UNCHANGED <<duo, pairs, remote_window>>
PeerClient(g, A) ==
  /\ duo[2] = g /\ A
  /\ UNCHANGED <<duo, existe, taille, serveur, pairs, apres_zero>>

RecvData(m) ==
  \/ OurClient(Ours!ClientRecvData(m) \/ Ours!ClientRecvFin(m))
  \/ PeerClient(61, Peer!Client61Recv(m))
  \/ PeerClient(42, Peer!Client42Recv(m))
  \/ PeerClient(20, Peer!Client20Recv(m))
RecvConn ==
  \/ OurClient(Ours!ClientRecvOther)
  \/ PeerClient(61, Peer!Client61Conn)
  \/ PeerClient(20, Peer!Client20Conn)
ClientTurn ==
  \/ OurClient(Ours!ClientTimeout)
  \/ PeerClient(61, Peer!Client61Turn)
  \/ PeerClient(42, Peer!Client42Try \/ Peer!Client42Timeout)
  \/ PeerClient(20, Peer!Client20Try \/ Peer!Client20Timeout)
ClientProcess == PeerClient(20, Peer!Client20Process)

-----------------------------------------------------------------------------
Next ==
  \/ OurLoop \/ Server61Timeout \/ Server20Step \/ \E t \in 1..MaxFils : Server42Step(t)
  \/ RecvGet \/ \E m \in versServeur : RecvAck(m)
  \/ \E m \in versClient : RecvData(m)
  \/ RecvConn \/ ClientTurn \/ ClientProcess
  \/ Ours!NetLose /\ UNCHANGED <<duo, remote_window, pairs>>

Spec == Init /\ [][Next]_vars

-----------------------------------------------------------------------------
(* Whichever two programs meet, the save file is a prefix of the requested  *)
(* file (their reordering buffers, write_packets, recv_file and             *)
(* process_window, fed by the other group's numbering).                     *)
PrefixIntegrity == Ours!PrefixIntegrity

(* A client that ends on an end packet has the complete file, whatever      *)
(* number the other group's server gave that packet.                        *)
DoneMeansComplete == Ours!DoneMeansComplete

(* No client ever advertises a window of 0 to a server: our server, 42's    *)
(* and 61's would send nothing more, and 20's would end the transfer.       *)
NoZeroWindow == \A m \in versServeur : m.type # "GET" => Window(m) > 0

(* Ours, 42's and 20's servers send the end packet that carries the file's  *)
(* length only when the client has everything.                              *)
FinMeansDelivered ==
  duo[1] # 61 /\ (\E m \in versClient : m = Ours!FIN(taille)) => Len(ecrit) = taille

(* A peer's server forgets only what the client has written: the servers of *)
(* groups 42 and 61 delete what a cumulative acknowledgement covers, and 20 *)
(* reads on from it, whatever late acknowledgement, or acknowledgement      *)
(* meant for another handler, they take.                                    *)
Oublies(f) ==
  CASE duo[1] = 61 /\ f.etat = "session" -> 0..taille-1 \ f.reste
    [] duo[1] = 42 -> 0..f.lus-1 \ f.reste
    [] duo[1] = 20 -> 0..f.base-1
    [] OTHER -> {}
ForgottenMeansWritten ==
  \A t \in 1..MaxFils : \A i \in Oublies(fils[t]) : i < Len(ecrit)

(* Whichever two programs meet, they implement the abstract file transfer:  *)
(* the client only ever adds the file's next morceaux, after which it ends  *)
(* on the complete file, is interrupted, fails, or gave up having nothing.  *)
Abstract == INSTANCE FileTransfer
              WITH longueur <- taille, sortie <- ecrit, statut <- pc
RefinesFileTransfer == Abstract!ASpec

-----------------------------------------------------------------------------
(* Progress, under the fairness of SrtpTransfer: loops turn, timers expire, *)
(* and what is sent over and over, or never lost, is delivered in the end.  *)

OurTimers ==
  OurServer(/\ Ours!SrvPumpTimers(remote_window) /\ UNCHANGED remote_window)
OurTrois ==
  OurServer(/\ Ours!SrvPumpTrois(remote_window) /\ UNCHANGED remote_window)

(* Group 61 sends again its oldest packet, group 42 all of them.            *)
Server61Timer ==
  /\ Server61Timeout
  /\ \E i \in fils[1].reste : /\ \A j \in fils[1].reste : i <= j
                              /\ Serve!Paquet(i) \in versClient'
Server42Timer(t) == PeerServer(42, Serve!Attente42(t, fils[t].reste))

(* Group 20 reads the last packet to arrive; a request, which our client    *)
(* repeats only before the first answer, is not always that one.            *)
Server20Reads ==
  /\ PeerServer(20, Serve!Attente20) /\ fils[1].file # <<>>
  /\ LET m == fils[1].file[Len(fils[1].file)].m IN m.type # "GET" /\ m.seqnum = attendu

Fairness ==
  /\ WF_vars(OurLoop) /\ SF_vars(OurTimers) /\ SF_vars(OurTrois)
  /\ WF_vars(Server61Timer) /\ WF_vars(Server20Step) /\ SF_vars(Server20Reads)
  /\ \A t \in 1..MaxFils : WF_vars(Server42Step(t)) /\ SF_vars(Server42Timer(t))
  /\ SF_vars(RecvGet)
  /\ SF_vars(\E m \in versServeur : m.type # "GET" /\ m.seqnum = attendu /\ RecvAck(m))
  /\ SF_vars(\E m \in versClient : m.type # "CONN" /\ m.seqnum = attendu /\ RecvData(m))
  /\ WF_vars(ClientTurn) /\ WF_vars(ClientProcess)

FairSpec == Spec /\ Fairness

(* What a download may hang on: two handlers of one address; a SACK that    *)
(* group 20's server cannot place; that server giving up on a client it has *)
(* not heard of for 50 timeouts; and the loss of the end packet, which 20's *)
(* sends once, 42's five times at once and ours for three seconds at most.  *)
(* 61's repeats it until it is acknowledged.                                *)
TwoHandlers ==
  \E t, u \in 1..MaxFils :
    t # u /\ {fils[t].etat, fils[u].etat} \cap {"libre", "fini"} = {}
StaleSack ==
  /\ duo[1] = 20
  /\ \E m \in versServeur : m.type = "SACK" /\ ~Serve!Coherent20(m, Window(m))
Muet == fils[1].etat = "muet"
EndInFlight == duo[1] # 61 /\ \E m \in versClient : m.type = "FIN"

(* Otherwise the client leaves its loop, in every pair: an end packet that  *)
(* was sent and is on its way no more has been lost to the last copy.       *)
EndsOrKnown ==
  \/ <>(pc # "run" \/ TwoHandlers \/ StaleSack \/ Muet)
  \/ <>EndInFlight /\ <>[]~EndInFlight

(* What test_interop.py expects of every pair, on the imperfect network     *)
(* too: the client ends, unless its server gave up on it.                   *)
ServedClientEnds == <>(pc # "run" \/ Muet)
=============================================================================
