---------------------------- MODULE LongFile20 ------------------------------
(***************************************************************************)
(* Group 20's server and a file longer than the sequence number space.     *)
(* server_send counts morceaux without bound and packets modulo 2048: it   *)
(* finds its place in the file again from the 11 bits of each              *)
(* acknowledgement, one turn further after one above LoopHigh followed by  *)
(* one below LoopLow.  The handler is that of PeerServers; its client is   *)
(* any that writes what was sent, in order, and says how far it is.        *)
(***************************************************************************)
EXTENDS Integers, Sequences, FiniteSets

CONSTANTS
  SeqMod, MaxPile, MaxAcks, MaxAvance, MaxMuet, LoopHigh, LoopLow,
  MaxMorceaux, \* longest file
  MaxWindow,   \* widest window a client advertises (63)
  MaxAge,      \* life of an acknowledgement, in morceaux written meanwhile
  MaxVol       \* acknowledgements on the network at a time

(* The code has SeqMod = 2048, MaxAvance = 63, LoopLow = 64 and LoopHigh =  *)
(* 1000.  An acknowledgement is not older than 1984 morceaux when it is     *)
(* read, or it would look like a new one.                                   *)
ASSUME LongFileAssumption ==
  /\ SeqMod \in Nat \ {0} /\ MaxMorceaux \in Nat /\ MaxAge \in Nat
  /\ MaxPile \in Nat /\ MaxAcks \in Nat /\ MaxMuet \in Nat /\ MaxVol \in Nat
  /\ MaxWindow \in Nat \ {0} /\ 2 * MaxWindow < SeqMod
  /\ MaxAvance \in Nat /\ LoopLow \in Nat /\ LoopHigh \in Nat
  /\ MaxAvance <= LoopLow /\ LoopLow <= LoopHigh + 1
  /\ LoopHigh < SeqMod - MaxAvance /\ MaxAge < SeqMod - MaxAvance

VARIABLES
  existe, taille, \* the requested file
  ecrit,          \* how many of its morceaux the client has written
  fils, enreg,    \* the handler; nobody writes enreg, which is group 42's
  versServeur, versClient

vars == <<existe, taille, ecrit, fils, enreg, versServeur, versClient>>

Serve == INSTANCE PeerServers WITH MaxFils <- 1, MaxFile <- 0

(* The acknowledgement of n morceaux; `total' is n, which the 11 bits of    *)
(* the packet do not tell.                                                  *)
Ack(n, S, w) ==
  [type |-> IF S = {} THEN "ACK" ELSE "SACK", seqnum |-> n % SeqMod, sack |-> S,
   window |-> w, total |-> n]

Acquits == versServeur \ {Serve!GET}
EnFile == {fils[1].file[i].m : i \in 1..Len(fils[1].file)} \ {Serve!GET}

Init ==
  /\ existe \in BOOLEAN /\ taille \in IF existe THEN 0..MaxMorceaux ELSE {0}
  /\ ecrit = 0 /\ fils = <<Serve!Libre>> /\ enreg = 0
  /\ versServeur = {Serve!GET} /\ versClient = {}

Handler ==
  /\ \/ Serve!Nouveau20 \/ Serve!Debut20 \/ Serve!Envoi20 \/ Serve!Attente20
     \/ Serve!Depose20(Serve!GET, 0) \/ \E m \in Acquits : Serve!Depose20(m, m.window)
  /\ UNCHANGED ecrit

(* The client writes the morceaux before n, those of them it had not, and   *)
(* acknowledges them.  No acknowledgement still on the network or in the    *)
(* handler's queue is then older than MaxAge.                               *)
Recoit(n, S, w) ==
  /\ versClient # {} /\ n \in ecrit..taille
  /\ \A i \in ecrit..n-1 : Serve!Paquet(i) \in versClient
  /\ \A a \in Acquits \cup EnFile : n <= a.total + MaxAge
  /\ ecrit' = n
  /\ Cardinality(Acquits \cup {Ack(n, S, w)}) <= MaxVol
  /\ versServeur' = versServeur \cup {Ack(n, S, w)}
  /\ UNCHANGED <<existe, taille, fils, enreg, versClient>>

Client ==
  \E n \in 0..taille, w \in 1..MaxWindow :
    \E S \in SUBSET {(n + j) % SeqMod : j \in 1..MaxWindow-1} : Recoit(n, S, w)

(* An acknowledgement is lost, or was delivered for the last time.          *)
Perd(m) ==
  /\ versServeur' = versServeur \ {m}
  /\ UNCHANGED <<existe, taille, ecrit, fils, enreg, versClient>>

Next == Handler \/ Client \/ \E m \in Acquits : Perd(m)

Spec == Init /\ [][Next]_vars

-----------------------------------------------------------------------------
(* The handler never reads past a morceau the client has not written: a     *)
(* turn too many would skip 2048 of them (file_segment_num).                *)
ForgottenMeansWritten == fils[1].base <= ecrit

(* What get_next_blocks takes from the file under the number the client     *)
(* waits for is the morceau it waits for, in whatever turn: a turn missed   *)
(* or counted twice would put another part of the file in the save file.    *)
SentIsExpected ==
  fils[1].etat = "envoi" =>
    \A i \in Serve!Blocs20(fils[1]) : i % SeqMod = ecrit % SeqMod => i = ecrit

(* While it serves, the handler's place in the file only moves forward, by  *)
(* no more than max_ack_advance, over the wrap too.                         *)
Serving(f) == f.etat \in {"envoi", "attente"}
AdvancesByWindow ==
  [][Serving(fils[1]) /\ Serving(fils'[1])
       => fils'[1].base \in fils[1].base..fils[1].base+MaxAvance]_vars
=============================================================================
