---------------------------- MODULE FileTransfer ----------------------------
(***************************************************************************)
(* What a download promises its user, whatever the protocol underneath:    *)
(* the save file grows by the next morceaux of the requested file, success *)
(* is reported only on the complete file, the client gives up asking only  *)
(* before it has received anything, and it may stop on a silent server or  *)
(* on an error of its own.                                                 *)
(***************************************************************************)
EXTENDS Integers, Sequences

VARIABLES
  longueur, \* morceaux in the requested file
  sortie,   \* what the save file holds
  statut    \* "run", "done", "abandon", "silence" or "crash"

avars == <<longueur, sortie, statut>>

(* The first n morceaux of the file.                                        *)
Extrait(n) == [i \in 1..n |-> i - 1]

AInit == longueur \in Nat /\ sortie = <<>> /\ statut = "run"

Deliver ==
  /\ statut = "run"
  /\ \E n \in Len(sortie)+1..longueur : sortie' = Extrait(n)
  /\ UNCHANGED <<longueur, statut>>

(* The end, which may come with the last morceaux.                          *)
Finish ==
  /\ statut = "run" /\ sortie' = Extrait(longueur)
  /\ statut' = "done"
  /\ UNCHANGED longueur

GiveUp ==
  /\ statut = "run" /\ sortie = <<>>
  /\ statut' = "abandon"
  /\ UNCHANGED <<longueur, sortie>>

(* The other side went silent in the middle: what was received stays, and   *)
(* nothing is promised of it.                                               *)
Interrupt ==
  /\ statut = "run" /\ statut' = "silence"
  /\ UNCHANGED <<longueur, sortie>>

(* The client fails on a packet, the morceaux of which it may have written. *)
Fail ==
  /\ statut = "run" /\ statut' = "crash"
  /\ \E n \in Len(sortie)..longueur : sortie' = Extrait(n)
  /\ UNCHANGED longueur

ANext == Deliver \/ Finish \/ GiveUp \/ Interrupt \/ Fail

ASpec == AInit /\ [][ANext]_avars
=============================================================================
