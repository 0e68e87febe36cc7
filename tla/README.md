# A TLA+ model of the SRTP file transfer

The repository is a small file-transfer protocol over UDP: a client asks a
server for a file, the server cuts it in *morceaux* of at most 1024 bytes and
sends them under a sliding window, the client answers with cumulative and
selective acknowledgements. This directory holds TLA+ modules translated from
that code, from the three other implementations of the protocol that are kept
beside it for interoperability tests, and from the link simulator it is tested
through, TLC configurations that check them on small instances, and TLAPS proofs
for every instance.

Paths below are relative to the repository; `server.py` means `src/server.py`
and so on.

## 1. The system

| Part | State | Operations | Interacts with |
|---|---|---|---|
| client (`client.py`) | `buffer`, `seqnum_attendu`, `transfer_started`, `last_ack_sent`, `retransmits_initial`, the save file | send and repeat the request, write in sequence, buffer out of sequence, drain, ACK/SACK, accept the end packet, give up | server, over UDP; codec |
| server session (`server.py`, one entry of `clients`) | `base`, `prochain_seqnum`, `memoire_envoi`, `fichier_fini`, `fin_envoye`, timers, `rtt`, `remote_window` | open on a request, forget what is acknowledged, send, retransmit one or all, end packet, delete | client, over UDP; codec |
| server dispatch | the dictionary `clients` | one `recvfrom`, then one turn over all sessions | all sessions share one thread |
| packet format (`protocol.py`) | none | `empackage`, `depackage` | called by both sides |
| SACK format (`protocol.py`) | none | `encode_sack`, `decode_sack` | called by both sides |
| link simulator (`tools/Linksimulator/.../link_sim.c`) | clock, delay queue, remote address, options | `select`, deliver what expired, relay, drop, cut, corrupt, delay | sits between client and server in the tests |
| its delay queue (`min_queue.c`) | a heap in an array that grows | push, pop, peek | the simulator's only thread |
| capturing proxy (`tests/proxy.py`), tests, helpers, benchmark | captured packets | relay, drop, corrupt, duplicate, reconstruct | tests only |
| peer clients (`tools/groupe_20/SRTPClient.py`, `groupe_42/srtp_io.py`, `groupe_61/client.py`) | expected number, buffer, save file, last ACK, counters of requests and timeouts | request, receive, write in order, ACK (20: SACK), give up | any server |
| peer servers (`groupe_20/server.py` and `SRTP.py`, `groupe_42/server.py`, `groupe_61/server.py`) | 61: a dictionary of sessions; 20 and 42: one thread per client with a queue the dispatching loop fills | open, send, take acknowledgements, retransmit, end | any client |
| peer formats (`groupe_20/SRTPPacket.py`, `groupe_42/SRTP.py`, `groupe_61/code_pack.py`) | none | encode and decode packets and SACKs | must agree with `protocol.py` |

What is hard here, and hardly tested:

- *Unreliable delivery*: every datagram may be lost, repeated, late or out of
  order. Sequence numbers have 11 bits, so a packet or an ACK that is late
  enough looks like a new one.
- *Forgetting*: the server deletes a packet on an ACK or a SACK. Deleted too
  early it is never sent again.
- *The end*: an empty DATA packet whose only content is a sequence number ends
  the transfer; the server waits three seconds and forgets the client, whether
  or not the end packet arrived.
- *Limits*: the window, the 1024 bytes a SACK may have, the heap's allocation
  step, the microseconds of a `timeval`.
- *Threads* (groups 20 and 42): the loop that receives and the thread that
  serves share a dictionary and a queue; a request or an acknowledgement may
  arrive between any two of their steps.
- *Mixed pairs*: four programs that number, acknowledge and end a transfer in
  four slightly different ways.
- *Encodings*: zero is both a sequence number and SACK padding; four fields
  share a word; a shortened packet still has its header.

`PROJECT.json` lists each hazard at its line with the properties that cover it.

What makes each part correct: the save file is a prefix of the requested file,
and complete when the client says so; the server forgets only what the client
holds; every transfer ends; decoding undoes encoding and never invents; the
simulator loses and repeats nothing by accident, keeps the order without
jitter, and never oversleeps; its heap is a priority queue.

## 2. Modules

| Module | Models | |
|---|---|---|
| `FileTransfer` | what a download promises: the next morceaux are appended, *done* is said of the complete file only, a client that was never answered may give up, one whose server fell silent may stop, one may fail on a packet of its own | abstract specification |
| `SrtpTransfer` | one client, its session on the server, the network | refines `FileTransfer` |
| `SrtpTransferProofs` | theorems about it | |
| `PeerClients` | the clients of groups 20, 42 and 61, one action per turn of their loops | |
| `PeerServers` | their servers: 61's loop, and the dispatching loop and handler threads of 20 and 42 | |
| `Interop`, `MCInterop` | a download between two of the four programs | composes `SrtpTransfer`, `PeerClients`, `PeerServers`; refines `FileTransfer` |
| `InteropProofs` | theorems about it | |
| `LongFile20` | group 20's handler and a file longer than the sequence number space | composes `PeerServers` with an abstract client |
| `LongFile20Proofs` | theorems about it | |
| `SackCodec`, `SackCodecProofs` | `encode_sack`, `decode_sack` and group 20's counterparts bit by bit, driven by the client's buffer | |
| `PacketCodec`, `PacketCodecProofs` | the four groups' packet encoders and decoders, and what the link does to a segment | |
| `SackPacket` | a SACK from the client's buffer through the link to the server's list | composes `SackCodec` and `PacketCodec` |
| `PriorityQueue` | what `min_queue.h` promises | abstract specification |
| `MinQueue`, `MCMinQueue`, `MinQueueProofs` | the heap, one step per loop iteration | refines `PriorityQueue` |
| `LinkSim`, `LinkSimProofs` | the simulator's loop over a queue that `PriorityQueue` specifies | |

The modules meet in these places. `SrtpTransfer`'s `DecodedSack` is the fact
`OnlyLastZeroLost` of `SackCodec`, and its `MaxSack` is the 744 of the theorem
`SackCapacity`. Its network turns a corrupted packet into a lost one, which is
`NothingForged` of `PacketCodec`. `LinkSim` takes the head of its queue as
`PriorityQueue` allows, which is what `MinQueue` implements. `Select20` of
`PeerServers` and `SackOrAck20` of `PeerClients` are the facts `ReadBy20` and
`SentBy20` of `SackCodec`, and that the four groups understand each other's
packets at all is `IntactAccepted` of `PacketCodec`.

### SrtpTransfer

A morceau is its index in the file, so a correct save file is `<<0, 1, 2, ...>>`.
The variables keep the code's names. `lus` counts the morceaux read;
`prochain_seqnum` is `lus % SeqMod`. `memoire` and `buffer` are the two
dictionaries; of the insertion order of `buffer` only what `decode_sack`
depends on is kept (`apres_zero`, the keys after key 0).

The server's loop has two halves, told apart by `phase`: one `recvfrom`
(`SrvRecvGet`, `SrvRecvAck`, `SrvRecvNothing`) and one turn over the sessions
(`SrvPump`, with the number `k` of morceaux the window lets through, the set of
packets whose timer ran out, whether the adaptive timer ran out, and whether
the three seconds are over). The branches that end with `continue` skip the
second half. The client's loop is `ClientRecvData`, `ClientRecvFin`,
`ClientRecvOther`, `ClientTimeout`. A packet received stays in flight, so it can
come again at any later time; `NetLose` removes one.

Clocks are left out: a timer may have expired whenever the code tests it. This
allows more behaviours than any real clock, so safety carries over; what does
not carry over is liveness, for which fairness is stated.

### PeerClients, PeerServers and Interop

The peers' programs use the variables of `SrtpTransfer` for the same things
(`attendu`, `buffer`, `ecrit`, the two directions of the network), so any client
meets any server. Groups 20 and 61 put the end packet in the buffer like a
packet of data: there it has the payload `VIDE`.

A server's handlers are records in `fils`. Group 61 has one, its `Session`.
Group 20 makes one per address and never removes it. Group 42 starts one for
every request whose address is not in `client_queues`, and it is the new thread
that enters it: `Nouveau42` and `Enregistre42` are two actions, and `enreg` says
whose queue the entry holds. `Envoi42` is one turn of `send_file` up to the wait,
`Lit42` takes one acknowledgement from the queue during the wait, so that others
may arrive while it is drained, `Attente42` ends the wait, by a timeout or because
the queue is empty again, with the retransmissions, and `Ferme42` is the `finally`
clause. Group 20's thread is `Debut20`, `Envoi20`, and
`Attente20` for one turn of the loop over `max_processed_acks`; its queue is a
stack. Windows travel with the acknowledgements, and our server's
`remote_window` is a variable of `Interop`.

`duo` is the pair that meets, one of `Couples`: our programs with each group's, in both
directions, and each group with itself, which is what `tests/test_interop.py`
starts. The pairs of two different other groups are left out: no test has them,
and group 42's server does not answer a request with an ACK, without which the
client of group 20 never starts.

`RefinesFileTransfer` maps `taille`, `ecrit` and `pc` to the file's length, the
save file and the status. Group 20's and 61's clients write the last morceaux and
leave on the end packet in one pass over their buffer, so `Finish` of
`FileTransfer` may bring the rest of the file; their giving up on a server that
has fallen silent is `Interrupt`. Our client dying of a SACK it cannot send
(`pc = "crash"`) is `Fail`: the packet it was answering may have been written.

### LongFile20

Group 20's server counts morceaux without bound and writes their number modulo
2048 on the packets (`SRTP.py:87-174`). On each acknowledgement it has to find its
place again from 11 bits: `file_segment_num_mult` is the turn, which it increases
when a number above 1000 (`about_to_loop`) is followed by one below 64, and
`max_ack_advance` decides which acknowledgements it believes (`Avance20` of
`PeerServers`). The handler is the one of `PeerServers`, unchanged. In the place of a
client program stands what the server relies on: `Recoit` writes any number of
the next morceaux, if they were sent, and acknowledges them, with any list of later
numbers within a window. The client's own trouble with long files is the subject
of `wrap`. `ecrit` is here the number of morceaux written. An acknowledgement
carries, besides its 11 bits, that number (`total`), which the handler never reads.
A datagram stays on the network, to be read any number of times, until `Perd`
removes it.

### SackCodec, PacketCodec and SackPacket

Pure functions, with the smallest state that produces their inputs: the client's
dictionary keys in insertion order for the first; one packet, what the link does
to it and what the receiver makes of it for the second. `zlib.crc32` is taken to
have no collisions: the check value of `x` is `x`. Without that assumption
`NothingForged` is false with the probability of a collision.

`SackPacket` puts the first into the second: while the buffer holds something the
client sends its keys in a SACK packet, and `SackTold` says of the other end that
the numbers our server deletes from `memoire_envoi` are among those the client has
buffered, and all of them but at most 0, whatever the link did to the packet. The
packets of `PacketCodec` alone start from the empty buffer, where no SACK is due.

### MinQueue and LinkSim

`MinQueue` keeps the macros' quirk that index 0 is its own left child, so the
root has one child. The slot a push takes holds garbage until it is written.
A pop on an empty queue and the other early returns change nothing.
`LinkSim` counts time in milliseconds; `Timeval` splits it in seconds and the
rest, so the comparison, subtraction and addition are those of the code,
including the missing carry and the skipped borrow. `lu` records when a packet
was read.

## 3. Runs

| Run | Shows |
|---|---|
| `safety` | `TypeOK`, `PrefixIntegrity`, `DoneMeansComplete`, `CrashNeedsLongFile`, `RefinesFileTransfer`: up to 5 morceaux in a space of 6, window 2, SACKs of 3 numbers; `ForgottenMeansReceived`, `FinMeansDelivered`, `BaseNeverRetreats` for the files among them of at most half the space |
| `live` | `DataDelivered`, `ClientTerminates` when the end packet is not lost |
| `interop` | `PrefixIntegrity`, `DoneMeansComplete`, `NoZeroWindow`, `FinMeansDelivered`, `ForgottenMeansWritten`, `EndsOrKnown`, `RefinesFileTransfer` for nine pairs of programs |
| `longfile20` | `ForgottenMeansWritten`, `SentIsExpected`, `AdvancesByWindow` of group 20's handler over the wrap of its numbers |
| `sack_packet` | `OnlyLastZeroLost`, `ReadBy20`, `SentBy20` for every insertion order of eight 3-bit numbers; `IntactAccepted`, `NothingForged`, `OthersRejectAltered` for each encoder and decoder of the four groups; `SackTold` of the two together |
| `min_queue` | `TypeOK`, `HeapOrder`, `RefinesPriorityQueue`: seven slots, allocation step 2 |
| `link_sim` | `TypeOK`, `InOrder`, `NoOversleep`, `QueuedSent` over the options, hosts and errors, two datagrams |

Five runs show a disagreement between the code and what a document, comment or
test says of it; `PROJECT.json` quotes the lines.

| Run | What happens |
|---|---|
| `wrap` | from 2048 morceaux on, a late duplicate is buffered by the client and written one turn of the sequence space later |
| `fin_lost` | the end packets are lost, the server deletes the session, the client repeats its ACK for ever |
| `race42` | a request repeated before group 42's handler has registered starts a second one; the acknowledgements of the first transfer go to the second, and neither goes on |
| `stale20` | our client lists a duplicate it has already written in its SACK; group 20's server ignores that acknowledgement but keeps the list, has nothing left to send and ends the transfer |
| `cut` | the simulator cuts a DATA packet after its header; the server's window of 63 already has the bit set that marks the cut, so the header matches its CRC, and our `depackage` raises in the client's loop where the repository's `README.md:206` has the packet rejected |

`race42`, `stale20` and `fin_lost` are why `EndsOrKnown` of `interop` has
exceptions. It says that the client leaves its loop in every pair, unless

- two handlers of group 42's server serve its address (`TwoHandlers`);
- group 20's server has read a SACK it cannot place (`StaleSack`), or has given
  up (`Muet`);
- an end packet was sent, by a server other than group 61's, and its last copy
  is lost (`EndInFlight` at some time, and never again after another). Group 20's
  server sends it once, group 42's five times within half a second, ours for at
  most three seconds; a client that misses them all hears nothing more. Group
  61's repeats it until it is acknowledged, and so has no such exception.

An exception says nothing of what happens then: `race42` shows it for two
handlers, and what the removal of another handler's registration
(`groupe_42/server.py:147`) adds to that is covered by no property.

Two more disagreements are visible in the models without a run of their own.
More than 744 packets may wait behind one that keeps being lost, since the
server's window counts only those that no SACK reported (`server.py:90`):
`empackage` then returns `None` and `sock.send` raises, where
`tests/test_integration.py:304` has the client survive an imperfect network.
`safety` reaches that state (`pc = "crash"`) with files of more than three
morceaux and SACKs of three numbers, and `CrashNeedsLongFile` says that it takes
such a file: not even duplicates, which the client buffers too, bring a shorter
one there. In `LinkSim` a delay that crosses a second boundary may end as soon as
the next second starts, because `link_sim.c:230` does not carry microseconds into
seconds; the usage (`link_sim.c:495`) says that the delay is applied. `select` by
itself sleeps for the whole delay: the packet leaves early when another packet, or
a busy socket, wakes it before. What leaves early leaves in order (`InOrder`).

### Bounds, and why they are enough

The sizes 2048, 1024, 63 and 744 are constants. What matters is how a file's
length compares with them, and the instances sit on each side of each
comparison: up to half the space and between half and all of it (`safety`),
equal to it (`wrap`); at most what a SACK lists, and more (`safety`, where
`MaxSack` is 3).
The theorems then cover the real values.
`MaxGet` is 1 instead of 5: the second unanswered request gives up, and both
branches happen. `safety` loses nothing (`LossyTypes = {}`): since a packet
stays in flight and need not be received, a loss adds no reachable client or
server state. In `live` losses matter, because fairness would otherwise force
delivery. Its files are shorter than `HalfMod`: a client exactly `HalfMod` ahead
of `base` is never heard (server.py:72 ignores its ACK), which TLC finds with
three morceaux and `HalfMod = 3`. With the code's sizes the client is at most
744 + 63 ahead.

`interop` has files of up to two morceaux, windows of 1 and 2, six sequence
numbers, two handlers and queues of one (group 42) and two (group 20) packets:
enough for reordering, duplicates, retransmission, a full window, two handlers
of one address and an old acknowledgement behind a new one. Group 42's test for
an acknowledgement more than half the space old (`TooOld42`) then never holds by
age alone, which needs files beyond this instance, and group 20's counting of
turns (`Avance20`) is left to `longfile20`. Of the packets, those of data and the
end packets are lost (`LossyTypes`): a request or an acknowledgement that is not lost may still be ignored for
as long as one likes before it is received, and losing and repeating them for
ever only fills the bounded queues. `MaxFils`, `MaxFile` and `MaxPile` are bounds
of the model; the code's queues have none. A client that has ended, or a server
that has given up, stops: deadlock is not checked.

`longfile20` has five sequence numbers and files of up to six morceaux, windows of
1 and 2, `max_ack_advance` 1 and the two thresholds in the same order as in the
code (1 and 2 for 64 and 1000), so that the handler passes the wrap with
`about_to_loop` set and unset, and reads acknowledgements of the turn before.
Two acknowledgements are on the network at a time (`MaxVol`), one waits in the queue
(`MaxPile`). `MaxAge` is not a bound of the search but what makes 11 bits enough: no
acknowledgement is read when the client has written `SeqMod - MaxAvance`
morceaux since it was sent (1985, about two megabytes). An older one is a distance
of less than 64 ahead again, and the handler would take it for new. Nothing in the
code keeps it away; with `MaxAge` one more than `LongFileAssumption` admits, TLC
finds the handler ahead of its client. After 50 silent waits the handler stops, and so deadlock is not checked.

In `sack_packet` numbers have 3 bits and a payload is padded to 16, so that one to
eight numbers are followed by eight different paddings of 1 to 14 bits, up to
four spurious numbers among them. Eight keys are all the numbers of 3 bits. The words group 20
asks of a SACK have two bytes accordingly (`Mot`), payloads up to two, and
`MaxPktLen` is 3, so that a segment can lose part of its CRC and all of it.
Packets are sent of lists of at most `MaxListe` numbers, which fit in two bytes;
longer lists go through encoder and decoder without a packet. `cut` has four
values in each field. Seven heap slots
make three levels below the root, with nodes of zero, one and two children. In
`LinkSim` a second has 2 or 4 milliseconds; `MaxBusy`, `MaxStep` and `MaxLate`
bound the busy sockets, the waits and the lateness of a timer. The delay is 0 or 3
and the jitter 0, below the delay or above it, which `simulate_link` treats in
three ways. It may stop: after
the last datagram `select` waits for ever, and so its runs do not check for
deadlock; neither do `sack_packet` and `cut`, whose packet is received once.

### Fairness

`SrtpTransfer`: weak fairness of the server's loop and of the client's timeout
(both programs loop as long as they run, with socket timeouts of 0.01 s and
2 s). Strong fairness of "every packet's own timer has run out at this turn"
and of the three seconds (time passes; the packet timer is reset only by
sending). Strong fairness of receiving the request, the client's last
acknowledgement, the expected morceau and the expected end packet: a network
that delivers infinitely many copies of what is sent infinitely often. Nothing
is assumed of the adaptive timer, which every packet from the client restarts.
The last assumption on the network is what `fin_lost` needs too: there the end
packet is sent finitely often, so fairness does not help.

`Interop`: the same for our programs. Of the peers, weak fairness of the loops
and threads, and of the timers that nothing resets (group 61's oldest packet);
strong fairness of group 42's retransmission, whose wait may also end with a
packet, and of receiving the request, the acknowledgement and the packet the
client currently stands at. Group 20's thread reads the packet on top of its
stack: strong fairness of reading a current acknowledgement is assumed, that is, if one
is on top again and again it is read in the end. The code justifies it because
duplicates of old packets are finitely many and our client repeats its request
only before the first answer, so that what arrives in the end are current
acknowledgements. An end packet can be lost here for good; the fairness of receiving
it says something only of one that is on its way again and again.

`LinkSim`: weak fairness of `select`'s timeout and of the two calls after it.
The loop may still end on an error.

## 4. Proofs

`SrtpTransferProofs`:

- `TypeCorrect` needs only `ConstantsAssumption`.
- `PrefixCorrect`, `DoneCorrect` (file shorter than the sequence space). The
  property speaks of the save file only, and is not inductive: what is written
  comes from the buffer or the network, and these from `memoire`. `Integrity`
  says that everywhere the morceau under sequence number `s` is the one morceau
  of this file with that number, that an end packet carries the file's length,
  that a buffered packet is not the next one expected, and that
  `seqnum_attendu` is the number of morceaux written.
- `CrashCorrect` and `Refinement` (file shorter than the sequence space, SACKs of
  any capacity). From `Integrity` the buffer holds at most as many packets as the
  file has, so that a client that dies of its SACK has a file longer than one
  lists. To `FileTransfer` that is a `Fail`.
- `ForgottenCorrect`, `FinCorrect`, `BaseCorrect` (file shorter than the
  sequence space; the properties themselves speak of the files of at most half
  of it, `ShortFile`). `Delivery` adds what acknowledgements mean: one in flight claims no more than
  the client has, `base` is at most what is written, what is not held by the
  client is in `memoire`, and the window has no gap. With at most half the space
  the distance modulo `SeqMod` tells old from new. Beyond it it does not: TLC
  finds an old ACK that moves `base` to an old value (server.py:72) as soon as
  the file has `HalfMod + 1` morceaux.

`InteropProofs` (any set of pairs of `Couples`, any windows, buffers and number of
handlers, files shorter than the sequence space as `InteropAssumption` says):

- `InteropPrefixIntegrity`, `InteropDoneMeansComplete`, `InteropNoZeroWindow`.
  The invariant `Integrity` is about everything a morceau or a number passes
  through on its way: the network both ways, the client's buffer, our server's
  `memoire`, every handler's queue and state. Its core is what an
  acknowledgement means (`AckTrue`: what comes before its number is written,
  what its SACK lists is held) and what a packet means (`PacketTrue`). Three
  quirks of the peers shape it. Group 61's client counts the end packet in its
  last acknowledgement. Group 20's and 61's clients keep end packets in the
  buffer, and one that is behind may lie there (`SlotTrue`). Group 20's server
  numbers the end packet with its own `base`, which may be the number of a
  packet of data; that the client never takes it for the end of an incomplete
  file holds because the server sends it only when that packet was selectively
  acknowledged, so that the client does not wait for it (`Held`). A zero window
  would need a full buffer; the packet the client waits for is not in it
  (`BufferInv`), and those that are lie within the window.
- `InteropFinMeansDelivered`, `InteropForgottenMeansWritten`. `Delivery` adds
  that what a server read and no longer keeps is with the client, for each
  server in its own terms (`OursForgets`, `Forgets42`, `Forgets61`; group 20's is
  part of `Handler20`), also for the handlers whose client talks to another one.
- `InteropRefinement`: every pair implements `FileTransfer`, under `Short20`. That the file only grows, by its own morceaux, and is complete at an
  end packet is `Integrity` before and after the step. Giving up needs one fact
  more, that a client which has not been answered has written nothing
  (`Unanswered`). It is false of group 61's client, which takes a packet for an
  answer without setting a flag, but that client never gives up. `Ending`
  says which endings a step may bring; it is proved for each turn of each
  client's loop.

These theorems have hypotheses on the length of the file, which are the
code's. `Short20`: where group 20's server serves, `MaxMorceaux + MaxAvance <
SeqMod`, that is files of less than 1985 morceaux. It takes any acknowledgement
at most 63 ahead of its base, modulo 2048, for a new one, and beyond that length
an old one can be. `ShortHalf`: where our server or group 42's serves,
`MaxMorceaux < HalfMod`, less than 1024 morceaux, because both tell old from new
by half the space. Group 61's server compares nothing and needs neither.
With
pairs that do not include the servers in question the hypotheses are empty.

`LongFile20Proofs`, for a file of any length, and every sequence number space,
window, `max_ack_advance` and pair of thresholds that `LongFileAssumption` admits
(the code's 2048, 63, 64 and 1000 among them): `LongForgottenMeansWritten`,
`LongSentIsExpected`, `LongAdvancesByWindow`. None of the three is inductive, since
the handler's place depends on flags set by earlier acknowledgements. `Inv` has four parts.
`Place`: `base` is `tour * SeqMod` plus its remainder, and `about_to_loop` is set
exactly when that remainder is above `LoopHigh`. `Fresh`: an acknowledgement on the
network or in the queue is of a number of morceaux the client had written, at most
`MaxAge` ago. `QueueInv`: so is everything queued. `ReachInv`: while the handler
may still send, nothing beyond two windows from `base` was sent, so that the client
is no further either (a SACK list lets the handler skip up to one window of
numbers, and the next one is counted without them: `BlocsReach`, by cardinalities
over an interval). The arithmetic then says that an acknowledgement that is fresh and
within `max_ack_advance` modulo `SeqMod` is within that distance indeed, and not a
turn away (`Division`, `Unique`, `Turn`), and that the two thresholds tell whether
the wrap lies in between, because 63 is at most 64, 64 is below 1000, and 1000 is
further than 63 from 2048.

`PacketCodecProofs`, for every field width and payload length, every encoder and
every decoder. `IntactCorrect` follows from `HeaderFields` (each field is recovered
from the packed word), `SuiteSlices` (the slices of payload and CRC) and
`ReadsEmpackage` (each group's tests hold of an unaltered packet).
`NothingForgedCorrect` and `OthersRejectCorrect` need to know what can be on the link at
all: `TravelsInv` says that a segment is intact, or has a header that no longer
matches its check value, or has its own header and one wrong byte after it, or has
its own header and too few bytes. `ReadsTravels` shows that each decoder answers
nothing, an exception, or what was sent, in each of the four cases
(`OneByteWrong`, `Truncated`, `BadHeader`), and nothing in the last three unless it
is ours, which raises where it unpacks a second CRC that is not there.

`SackCodecProofs`: `SackCapacity`, by arithmetic on the padding, and
`OnlyPaddingStripped`: of a list of different numbers followed by any number of
zeros, our decoder gives back the list but for a last 0, and group 20's keeps that
0 when it is alone. This is the part of `OnlyLastZeroLost` and `ReadBy20` that does
not depend on what a run of bits is as a number.

`LinkSimProofs`: `LinkTypeCorrect`, `LinkInOrder`, `LinkNoOversleep`, for every
number of datagrams, delay, jitter and number of milliseconds in a second. The
order of what was sent is not inductive: the queue must agree with it. `Traffic`
says that a datagram is unread, queued or sent, never two of them, and was read in
the past; `Regular` that without jitter every expiration date is that of the
reading plus the same delay, with the carry missing from all of them in the same
way. `DateOrder` then shows that `timeval_cmp` on such dates gives the order of
reading. `LinkNoOversleep` is a case split on the borrow of `timeval_diff`: where it
is skipped, what is left is less than a second, and `get_queue_timeout` answers
1.

`MinQueueProofs`: `QueueType`, `HeapCorrect`, `QueueCorrect` for every set of
slots, keys and allocation step. The order is not inductive while a loop runs:
`UpInv` allows a hole and says that the rising value and the hole's parent are
below its children; `DownInv` is its mirror image. That the root is least needs
an induction over the tree, done by taking the smallest index whose key is
below the root's (`LeastNatural`, from the library's well-foundedness of `<`).
`Distinct` is what makes a swap keep the set.

Only model-checked: the liveness properties `DataDelivered`, `ClientTerminates`,
`EndsOrKnown` and `QueuedSent` (fairness and `ENABLED` are out of the prover's
reach), and `OnlyLastZeroLost`, `ReadBy20`, `SentBy20`, `SackTold`, which need that the bits of a
number give the number back: an induction over a fold. Every other invariant and
action property of a passing run is a theorem.

## 5. Not modelled

- The server's dispatch over several clients, and the exceptions
  (`IsADirectoryError`, `UnicodeDecodeError`, `struct.error`) that end the loop
  for all of them: the sessions share nothing but the loop, and a model would
  repeat `SrtpTransfer` once per client.
- The round-trip times and the real lengths of the timers, of all four programs.
- In the peers: files of 2048 morceaux and more for groups 42 and 61 (61's server cannot number
  them and stops), malformed requests, `recv_file`'s mode without a buffer (never
  selected), several clients of one server.
- `tests/proxy.py` and the rest of the tests: test harness.
- Command lines, URLs, socket set-up, logging.

## 6. Plan

Done: the transfer with its refinement and proofs, both codecs with the peers'
counterparts, the delay queue with its proofs, the link simulator, the peers and
their meetings with our programs with the refinement of `FileTransfer`, group
20's server over the wrap, and theorems for every safety property but those of
the bit-level SACK format.

What could come next:

1. `SackCodec` with the code's fixed width of 11 bits, where the folds could be
   unrolled; with the width as a constant the proof needs an induction that is out
   of the prover's reach.
2. `LongFile20` for our server and group 42's, which tell old from new by half the
   space (`server.py:72`, `groupe_42/server.py:28`) and have no turn to count.
3. A timed module for the round-trip estimate and the three seconds an ended
   session lives.
