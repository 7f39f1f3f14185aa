-------------------------------- MODULE E1000 --------------------------------
(***************************************************************************)
(* The driver of the E1000 network card (xv6-lab-net/e1000.c): the two     *)
(* descriptor rings it shares with the card, and the mbufs whose ownership *)
(* passes between the network stack, the driver and the card.              *)
(*                                                                         *)
(* The card and the network stack are not in the repository; the card      *)
(* works on the descriptors from its head register up to the tail register *)
(* the driver writes, sets DD in each when it is done with it, and raises  *)
(* an interrupt for each packet received.  A packet is its number; an mbuf *)
(* is known by the packet it holds.                                        *)
(***************************************************************************)
EXTENDS Integers, Sequences, Functions, FiniteSets

CONSTANTS
  TX_RING_SIZE, RX_RING_SIZE,
  WORD,         \* 2^32: the registers and indices are uint32
  Mbuf,         \* the memory for mbufs
  Null,
  MaxTx, MaxRx, \* bounds on the packets sent and received
  Backlog       \* how many packets the stack sends ahead of the card

TxIndex == 0 .. TX_RING_SIZE - 1
RxIndex == 0 .. RX_RING_SIZE - 1

ASSUME E1000Assumption ==
  /\ TX_RING_SIZE \in Nat \ {0} /\ RX_RING_SIZE \in Nat \ {0}
  /\ WORD \in Nat \ {0} /\ WORD % TX_RING_SIZE = 0 /\ WORD % RX_RING_SIZE = 0
  /\ Null \notin Mbuf
  /\ IsFiniteSet(Mbuf) /\ Cardinality(Mbuf) >= RX_RING_SIZE
  /\ MaxTx \in Nat /\ MaxRx \in Nat /\ Backlog \in Nat

VARIABLES
  tdh, tdt, tx_dd, tx_addr,  \* registers and descriptors for transmission
  tx_mbufs,
  rdh, rdt, rx_dd, rx_addr,  \* ... and for reception
  rx_mbufs,
  icr,          \* an interrupt is pending
  data,         \* the packet in each mbuf; 0 for junk
  free, kept,   \* mbufs that are free, and those net_rx was given
  pc, next_index,            \* e1000_recv
  accepted, sent,            \* packets e1000_transmit took and the card sent
  received, delivered        \* packets the card received and net_rx was given

tx   == <<tdh, tdt, tx_dd, tx_addr, tx_mbufs, accepted, sent>>
rx   == <<rdh, rdt, rx_dd, rx_addr, rx_mbufs, icr, kept, pc, next_index,
          received, delivered>>
vars == <<tx, rx, data, free>>

\* Every variable has its type.
TypeOK ==
  /\ tdh \in TxIndex /\ tdt \in TxIndex
  /\ rdh \in RxIndex /\ rdt \in RxIndex /\ next_index \in RxIndex
  /\ tx_dd \in [TxIndex -> BOOLEAN] /\ rx_dd \in [RxIndex -> BOOLEAN]
  /\ tx_addr \in [TxIndex -> Mbuf \cup {Null}] /\ rx_addr \in [RxIndex -> Mbuf]
  /\ tx_mbufs \in [TxIndex -> Mbuf \cup {Null}]
  /\ rx_mbufs \in [RxIndex -> Mbuf]
  /\ icr \in BOOLEAN
  /\ data \in [Mbuf -> Nat]
  /\ free \subseteq Mbuf /\ kept \subseteq Mbuf
  /\ pc \in {"idle", "recv", "panic"}
  /\ accepted \in Seq(Nat) /\ received \in Seq(Nat) /\ delivered \in Seq(Nat)

\* e1000_init; which mbufs the receive ring gets does not matter.
Init ==
  /\ tdh = 0 /\ tdt = 0
  /\ tx_dd = [i \in TxIndex |-> TRUE]
  /\ tx_addr = [i \in TxIndex |-> Null]
  /\ tx_mbufs = [i \in TxIndex |-> Null]
  /\ rdh = 0 /\ rdt = RX_RING_SIZE - 1
  /\ rx_dd = [i \in RxIndex |-> FALSE]
  /\ rx_mbufs = CHOOSE f \in Injection(RxIndex, Mbuf) : TRUE
  /\ rx_addr = rx_mbufs
  /\ free = Mbuf \ Range(rx_mbufs)
  /\ icr = FALSE
  /\ data = [m \in Mbuf |-> 0]
  /\ kept = {}
  /\ pc = "idle" /\ next_index = 0
  /\ accepted = <<>> /\ sent = <<>> /\ received = <<>> /\ delivered = <<>>

\* A free mbuf holds the junk that kfree and kalloc fill pages with, and nothing
\* points to it: which one mbufalloc returns makes no difference.
mbufalloc == CHOOSE m \in free : TRUE

\* The contents of the mbufs when those of the set ms have been freed.
Junked(d, ms) == [m \in Mbuf |-> IF m \in ms THEN 0 ELSE d[m]]

-----------------------------------------------------------------------------
\* The stack has packet k in mbuf m and calls e1000_transmit, which holds
\* e1000_lock throughout.  The mbuf is freed by the caller when it is refused.
e1000_transmit(m, k) ==
  LET old == {tx_mbufs[tdt]} \ {Null} IN
  IF tx_dd[tdt]
  THEN /\ free' = (free \ {m}) \cup old
       /\ data' = Junked([data EXCEPT ![m] = k], old)
       /\ tx_addr' = [tx_addr EXCEPT ![tdt] = m]
       /\ tx_mbufs' = [tx_mbufs EXCEPT ![tdt] = m]
       /\ tdt' = (tdt + 1) % TX_RING_SIZE
       /\ accepted' = Append(accepted, k)
       /\ UNCHANGED <<tdh, tx_dd, sent, rx>>
  ELSE UNCHANGED vars

Transmit ==
  /\ free # {}
  /\ Len(accepted) < MaxTx
  /\ Len(accepted) - Len(sent) < Backlog
  /\ e1000_transmit(mbufalloc, Len(accepted) + 1)

\* The card sends the packet at its head and reports it.
CardSend ==
  /\ tdh # tdt
  /\ sent' = Append(sent, data[tx_addr[tdh]])
  /\ tx_dd' = [tx_dd EXCEPT ![tdh] = TRUE]
  /\ tdh' = (tdh + 1) % TX_RING_SIZE
  /\ UNCHANGED <<tdt, tx_addr, tx_mbufs, accepted, rx, data, free>>

-----------------------------------------------------------------------------
\* A packet arrives at the card, which has a descriptor for it.
CardReceive ==
  LET k == MaxTx + Len(received) + 1 IN
  /\ Len(received) < MaxRx
  /\ rdh # rdt
  /\ data' = [data EXCEPT ![rx_addr[rdh]] = k]
  /\ rx_dd' = [rx_dd EXCEPT ![rdh] = TRUE]
  /\ rdh' = (rdh + 1) % RX_RING_SIZE
  /\ icr' = TRUE
  /\ received' = Append(received, k)
  /\ UNCHANGED <<tx, rdt, rx_addr, rx_mbufs, kept, pc, next_index, delivered, free>>

\* e1000_intr acknowledges the interrupt, then e1000_recv starts.  The
\* interrupt controller delivers the next one after it has returned.
e1000_intr ==
  /\ pc = "idle" /\ icr
  /\ icr' = FALSE
  /\ next_index' = (rdt + 1) % RX_RING_SIZE
  /\ pc' = "recv"
  /\ UNCHANGED <<tx, rdh, rdt, rx_dd, rx_addr, rx_mbufs, kept, received,
                 delivered, data, free>>

\* Mutant: the mbuf stays in the ring.
RecvPacketKept ==
  /\ pc = "recv" /\ rx_dd[next_index]
  /\ delivered' = Append(delivered, data[rx_mbufs[next_index]])
  /\ kept' = kept \cup {rx_mbufs[next_index]}
  /\ rx_dd' = [rx_dd EXCEPT ![next_index] = FALSE]
  /\ next_index' = (next_index + 1) % RX_RING_SIZE
  /\ UNCHANGED <<tx, rdh, rdt, rx_addr, rx_mbufs, icr, pc, received, data, free>>

\* Mutant: DD is not cleared.
RecvPacketDone ==
  /\ pc = "recv" /\ rx_dd[next_index]
  /\ free # {}
  /\ free' = free \ {mbufalloc}
  /\ rx_mbufs' = [rx_mbufs EXCEPT ![next_index] = mbufalloc]
  /\ rx_addr' = [rx_addr EXCEPT ![next_index] = mbufalloc]
  /\ delivered' = Append(delivered, data[rx_mbufs[next_index]])
  /\ kept' = kept \cup {rx_mbufs[next_index]}
  /\ next_index' = (next_index + 1) % RX_RING_SIZE
  /\ UNCHANGED <<tx, rdh, rdt, rx_dd, icr, pc, received, data>>

\* Mutant: one packet is taken for each interrupt.
RecvPacketOne ==
  /\ pc = "recv" /\ rx_dd[next_index]
  /\ free # {}
  /\ free' = free \ {mbufalloc}
  /\ rx_mbufs' = [rx_mbufs EXCEPT ![next_index] = mbufalloc]
  /\ rx_addr' = [rx_addr EXCEPT ![next_index] = mbufalloc]
  /\ delivered' = Append(delivered, data[rx_mbufs[next_index]])
  /\ kept' = kept \cup {rx_mbufs[next_index]}
  /\ rx_dd' = [rx_dd EXCEPT ![next_index] = FALSE]
  /\ rdt' = next_index
  /\ next_index' = 0
  /\ pc' = "idle"
  /\ UNCHANGED <<tx, rdh, icr, received, data>>

\* One round of the loop of e1000_recv: the mbuf goes to net_rx, and a new
\* one takes its place.
RecvPacket ==
  /\ pc = "recv" /\ rx_dd[next_index]
  /\ free # {}
  /\ free' = free \ {mbufalloc}
  /\ rx_mbufs' = [rx_mbufs EXCEPT ![next_index] = mbufalloc]
  /\ rx_addr' = [rx_addr EXCEPT ![next_index] = mbufalloc]
  /\ delivered' = Append(delivered, data[rx_mbufs[next_index]])
  /\ kept' = kept \cup {rx_mbufs[next_index]}
  /\ rx_dd' = [rx_dd EXCEPT ![next_index] = FALSE]
  /\ next_index' = (next_index + 1) % RX_RING_SIZE
  /\ UNCHANGED <<tx, rdh, rdt, icr, pc, received, data>>

\* There is no mbuf: e1000_recv uses the null pointer.
RecvNoMbuf ==
  /\ pc = "recv" /\ rx_dd[next_index]
  /\ free = {}
  /\ pc' = "panic"
  /\ UNCHANGED <<tx, rdh, rdt, rx_dd, rx_addr, rx_mbufs, icr, kept, next_index,
                 received, delivered, data, free>>

\* The end of e1000_recv.
RecvDone ==
  /\ pc = "recv" /\ ~ rx_dd[next_index]
  /\ rdt' = ((next_index - 1) % WORD) % RX_RING_SIZE
  /\ pc' = "idle"
  /\ next_index' = 0
  /\ UNCHANGED <<tx, rdh, rx_dd, rx_addr, rx_mbufs, icr, kept, received,
                 delivered, data, free>>

\* The stack frees an mbuf it got from net_rx.
NetFree(m) ==
  /\ m \in kept
  /\ kept' = kept \ {m}
  /\ free' = free \cup {m}
  /\ data' = Junked(data, {m})
  /\ UNCHANGED <<tx, rdh, rdt, rx_dd, rx_addr, rx_mbufs, icr, pc, next_index,
                 received, delivered>>

Driver == e1000_intr \/ RecvPacket \/ RecvNoMbuf \/ RecvDone

Next ==
  \/ Transmit \/ \E m \in Mbuf : NetFree(m)
  \/ CardSend \/ CardReceive \/ Driver

Spec == Init /\ [][Next]_vars

\* Interrupts are taken, and the stack frees what it was given.
FairSpec ==
  Spec /\ WF_vars(Driver) /\ WF_vars(\E m \in Mbuf : NetFree(m)) /\ WF_vars(CardSend)
-----------------------------------------------------------------------------
\* e1000_transmit: "Stash a pointer so that it can be freed after sending."
\* Until the card has sent a packet, its mbuf is in tx_mbufs and holds it.
FreedAfterSending ==
  \A k \in Len(sent) + 1 .. Len(accepted) :
    \E i \in TxIndex : /\ tx_mbufs[i] # Null
                       /\ tx_mbufs[i] \notin free
                       /\ data[tx_mbufs[i]] = accepted[k]

\* Whatever the card may write to is a buffer that only the driver knows; two
\* parts of the system never have the same mbuf.
OneOwner ==
  /\ \A i \in RxIndex : /\ rx_addr[i] = rx_mbufs[i]
                        /\ rx_mbufs[i] \notin free \cup kept
                        /\ \A j \in RxIndex : rx_mbufs[i] = rx_mbufs[j] => i = j
                        /\ \A j \in TxIndex : rx_mbufs[i] # tx_mbufs[j]
  /\ \A j \in TxIndex : tx_mbufs[j] \notin free \cup kept
  /\ free \cap kept = {}

\* The card sends the packets that e1000_transmit accepted, and net_rx is given
\* those the card received: in order, each once and with its contents.
InOrder ==
  /\ \E n \in 0 .. Len(accepted) : sent = SubSeq(accepted, 1, n)
  /\ \E n \in 0 .. Len(received) : delivered = SubSeq(received, 1, n)

\* No packet that was received waits for ever in the ring, although the card
\* goes on receiving while e1000_recv runs.
AllDelivered ==
  \A k \in 1 .. MaxRx : Len(received) >= k ~> Len(delivered) >= k \/ pc = "panic"
=============================================================================
