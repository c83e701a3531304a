----------------------------- MODULE MCSerDriver -----------------------------
(***************************************************************************)
(* The properties of the ComLynx library that the runs check on small      *)
(* rings, few bytes and chosen line faults.                                *)
(***************************************************************************)
EXTENDS SerDriver, Sequences

Distance(from, to) == (to - from + N) % N

\* The bytes a ring holds, oldest first.
Contents(buf, out, in) ==
    [i \in 1 .. Distance(out, in) |-> buf[(out + i - 1) % N]]

TxContents == Contents(txbuf, txout, txin)
RxContents == Contents(rxbuf, rxout, rxin)

-----------------------------------------------------------------------------
(* What the header promises and the library does not keep.                 *)

\* Received data only ever comes from the wire: the amount buffered for the
\* program grows at no other step than ser_irq storing a byte.  serial.h
\* says that a received break drops all buffered data.
OnlyReceptionAddsData ==
    [][Len(RxContents') > Len(RxContents) => hpc = "rx_store"]_vars

-----------------------------------------------------------------------------
(* Refinement.                                                             *)

Queues == INSTANCE SerQueues WITH
              Byte <- (-MaxPeer) .. MaxPut,
              Capacity <- N - 1,
              txq <- TxContents,
              rxq <- RxContents,
              taken <- hx

\* Without breaks the two rings, changed by the main thread and the handler
\* without a lock, are the two queues of SerQueues: no byte is lost between
\* put and UART or UART and get, duplicated, reordered or read from a slot
\* that was not written.
ImplementsQueues == Queues!Spec

-----------------------------------------------------------------------------
(* Liveness.                                                               *)

Buffered(k) == \E i \in DOMAIN TxContents : TxContents[i] = k

\* Every byte accepted by ser_put leaves the ring again.
EveryByteSent == \A k \in 1 .. MaxPut : Buffered(k) ~> ~Buffered(k)

\* A byte waiting in the receive register of an open port is read, or its
\* successor is, or the port is closed: the handler always comes back from
\* transmitting to receiving.
ReceiverServed == (isopen /\ rxrdy) ~> (~isopen \/ ~rxrdy)
=============================================================================
