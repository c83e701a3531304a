------------------------------ MODULE SerDriver ------------------------------
(***************************************************************************)
(* The ComLynx serial library of src/libraries/core: ser_open, ser_close,  *)
(* ser_put, ser_get and ser_status on the main thread, the interrupt       *)
(* handler ser_irq, and the two ring buffers they share without a lock.    *)
(*                                                                         *)
(* mpc is the main thread's position, one step per instruction that reads  *)
(* or writes what the handler shares; a sei/plp section is one step.  hpc  *)
(* is the handler's position, one step per access to a UART register.  The *)
(* handler runs with interrupts off, so the main thread only moves while   *)
(* hpc = "idle"; the UART moves at any time.  The program opens only a     *)
(* closed port and puts only on an open one.  It may run with interrupts   *)
(* masked, so a pending interrupt may wait for any number of its steps.    *)
(***************************************************************************)
EXTENDS Uart

CONSTANTS N,         \* slots of a ring (256 in the source)
          MaxPut     \* bound: how many bytes the program puts

ASSUME SerAssumption == /\ N \in Nat /\ N > 1
                        /\ MaxPut \in Nat

VARIABLES txbuf, rxbuf,                \* ser_txbuf, ser_rxbuf
          rxin, rxout, txin, txout,    \* the four ring indices
          stat,                        \* ser_stat
          txdone,                      \* ser_txdone: a transmit is in progress
          mpc, ma, my,                 \* main thread: position, A, Y
          hpc, hx,                     \* handler: position, X
          isopen,                      \* the program's view of the port
          nput,                        \* bytes put so far
          sent, got                    \* last byte given to SERDAT / to a caller

rings  == <<txbuf, rxbuf, rxin, rxout, txin, txout>>
driver == <<rings, stat, txdone>>
main   == <<mpc, ma, my>>
irq    == <<hpc, hx>>
client == <<isopen, nput, sent, got>>
vars   == <<uart, driver, main, irq, client>>

Slots == 0 .. N - 1
StatBits == ErrorBits \cup {"RxOverflow"}

PutSteps  == {"put_cmp", "put_idx", "put_store", "put_inc", "put_test", "put_kick"}
GetSteps  == {"get_cmp", "get_idx", "get_take", "get_inc"}
OpenSteps == {"open_rxin", "open_rxout", "open_txin", "open_txout",
              "open_baud", "open_format", "open_drain", "open_arm"}

TypeOK == /\ UartTypeOK
          /\ txbuf \in [Slots -> Byte] /\ rxbuf \in [Slots -> Byte]
          /\ rxin \in Slots /\ rxout \in Slots
          /\ txin \in Slots /\ txout \in Slots
          /\ stat \subseteq StatBits
          /\ txdone \in BOOLEAN
          /\ mpc \in {"idle"} \cup PutSteps \cup GetSteps \cup OpenSteps
          /\ ma \in Byte /\ my \in Slots
          /\ hpc \in {"idle", "rx_data", "rx_status", "rx_error", "rx_store",
                      "tx", "tx_arm", "tx_end", "ack"}
          /\ hx \in Byte
          /\ isopen \in BOOLEAN
          /\ nput \in Nat
          /\ sent \in Byte /\ got \in Byte

Init == /\ UartInit
        /\ txbuf = [i \in Slots |-> 0] /\ rxbuf = [i \in Slots |-> 0]
        /\ rxin = 0 /\ rxout = 0 /\ txin = 0 /\ txout = 0
        /\ stat = {}
        /\ txdone = FALSE
        /\ mpc = "idle" /\ ma = 0 /\ my = 0
        /\ hpc = "idle" /\ hx = 0
        /\ isopen = FALSE
        /\ nput = 0
        /\ sent = 0 /\ got = 0

\* The indices are bytes and wrap by themselves.
Succ(i) == IF i = N - 1 THEN 0 ELSE i + 1

\* The main thread runs between two interrupts.
Main(from, to) == hpc = "idle" /\ mpc = from /\ mpc' = to
Return(from) == Main(from, "idle") /\ ma' = 0 /\ my' = 0
Handler(from, to) == hpc = from /\ hpc' = to

-----------------------------------------------------------------------------
(* ser_put: byte nput + 1 is put. *)

PutLoad == /\ Main("idle", "put_cmp")
           /\ isopen /\ nput < MaxPut
           /\ ma' = Succ(txin)
           /\ UNCHANGED <<uart, driver, my, irq, client>>

PutOverflow == /\ ma = txout
               /\ Return("put_cmp")

\* Mutant: the ring is not tested for room.
PutSpaceUnchecked == /\ Main("put_cmp", "put_idx")
                     /\ UNCHANGED <<ma, my>>

PutSpace == /\ ma # txout
            /\ Main("put_cmp", "put_idx")
            /\ UNCHANGED <<ma, my>>

PutCmp == /\ PutOverflow \/ PutSpace
          /\ UNCHANGED <<uart, driver, irq, client>>

PutIdx == /\ Main("put_idx", "put_store")
          /\ my' = txin
          /\ UNCHANGED <<uart, driver, ma, irq, client>>

PutStore == /\ Main("put_store", "put_inc")
            /\ txbuf' = [txbuf EXCEPT ![my] = nput + 1]
            /\ UNCHANGED <<uart, rxbuf, rxin, rxout, txin, txout, stat, txdone,
                           ma, my, irq, client>>

PutInc == /\ Main("put_inc", "put_test")
          /\ txin' = Succ(txin)
          /\ nput' = nput + 1
          /\ UNCHANGED <<uart, txbuf, rxbuf, rxin, rxout, txout, stat, txdone,
                         ma, my, irq, isopen, sent, got>>

PutBusy == txdone /\ Return("put_test")
PutQuiet == ~txdone /\ Main("put_test", "put_kick") /\ UNCHANGED <<ma, my>>

PutTest == /\ PutBusy \/ PutQuiet
           /\ UNCHANGED <<uart, driver, irq, client>>

PutKick == /\ Return("put_kick")
           /\ StoreCtl({"Tx"})
           /\ txdone' = TRUE
           /\ UNCHANGED <<hold, shift, rxdata, rxrdy, timer, npeer,
                          rings, stat, irq, client>>
           /\ Latch

-----------------------------------------------------------------------------
(* ser_get. *)

GetLoad == /\ Main("idle", "get_cmp")
           /\ ma' = rxin
           /\ UNCHANGED <<uart, driver, my, irq, client>>

GetNoData == ma = rxout /\ Return("get_cmp")
GetData == ma # rxout /\ Main("get_cmp", "get_idx") /\ UNCHANGED <<ma, my>>

GetCmp == /\ GetNoData \/ GetData
          /\ UNCHANGED <<uart, driver, irq, client>>

GetIdx == /\ Main("get_idx", "get_take")
          /\ my' = rxout
          /\ UNCHANGED <<uart, driver, ma, irq, client>>

GetTake == /\ Main("get_take", "get_inc")
           /\ ma' = rxbuf[my]
           /\ UNCHANGED <<uart, driver, my, irq, client>>

GetInc == /\ Return("get_inc")
          /\ rxout' = Succ(rxout)
          /\ got' = ma
          /\ UNCHANGED <<uart, txbuf, rxbuf, rxin, txin, txout, stat, txdone,
                         irq, isopen, nput, sent>>

-----------------------------------------------------------------------------
(* ser_open and ser_close. *)

OpenCall == /\ Main("idle", "open_rxin")
            /\ ~isopen
            /\ UNCHANGED <<uart, driver, ma, my, irq, client>>

OpenRxin == /\ Main("open_rxin", "open_rxout")
            /\ rxin' = 0
            /\ UNCHANGED <<uart, txbuf, rxbuf, rxout, txin, txout, stat, txdone,
                           ma, my, irq, client>>

OpenRxout == /\ Main("open_rxout", "open_txin")
             /\ rxout' = 0
             /\ UNCHANGED <<uart, txbuf, rxbuf, rxin, txin, txout, stat, txdone,
                            ma, my, irq, client>>

OpenTxin == /\ Main("open_txin", "open_txout")
            /\ txin' = 0
            /\ UNCHANGED <<uart, txbuf, rxbuf, rxin, rxout, txout, stat, txdone,
                           ma, my, irq, client>>

OpenTxout == /\ Main("open_txout", "open_baud")
             /\ txout' = 0
             /\ UNCHANGED <<uart, txbuf, rxbuf, rxin, rxout, txin, stat, txdone,
                            ma, my, irq, client>>

\* Timer 4 is started before the rate is looked up: it runs even when the
\* call returns SER_ERR_BAUD_UNAVAIL.
OpenBaud == /\ timer' = TRUE
            /\ Main("open_baud", "open_format") \/ Main("open_baud", "idle")
            /\ UNCHANGED <<hold, shift, rxdata, rxrdy, errs, ie, pend, npeer,
                           driver, ma, my, irq, client>>

\* A bad format returns before SERCTL is written, a bad handshake after it:
\* the store carries neither an interrupt enable nor ResetErr.
BadFormat == Main("open_format", "idle") /\ UNCHANGED ie
GoodFormat == /\ Main("open_format", "open_drain") \/ Main("open_format", "idle")
              /\ ie' = {}

OpenFormat == /\ BadFormat \/ GoodFormat
              /\ UNCHANGED <<hold, shift, rxdata, rxrdy, errs, timer, npeer,
                             driver, ma, my, irq, client>>
              /\ Latch

OpenDrain == /\ Main("open_drain", "open_arm")
             /\ rxrdy' = FALSE
             /\ UNCHANGED <<hold, shift, rxdata, errs, ie, timer, npeer,
                            driver, ma, my, irq, client>>
             /\ Latch

OpenArm == /\ Main("open_arm", "idle")
           /\ StoreCtl({"Rx"})
           /\ isopen' = TRUE
           /\ UNCHANGED <<hold, shift, rxdata, rxrdy, timer, npeer,
                          driver, ma, my, irq, nput, sent, got>>
           /\ Latch

Close == /\ Main("idle", "idle")
         /\ StoreCtl({})
         /\ timer' = FALSE
         /\ txdone' = FALSE
         /\ rxin' = 0 /\ rxout' = 0 /\ txin' = 0 /\ txout' = 0
         /\ isopen' = FALSE
         /\ UNCHANGED <<hold, shift, rxdata, rxrdy, npeer, txbuf, rxbuf, stat,
                        ma, my, irq, nput, sent, got>>
         /\ Acknowledge

-----------------------------------------------------------------------------
(* ser_irq, with the clearing of INTSET that IRQStub does behind it. *)

IrqEnter == /\ pend
            /\ Handler("idle", IF txdone THEN "tx" ELSE "rx_data")
            /\ UNCHANGED <<uart, driver, main, hx, client>>

RxData == /\ Handler("rx_data", "rx_status")
          /\ hx' = rxdata
          /\ rxrdy' = FALSE
          /\ UNCHANGED <<hold, shift, rxdata, errs, ie, timer, npeer,
                         driver, main, client>>
          /\ Latch

RxClean == /\ errs = {}
           /\ Handler("rx_status", "rx_store")
           /\ UNCHANGED <<driver, hx>>

\* Mutant: a break leaves the transmit tail where it is.
DropAllButTxout == IF "Break" \in errs
                   THEN txin' = 0 /\ rxin' = 0 /\ rxout' = 0 /\ txout' = txout
                   ELSE UNCHANGED <<txin, txout, rxin, rxout>>

DropBuffers == IF "Break" \in errs
               THEN txin' = 0 /\ txout' = 0 /\ rxin' = 0 /\ rxout' = 0
               ELSE UNCHANGED <<txin, txout, rxin, rxout>>

RxFaulty == /\ errs # {}
            /\ Handler("rx_status", "rx_error")
            /\ stat' = stat \cup errs
            /\ DropBuffers
            /\ hx' = 0
            /\ UNCHANGED <<txbuf, rxbuf, txdone>>

RxStatus == /\ RxClean \/ RxFaulty
            /\ UNCHANGED <<uart, main, client>>

RxError == /\ Handler("rx_error", "ack")
           /\ StoreCtl({"Rx"})
           /\ UNCHANGED <<hold, shift, rxdata, rxrdy, timer, npeer,
                          driver, main, hx, client>>
           /\ Latch

RxRoom == /\ Succ(rxin) # rxout
          /\ Handler("rx_store", "ack")
          /\ rxin' = Succ(rxin)
          /\ UNCHANGED stat

\* The overflow branch falls through into the transmit path.
RxFull == /\ Succ(rxin) = rxout
          /\ Handler("rx_store", "tx")
          /\ stat' = stat \cup {"RxOverflow"}
          /\ UNCHANGED rxin

RxStore == /\ RxRoom \/ RxFull
           /\ StoreCtl({"Rx"})
           /\ rxbuf' = [rxbuf EXCEPT ![rxin] = hx]
           /\ hx' = 0
           /\ UNCHANGED <<hold, shift, rxdata, rxrdy, timer, npeer,
                          txbuf, rxout, txin, txout, txdone, main, client>>
           /\ Latch

TxNext == /\ Handler("tx", "tx_arm")
          /\ txout # txin
          /\ StoreData(txbuf[txout])
          /\ sent' = txbuf[txout]
          /\ txout' = Succ(txout)
          /\ UNCHANGED <<rxdata, rxrdy, errs, ie, timer, npeer, txbuf, rxbuf,
                         rxin, rxout, txin, stat, txdone, main, hx,
                         isopen, nput, got>>
          /\ Latch

TxAllSent == /\ Handler("tx", IF TxEmpty THEN "tx_end" ELSE "tx_arm")
             /\ txout = txin
             /\ UNCHANGED <<uart, driver, main, hx, client>>

TxArm == /\ Handler("tx_arm", "ack")
         /\ StoreCtl({"Tx"})
         /\ UNCHANGED <<hold, shift, rxdata, rxrdy, timer, npeer,
                        driver, main, hx, client>>
         /\ Latch

\* Mutant: the end of a transmit is not recorded.
TxEndUnrecorded == /\ Handler("tx_end", "ack")
                   /\ StoreCtl({"Rx"})
                   /\ UNCHANGED <<hold, shift, rxdata, rxrdy, timer, npeer,
                                  driver, main, hx, client>>
                   /\ Latch

\* Mutant: the receiver is not enabled again behind a transmit.
TxEndDeaf == /\ Handler("tx_end", "ack")
             /\ txdone' = FALSE
             /\ StoreCtl({})
             /\ UNCHANGED <<hold, shift, rxdata, rxrdy, timer, npeer,
                            rings, stat, main, hx, client>>
             /\ Latch

TxEnd == /\ Handler("tx_end", "ack")
         /\ txdone' = FALSE
         /\ StoreCtl({"Rx"})
         /\ UNCHANGED <<hold, shift, rxdata, rxrdy, timer, npeer,
                        rings, stat, main, hx, client>>
         /\ Latch

IrqAck == /\ Handler("ack", "idle")
          /\ UNCHANGED <<hold, shift, rxdata, rxrdy, errs, ie, timer, npeer,
                         driver, main, hx, client>>
          /\ Acknowledge

-----------------------------------------------------------------------------
Call == PutLoad \/ GetLoad \/ OpenCall \/ Close

InCall == \/ PutCmp \/ PutIdx \/ PutStore \/ PutInc \/ PutTest \/ PutKick
          \/ GetCmp \/ GetIdx \/ GetTake \/ GetInc
          \/ OpenRxin \/ OpenRxout \/ OpenTxin \/ OpenTxout
          \/ OpenBaud \/ OpenFormat \/ OpenDrain \/ OpenArm

SerIrq == \/ RxData \/ RxStatus \/ RxError \/ RxStore
          \/ TxNext \/ TxAllSent \/ TxArm \/ TxEnd \/ IrqAck

Hardware == UartNext /\ UNCHANGED <<driver, main, irq, client>>

Next == Call \/ InCall \/ IrqEnter \/ SerIrq \/ Hardware

Spec == Init /\ [][Next]_vars

(***************************************************************************)
(* Nothing obliges the program to call the library, but a call once begun  *)
(* runs on when the handler lets it, a raised interrupt is taken, the      *)
(* handler finishes, and a running baud clock shifts a loaded frame out.   *)
(***************************************************************************)
Fairness == /\ WF_vars(InCall)
            /\ WF_vars(IrqEnter)
            /\ WF_vars(SerIrq)
            /\ WF_vars(\E f \in FrameFaults :
                          OwnFrame(f) /\ UNCHANGED <<driver, main, irq, client>>)

FairSpec == Spec /\ Fairness

-----------------------------------------------------------------------------
(* Properties of one step or one state; MCSerDriver has the others.        *)

\* The main thread has put a byte and has not yet decided on the kick.
Kicking == mpc \in {"put_test", "put_kick"}

\* No lost wakeup.  Whenever bytes wait in the transmit ring and ser_put is
\* not about to kick, a transmit is in progress and its interrupt enabled:
\* ser_put skips the kick only while the handler is still due to find the
\* new byte, though it tests ser_txdone with interrupts on.
NoLostWakeup == hpc = "idle" /\ txin # txout /\ ~Kicking
                    => txdone /\ ie = {"Tx"}

\* A byte in the holding register is never overwritten: ser_irq stores to
\* SERDAT without looking at TxRdy, and what raised the interrupt may have
\* been the receiver.
HoldingSafe == [][hold # Empty => hold' \in {hold, Empty}]_vars

-----------------------------------------------------------------------------
(* Why they hold: the strengthening that is inductive.                     *)

\* Nothing moves on a port that is not open.
ClosedInv == /\ ~isopen => /\ ie = {} /\ ~pend /\ hpc = "idle"
                          /\ ~txdone /\ txin = 0 /\ txout = 0
             /\ mpc \in PutSteps => isopen
             /\ mpc \in OpenSteps => ~isopen

\* txdone covers the transmit ring, and the handler clears it on empty only.
TransmitInv == /\ txin # txout /\ ~Kicking => txdone
               /\ hpc = "tx_end" => txin = txout
               /\ hpc \in {"rx_data", "rx_status", "rx_error", "rx_store"} => ~txdone
               /\ hpc \in {"idle", "ack"} /\ txdone => ie = {"Tx"}

\* An interrupt is only pending, and the handler only reaches its SERDAT
\* store, when the holding register is free: a frame that lands moves it up.
HoldInv == /\ hold # Empty => shift # Empty
           /\ pend /\ hpc \notin {"tx_arm", "ack"} => hold = Empty
           /\ hpc \notin {"idle", "tx_arm", "ack"} => hold = Empty
           /\ hpc = "ack" /\ "Rx" \in ie => hold = Empty
           /\ rxrdy /\ "Rx" \in ie /\ hpc = "idle" => hold = Empty
           /\ rxrdy /\ mpc = "open_arm" => hold = Empty

IInv == TypeOK /\ ClosedInv /\ TransmitInv /\ HoldInv
=============================================================================
