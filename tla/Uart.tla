-------------------------------- MODULE Uart --------------------------------
(***************************************************************************)
(* The Mikey UART and its bit of the interrupt register, as the serial     *)
(* library uses them.  The hardware is outside the source; what it does is *)
(* read off the library's accesses to SERCTL, SERDAT, TIM4CTLA, INTSET and *)
(* INTRST, and off the UART chapter the library's documentation restates.  *)
(*                                                                         *)
(* A byte is an integer that names it: k > 0 is the k-th byte the program  *)
(* put, k < 0 is the (-k)-th byte another console put on the wire, 0 is    *)
(* what a break or a buffer slot never written reads as.                   *)
(***************************************************************************)
EXTENDS Integers

CONSTANTS Empty,     \* a transmit register that holds no byte
          Faults,    \* the line faults that may strike: subset of AllFaults
          MaxPeer    \* bound: how many frames other consoles send

AllFaults == {"Parity", "Frame", "Break"}

ASSUME UartAssumption == /\ Empty \notin Int
                         /\ Faults \subseteq AllFaults
                         /\ MaxPeer \in Nat

VARIABLES hold,      \* transmit holding register
          shift,     \* transmit shift register
          rxdata,    \* receive register: what a read of SERDAT returns
          rxrdy,     \* RxRdy
          errs,      \* error bits of SERCTL, latched until ResetErr is written
          ie,        \* interrupt enables last written to SERCTL
          timer,     \* timer 4, the baud clock, is running
          pend,      \* the serial bit of INTSET
          npeer      \* frames other consoles have sent

uart == <<hold, shift, rxdata, rxrdy, errs, ie, timer, pend, npeer>>

Byte == Int
Registers == Byte \cup {Empty}
ErrorBits == AllFaults \cup {"Overrun"}

UartTypeOK == /\ hold \in Registers
              /\ shift \in Registers
              /\ rxdata \in Byte
              /\ rxrdy \in BOOLEAN
              /\ errs \subseteq ErrorBits
              /\ ie \subseteq {"Tx", "Rx"}
              /\ timer \in BOOLEAN
              /\ pend \in BOOLEAN
              /\ npeer \in Nat

UartInit == /\ hold = Empty
            /\ shift = Empty
            /\ rxdata = 0
            /\ rxrdy = FALSE
            /\ errs = {}
            /\ ie = {}
            /\ timer = FALSE
            /\ pend = FALSE
            /\ npeer = 0

TxRdy == hold = Empty
TxEmpty == hold = Empty /\ shift = Empty

\* Both interrupts are level sensitive: an enabled one whose register is
\* ready keeps setting the INTSET bit.
LevelNext == \/ "Tx" \in ie' /\ hold' = Empty
             \/ "Rx" \in ie' /\ rxrdy'

\* The INTSET bit latches the level ...
Latch == pend' = (pend \/ LevelNext)

\* Mutant: the bit is never cleared behind the handler.
AcknowledgeNothing == pend' = pend

\* ... and a write to INTRST clears it, for as long as the level is low.
Acknowledge == pend' = LevelNext

\* A store to SERCTL with ResetErr set and the enables e.
StoreCtl(e) == ie' = e /\ errs' = {}

\* A store to SERDAT: the byte goes straight on to an idle shift register.
StoreData(b) == IF shift = Empty THEN shift' = b /\ hold' = hold
                                 ELSE hold' = b /\ shift' = shift

\* A frame lands in the receive register; an unread byte there is overrun.
Land(b, fault) == /\ rxdata' = b
                  /\ rxrdy' = TRUE
                  /\ errs' = errs \cup fault
                                  \cup (IF rxrdy THEN {"Overrun"} ELSE {})

FrameFaults == {{}} \cup {{f} : f \in Faults \ {"Break"}}

\* The shift register runs empty.  The wire is open collector, so the byte
\* is received by its sender too; the holding register moves up.
OwnFrame(fault) == /\ timer /\ shift # Empty
                   /\ shift' = hold
                   /\ hold' = Empty
                   /\ Land(shift, fault)
                   /\ UNCHANGED <<ie, timer, npeer>>
                   /\ Latch

\* Another console's byte, or a break, arrives while this one is silent.
PeerFrame(fault) == /\ timer /\ shift = Empty /\ npeer < MaxPeer
                    /\ npeer' = npeer + 1
                    /\ Land(IF "Break" \in fault THEN 0 ELSE -npeer', fault)
                    /\ UNCHANGED <<hold, shift, ie, timer>>
                    /\ Latch

UartNext == \/ \E f \in FrameFaults : OwnFrame(f) \/ PeerFrame(f)
            \/ "Break" \in Faults /\ PeerFrame({"Break"})
=============================================================================
