-------------------------- MODULE SerDriver_proofs --------------------------
(***************************************************************************)
(* Proofs about the ComLynx library, for every ring size, every number of  *)
(* bytes and every set of line faults: type correctness, that its handler  *)
(* never loses a wakeup and never overwrites the holding register, and     *)
(* that without breaks the two rings implement the queues of SerQueues.    *)
(***************************************************************************)
EXTENDS MCSerDriver, SequenceTheorems, TLAPS

USE UartAssumption, SerAssumption

\* The next slot of a ring is a slot of the ring.
LEMMA SuccType == /\ Slots \subseteq Int /\ 0 \in Slots
                  /\ \A i \in Slots : Succ(i) \in Slots
BY DEF Slots, Succ

\* Initially every variable has its type and nothing is in flight.
LEMMA InitIInv == Init => IInv
<1> SUFFICES ASSUME Init PROVE IInv
  OBVIOUS
<1> USE DEF Init, UartInit
<1>1. UartTypeOK
  <2>1. hold \in Registers /\ shift \in Registers
    BY DEF Registers
  <2>2. errs \subseteq ErrorBits /\ ie \subseteq {"Tx", "Rx"}
    OBVIOUS
  <2>3. rxdata \in Byte /\ npeer \in Nat
    BY DEF Byte
  <2>4. rxrdy \in BOOLEAN /\ timer \in BOOLEAN /\ pend \in BOOLEAN
    OBVIOUS
  <2> QED BY <2>1, <2>2, <2>3, <2>4, Zenon DEF UartTypeOK
<1>2. txbuf \in [Slots -> Byte] /\ rxbuf \in [Slots -> Byte]
  BY DEF Byte
<1>3. TypeOK
  BY <1>1, <1>2, SuccType DEF TypeOK, PutSteps, GetSteps, OpenSteps, Byte
<1>4. ClosedInv /\ TransmitInv /\ HoldInv
  BY DEF ClosedInv, TransmitInv, HoldInv, PutSteps, OpenSteps
<1> QED BY <1>3, <1>4 DEF IInv

\* Whatever strikes a frame is an error bit of SERCTL.
LEMMA FaultBits == \A f \in FrameFaults \cup {{"Break"}} : f \subseteq ErrorBits
BY DEF FrameFaults, ErrorBits, AllFaults

\* No step of the library or of the UART leaves the types.
LEMMA TypeStep == TypeOK /\ [Next]_vars => TypeOK'
<1> SUFFICES ASSUME TypeOK, [Next]_vars PROVE TypeOK'
  OBVIOUS
<1> USE DEF TypeOK, UartTypeOK, PutSteps, GetSteps, OpenSteps, StatBits, ErrorBits, AllFaults, Byte, Registers, uart, driver, rings, main, irq, client
<1>1. CASE Call
  <2>1. CASE PutLoad
    BY <2>1, SuccType DEF PutLoad, Main
  <2>2. CASE GetLoad
    BY <2>2, SuccType DEF GetLoad, Main
  <2>3. CASE OpenCall
    BY <2>3, SuccType DEF OpenCall, Main
  <2>4. CASE Close
    BY <2>4, SuccType DEF Close, Main, StoreCtl, Acknowledge, LevelNext
  <2> QED BY <1>1, <2>1, <2>2, <2>3, <2>4 DEF Call
<1>2. CASE InCall
  <2>1. CASE PutCmp
    BY <2>1, SuccType DEF PutCmp, PutOverflow, PutSpace, Main, Return
  <2>2. CASE PutIdx
    BY <2>2, SuccType DEF PutIdx, Main
  <2>3. CASE PutStore
    BY <2>3, SuccType DEF PutStore, Main
  <2>4. CASE PutInc
    BY <2>4, SuccType DEF PutInc, Main
  <2>5. CASE PutTest
    BY <2>5, SuccType DEF PutTest, PutBusy, PutQuiet, Main, Return
  <2>6. CASE PutKick
    BY <2>6, SuccType DEF PutKick, Main, Return, StoreCtl, Latch, LevelNext
  <2>7. CASE GetCmp
    BY <2>7, SuccType DEF GetCmp, GetNoData, GetData, Main, Return
  <2>8. CASE GetIdx
    BY <2>8, SuccType DEF GetIdx, Main
  <2>9. CASE GetTake
    BY <2>9, SuccType DEF GetTake, Main
  <2>10. CASE GetInc
    BY <2>10, SuccType DEF GetInc, Main, Return
  <2>11. CASE OpenRxin
    BY <2>11, SuccType DEF OpenRxin, Main
  <2>12. CASE OpenRxout
    BY <2>12, SuccType DEF OpenRxout, Main
  <2>13. CASE OpenTxin
    BY <2>13, SuccType DEF OpenTxin, Main
  <2>14. CASE OpenTxout
    BY <2>14, SuccType DEF OpenTxout, Main
  <2>15. CASE OpenBaud
    BY <2>15, SuccType DEF OpenBaud, Main
  <2>16. CASE OpenFormat
    BY <2>16, SuccType DEF OpenFormat, BadFormat, GoodFormat, Main, Latch, LevelNext
  <2>17. CASE OpenDrain
    BY <2>17, SuccType DEF OpenDrain, Main, Latch, LevelNext
  <2>18. CASE OpenArm
    BY <2>18, SuccType DEF OpenArm, Main, StoreCtl, Latch, LevelNext
  <2> QED BY <1>2, <2>1, <2>2, <2>3, <2>4, <2>5, <2>6, <2>7, <2>8, <2>9, <2>10, <2>11, <2>12, <2>13, <2>14, <2>15, <2>16, <2>17, <2>18 DEF InCall
<1>3. CASE SerIrq
  <2>1. CASE RxData
    BY <2>1, SuccType DEF RxData, Handler, Latch, LevelNext
  <2>2. CASE RxStatus
    <3>1. stat' \subseteq StatBits
      BY <2>2 DEF RxStatus, RxClean, RxFaulty
    <3>2. {txin', txout', rxin', rxout'} \subseteq Slots
      BY <2>2, SuccType DEF RxStatus, RxClean, RxFaulty, DropBuffers
    <3> QED BY <2>2, <3>1, <3>2 DEF RxStatus, RxClean, RxFaulty, Handler
  <2>3. CASE RxError
    BY <2>3, SuccType DEF RxError, Handler, StoreCtl, Latch, LevelNext
  <2>4. CASE RxStore
    <3>1. stat' \subseteq StatBits
      BY <2>4 DEF RxStore, RxRoom, RxFull
    <3>2. rxbuf' \in [Slots -> Byte] /\ rxin' \in Slots
      BY <2>4, SuccType DEF RxStore, RxRoom, RxFull
    <3> QED BY <2>4, <3>1, <3>2 DEF RxStore, RxRoom, RxFull, StoreCtl, Handler, Latch, LevelNext
  <2>5. CASE TxNext
    BY <2>5, SuccType DEF TxNext, Handler, StoreData, Latch, LevelNext
  <2>6. CASE TxAllSent
    BY <2>6, SuccType DEF TxAllSent, Handler, TxEmpty
  <2>7. CASE TxArm
    BY <2>7, SuccType DEF TxArm, Handler, StoreCtl, Latch, LevelNext
  <2>8. CASE TxEnd
    BY <2>8, SuccType DEF TxEnd, Handler, StoreCtl, Latch, LevelNext
  <2>9. CASE IrqAck
    BY <2>9, SuccType DEF IrqAck, Handler, Acknowledge, LevelNext
  <2> QED BY <1>3, <2>1, <2>2, <2>3, <2>4, <2>5, <2>6, <2>7, <2>8, <2>9 DEF SerIrq
<1>4. CASE IrqEnter
  BY <1>4 DEF IrqEnter, Handler
<1>5. CASE Hardware
  <2>1. ASSUME NEW f \in FrameFaults, OwnFrame(f) PROVE TypeOK'
    <3>1. errs' \subseteq ErrorBits
      BY <2>1, FaultBits DEF OwnFrame, Land
    <3> QED BY <1>5, <2>1, <3>1 DEF Hardware, OwnFrame, Land, Latch, LevelNext
  <2>2. ASSUME NEW f \in FrameFaults \cup {{"Break"}}, PeerFrame(f) PROVE TypeOK'
    <3>1. errs' \subseteq ErrorBits
      BY <2>2, FaultBits DEF PeerFrame, Land
    <3>2. npeer' \in Nat /\ rxdata' \in Byte
      BY <2>2 DEF PeerFrame, Land
    <3> QED BY <1>5, <2>2, <3>1, <3>2 DEF Hardware, PeerFrame, Land, Latch, LevelNext
  <2> QED BY <1>5, <2>1, <2>2 DEF Hardware, UartNext
<1>6. CASE UNCHANGED vars
  BY <1>6 DEF vars
<1> QED BY <1>1, <1>2, <1>3, <1>4, <1>5, <1>6 DEF Next

\* A port that is not open stays silent until ser_open has armed it.
LEMMA ClosedStep == IInv /\ [Next]_vars => ClosedInv'
<1> SUFFICES ASSUME IInv, [Next]_vars PROVE ClosedInv'
  OBVIOUS
<1> USE DEF ClosedInv, TransmitInv, PutSteps, GetSteps, OpenSteps, uart, driver, rings, main, irq, client, IInv
<1>1. CASE Call
  <2>1. CASE PutLoad
    BY <2>1, SuccType DEF PutLoad, Main
  <2>2. CASE GetLoad
    BY <2>2, SuccType DEF GetLoad, Main
  <2>3. CASE OpenCall
    BY <2>3, SuccType DEF OpenCall, Main
  <2>4. CASE Close
    BY <2>4, SuccType DEF Close, Main, StoreCtl, Acknowledge, LevelNext
  <2> QED BY <1>1, <2>1, <2>2, <2>3, <2>4 DEF Call
<1>2. CASE InCall
  <2>1. CASE PutCmp
    BY <2>1, SuccType DEF PutCmp, PutOverflow, PutSpace, Main, Return
  <2>2. CASE PutIdx
    BY <2>2, SuccType DEF PutIdx, Main
  <2>3. CASE PutStore
    BY <2>3, SuccType DEF PutStore, Main
  <2>4. CASE PutInc
    BY <2>4, SuccType DEF PutInc, Main
  <2>5. CASE PutTest
    BY <2>5, SuccType DEF PutTest, PutBusy, PutQuiet, Main, Return
  <2>6. CASE PutKick
    BY <2>6, SuccType DEF PutKick, Main, Return, StoreCtl, Latch, LevelNext
  <2>7. CASE GetCmp
    BY <2>7, SuccType DEF GetCmp, GetNoData, GetData, Main, Return
  <2>8. CASE GetIdx
    BY <2>8, SuccType DEF GetIdx, Main
  <2>9. CASE GetTake
    BY <2>9, SuccType DEF GetTake, Main
  <2>10. CASE GetInc
    BY <2>10, SuccType DEF GetInc, Main, Return
  <2>11. CASE OpenRxin
    BY <2>11, SuccType DEF OpenRxin, Main
  <2>12. CASE OpenRxout
    BY <2>12, SuccType DEF OpenRxout, Main
  <2>13. CASE OpenTxin
    BY <2>13, SuccType DEF OpenTxin, Main
  <2>14. CASE OpenTxout
    BY <2>14, SuccType DEF OpenTxout, Main
  <2>15. CASE OpenBaud
    BY <2>15, SuccType DEF OpenBaud, Main
  <2>16. CASE OpenFormat
    BY <2>16, SuccType DEF OpenFormat, BadFormat, GoodFormat, Main, Latch, LevelNext
  <2>17. CASE OpenDrain
    BY <2>17, SuccType DEF OpenDrain, Main, Latch, LevelNext
  <2>18. CASE OpenArm
    BY <2>18, SuccType DEF OpenArm, Main, StoreCtl, Latch, LevelNext
  <2> QED BY <1>2, <2>1, <2>2, <2>3, <2>4, <2>5, <2>6, <2>7, <2>8, <2>9, <2>10, <2>11, <2>12, <2>13, <2>14, <2>15, <2>16, <2>17, <2>18 DEF InCall
<1>3. CASE SerIrq
  <2>1. CASE RxData
    BY <2>1, SuccType DEF RxData, Handler, Latch, LevelNext
  <2>2. CASE RxStatus
    BY <2>2, SuccType DEF RxStatus, RxClean, RxFaulty, DropBuffers, Handler
  <2>3. CASE RxError
    BY <2>3, SuccType DEF RxError, Handler, StoreCtl, Latch, LevelNext
  <2>4. CASE RxStore
    BY <2>4, SuccType DEF RxStore, RxRoom, RxFull, StoreCtl, Handler, Latch, LevelNext
  <2>5. CASE TxNext
    BY <2>5, SuccType DEF TxNext, Handler, StoreData, Latch, LevelNext
  <2>6. CASE TxAllSent
    BY <2>6, SuccType DEF TxAllSent, Handler, TxEmpty
  <2>7. CASE TxArm
    BY <2>7, SuccType DEF TxArm, Handler, StoreCtl, Latch, LevelNext
  <2>8. CASE TxEnd
    BY <2>8, SuccType DEF TxEnd, Handler, StoreCtl, Latch, LevelNext
  <2>9. CASE IrqAck
    BY <2>9, SuccType DEF IrqAck, Handler, Acknowledge, LevelNext
  <2> QED BY <1>3, <2>1, <2>2, <2>3, <2>4, <2>5, <2>6, <2>7, <2>8, <2>9 DEF SerIrq
<1>4. CASE IrqEnter
  BY <1>4 DEF IrqEnter, Handler
<1>5. CASE Hardware
  <2>1. ASSUME NEW f \in FrameFaults, OwnFrame(f) PROVE ClosedInv'
    BY <1>5, <2>1 DEF Hardware, OwnFrame, Land, FrameFaults, Latch, LevelNext
  <2>2. ASSUME NEW f \in FrameFaults \cup {{"Break"}}, PeerFrame(f) PROVE ClosedInv'
    BY <1>5, <2>2 DEF Hardware, PeerFrame, Land, FrameFaults, Latch, LevelNext
  <2> QED BY <1>5, <2>1, <2>2 DEF Hardware, UartNext
<1>6. CASE UNCHANGED vars
  BY <1>6 DEF vars
<1> QED BY <1>1, <1>2, <1>3, <1>4, <1>5, <1>6 DEF Next

\* ser_txdone covers the transmit ring at every step.
LEMMA TransmitStep == IInv /\ [Next]_vars => TransmitInv'
<1> SUFFICES ASSUME IInv, [Next]_vars PROVE TransmitInv'
  OBVIOUS
<1> USE DEF ClosedInv, TransmitInv, Kicking, PutSteps, GetSteps, OpenSteps, uart, driver, rings, main, irq, client, IInv
<1>1. CASE Call
  <2>1. CASE PutLoad
    BY <2>1, SuccType DEF PutLoad, Main
  <2>2. CASE GetLoad
    BY <2>2, SuccType DEF GetLoad, Main
  <2>3. CASE OpenCall
    BY <2>3, SuccType DEF OpenCall, Main
  <2>4. CASE Close
    BY <2>4, SuccType DEF Close, Main, StoreCtl, Acknowledge, LevelNext
  <2> QED BY <1>1, <2>1, <2>2, <2>3, <2>4 DEF Call
<1>2. CASE InCall
  <2>1. CASE PutCmp
    BY <2>1, SuccType DEF PutCmp, PutOverflow, PutSpace, Main, Return
  <2>2. CASE PutIdx
    BY <2>2, SuccType DEF PutIdx, Main
  <2>3. CASE PutStore
    BY <2>3, SuccType DEF PutStore, Main
  <2>4. CASE PutInc
    BY <2>4, SuccType DEF PutInc, Main
  <2>5. CASE PutTest
    BY <2>5, SuccType DEF PutTest, PutBusy, PutQuiet, Main, Return
  <2>6. CASE PutKick
    BY <2>6, SuccType DEF PutKick, Main, Return, StoreCtl, Latch, LevelNext
  <2>7. CASE GetCmp
    BY <2>7, SuccType DEF GetCmp, GetNoData, GetData, Main, Return
  <2>8. CASE GetIdx
    BY <2>8, SuccType DEF GetIdx, Main
  <2>9. CASE GetTake
    BY <2>9, SuccType DEF GetTake, Main
  <2>10. CASE GetInc
    BY <2>10, SuccType DEF GetInc, Main, Return
  <2>11. CASE OpenRxin
    BY <2>11, SuccType DEF OpenRxin, Main
  <2>12. CASE OpenRxout
    BY <2>12, SuccType DEF OpenRxout, Main
  <2>13. CASE OpenTxin
    BY <2>13, SuccType DEF OpenTxin, Main
  <2>14. CASE OpenTxout
    BY <2>14, SuccType DEF OpenTxout, Main
  <2>15. CASE OpenBaud
    BY <2>15, SuccType DEF OpenBaud, Main
  <2>16. CASE OpenFormat
    BY <2>16, SuccType DEF OpenFormat, BadFormat, GoodFormat, Main, Latch, LevelNext
  <2>17. CASE OpenDrain
    BY <2>17, SuccType DEF OpenDrain, Main, Latch, LevelNext
  <2>18. CASE OpenArm
    BY <2>18, SuccType DEF OpenArm, Main, StoreCtl, Latch, LevelNext
  <2> QED BY <1>2, <2>1, <2>2, <2>3, <2>4, <2>5, <2>6, <2>7, <2>8, <2>9, <2>10, <2>11, <2>12, <2>13, <2>14, <2>15, <2>16, <2>17, <2>18 DEF InCall
<1>3. CASE SerIrq
  <2>1. CASE RxData
    BY <2>1, SuccType DEF RxData, Handler, Latch, LevelNext
  <2>2. CASE RxStatus
    BY <2>2, SuccType DEF RxStatus, RxClean, RxFaulty, DropBuffers, Handler
  <2>3. CASE RxError
    BY <2>3, SuccType DEF RxError, Handler, StoreCtl, Latch, LevelNext
  <2>4. CASE RxStore
    BY <2>4, SuccType DEF RxStore, RxRoom, RxFull, StoreCtl, Handler, Latch, LevelNext
  <2>5. CASE TxNext
    BY <2>5, SuccType DEF TxNext, Handler, StoreData, Latch, LevelNext
  <2>6. CASE TxAllSent
    BY <2>6, SuccType DEF TxAllSent, Handler, TxEmpty
  <2>7. CASE TxArm
    BY <2>7, SuccType DEF TxArm, Handler, StoreCtl, Latch, LevelNext
  <2>8. CASE TxEnd
    BY <2>8, SuccType DEF TxEnd, Handler, StoreCtl, Latch, LevelNext
  <2>9. CASE IrqAck
    BY <2>9, SuccType DEF IrqAck, Handler, Acknowledge, LevelNext
  <2> QED BY <1>3, <2>1, <2>2, <2>3, <2>4, <2>5, <2>6, <2>7, <2>8, <2>9 DEF SerIrq
<1>4. CASE IrqEnter
  BY <1>4 DEF IrqEnter, Handler
<1>5. CASE Hardware
  <2>1. ASSUME NEW f \in FrameFaults, OwnFrame(f) PROVE TransmitInv'
    BY <1>5, <2>1 DEF Hardware, OwnFrame, Land, FrameFaults, Latch, LevelNext
  <2>2. ASSUME NEW f \in FrameFaults \cup {{"Break"}}, PeerFrame(f) PROVE TransmitInv'
    BY <1>5, <2>2 DEF Hardware, PeerFrame, Land, FrameFaults, Latch, LevelNext
  <2> QED BY <1>5, <2>1, <2>2 DEF Hardware, UartNext
<1>6. CASE UNCHANGED vars
  BY <1>6 DEF vars
<1> QED BY <1>1, <1>2, <1>3, <1>4, <1>5, <1>6 DEF Next

\* The handler reaches its store to SERDAT only with the register free.
LEMMA HoldStep == IInv /\ [Next]_vars => HoldInv'
<1> SUFFICES ASSUME IInv, [Next]_vars PROVE HoldInv'
  OBVIOUS
<1> USE DEF ClosedInv, TransmitInv, HoldInv, PutSteps, GetSteps, OpenSteps, uart, driver, rings, main, irq, client, IInv
<1>1. CASE Call
  <2>1. CASE PutLoad
    BY <2>1, SuccType DEF PutLoad, Main
  <2>2. CASE GetLoad
    BY <2>2, SuccType DEF GetLoad, Main
  <2>3. CASE OpenCall
    BY <2>3, SuccType DEF OpenCall, Main
  <2>4. CASE Close
    BY <2>4, SuccType DEF Close, Main, StoreCtl, Acknowledge, LevelNext
  <2> QED BY <1>1, <2>1, <2>2, <2>3, <2>4 DEF Call
<1>2. CASE InCall
  <2>1. CASE PutCmp
    BY <2>1, SuccType DEF PutCmp, PutOverflow, PutSpace, Main, Return
  <2>2. CASE PutIdx
    BY <2>2, SuccType DEF PutIdx, Main
  <2>3. CASE PutStore
    BY <2>3, SuccType DEF PutStore, Main
  <2>4. CASE PutInc
    BY <2>4, SuccType DEF PutInc, Main
  <2>5. CASE PutTest
    BY <2>5, SuccType DEF PutTest, PutBusy, PutQuiet, Main, Return
  <2>6. CASE PutKick
    BY <2>6, SuccType DEF PutKick, Main, Return, StoreCtl, Latch, LevelNext
  <2>7. CASE GetCmp
    BY <2>7, SuccType DEF GetCmp, GetNoData, GetData, Main, Return
  <2>8. CASE GetIdx
    BY <2>8, SuccType DEF GetIdx, Main
  <2>9. CASE GetTake
    BY <2>9, SuccType DEF GetTake, Main
  <2>10. CASE GetInc
    BY <2>10, SuccType DEF GetInc, Main, Return
  <2>11. CASE OpenRxin
    BY <2>11, SuccType DEF OpenRxin, Main
  <2>12. CASE OpenRxout
    BY <2>12, SuccType DEF OpenRxout, Main
  <2>13. CASE OpenTxin
    BY <2>13, SuccType DEF OpenTxin, Main
  <2>14. CASE OpenTxout
    BY <2>14, SuccType DEF OpenTxout, Main
  <2>15. CASE OpenBaud
    BY <2>15, SuccType DEF OpenBaud, Main
  <2>16. CASE OpenFormat
    BY <2>16, SuccType DEF OpenFormat, BadFormat, GoodFormat, Main, Latch, LevelNext
  <2>17. CASE OpenDrain
    BY <2>17, SuccType DEF OpenDrain, Main, Latch, LevelNext
  <2>18. CASE OpenArm
    BY <2>18, SuccType DEF OpenArm, Main, StoreCtl, Latch, LevelNext
  <2> QED BY <1>2, <2>1, <2>2, <2>3, <2>4, <2>5, <2>6, <2>7, <2>8, <2>9, <2>10, <2>11, <2>12, <2>13, <2>14, <2>15, <2>16, <2>17, <2>18 DEF InCall
<1>3. CASE SerIrq
  <2>1. CASE RxData
    BY <2>1, SuccType DEF RxData, Handler, Latch, LevelNext
  <2>2. CASE RxStatus
    BY <2>2, SuccType DEF RxStatus, RxClean, RxFaulty, DropBuffers, Handler
  <2>3. CASE RxError
    BY <2>3, SuccType DEF RxError, Handler, StoreCtl, Latch, LevelNext
  <2>4. CASE RxStore
    BY <2>4, SuccType DEF RxStore, RxRoom, RxFull, StoreCtl, Handler, Latch, LevelNext
  <2>5. CASE TxNext
    BY <2>5, SuccType DEF TxNext, Handler, StoreData, Latch, LevelNext
  <2>6. CASE TxAllSent
    BY <2>6, SuccType DEF TxAllSent, Handler, TxEmpty
  <2>7. CASE TxArm
    BY <2>7, SuccType DEF TxArm, Handler, StoreCtl, Latch, LevelNext
  <2>8. CASE TxEnd
    BY <2>8, SuccType DEF TxEnd, Handler, StoreCtl, Latch, LevelNext
  <2>9. CASE IrqAck
    BY <2>9, SuccType DEF IrqAck, Handler, Acknowledge, LevelNext
  <2> QED BY <1>3, <2>1, <2>2, <2>3, <2>4, <2>5, <2>6, <2>7, <2>8, <2>9 DEF SerIrq
<1>4. CASE IrqEnter
  BY <1>4 DEF IrqEnter, Handler
<1>5. CASE Hardware
  <2>1. ASSUME NEW f \in FrameFaults, OwnFrame(f) PROVE HoldInv'
    BY <1>5, <2>1 DEF Hardware, OwnFrame, Land, FrameFaults, Latch, LevelNext
  <2>2. ASSUME NEW f \in FrameFaults \cup {{"Break"}}, PeerFrame(f) PROVE HoldInv'
    BY <1>5, <2>2 DEF Hardware, PeerFrame, Land, FrameFaults, Latch, LevelNext
  <2> QED BY <1>5, <2>1, <2>2 DEF Hardware, UartNext
<1>6. CASE UNCHANGED vars
  BY <1>6 DEF vars
<1> QED BY <1>1, <1>2, <1>3, <1>4, <1>5, <1>6 DEF Next

\* The strengthening is an invariant.
THEOREM Inductive == Spec => []IInv
<1>1. IInv /\ [Next]_vars => IInv'
  BY TypeStep, ClosedStep, TransmitStep, HoldStep DEF IInv
<1> QED BY InitIInv, <1>1, PTL DEF Spec

\* Type correctness.
THEOREM TypeCorrect == Spec => []TypeOK
<1>1. IInv => TypeOK
  BY DEF IInv
<1> QED BY Inductive, <1>1, PTL

\* ser_put and ser_irq agree on who sends the next byte: no wakeup is lost.
THEOREM NoWakeupLost == Spec => []NoLostWakeup
<1>1. IInv => NoLostWakeup
  BY DEF IInv, TransmitInv, NoLostWakeup
<1> QED BY Inductive, <1>1, PTL

\* The holding register is never overwritten: the only store to SERDAT is in
\* the transmit path of ser_irq, and it finds the register free.
THEOREM NothingOverwritten == Spec => HoldingSafe
<1> DEFINE Safe == hold # Empty => hold' \in {hold, Empty}
<1>1. ASSUME IInv, [Next]_vars PROVE Safe
  <2> USE DEF uart, driver, rings, main, irq, client
  <2>1. CASE Call
    BY <2>1 DEF Call, PutLoad, GetLoad, OpenCall, Close
  <2>2. CASE InCall
    BY <2>2 DEF InCall, PutCmp, PutIdx, PutStore, PutInc, PutTest, PutKick,
       GetCmp, GetIdx, GetTake, GetInc, OpenRxin, OpenRxout, OpenTxin,
       OpenTxout, OpenBaud, OpenFormat, OpenDrain, OpenArm
  <2>3. CASE TxNext
    BY <1>1, <2>3 DEF IInv, HoldInv, TxNext, Handler
  <2>4. CASE SerIrq /\ ~TxNext
    BY <2>4 DEF SerIrq, RxData, RxStatus, RxError, RxStore, TxAllSent, TxArm,
       TxEnd, IrqAck
  <2>5. CASE IrqEnter
    BY <2>5 DEF IrqEnter
  <2>6. CASE Hardware
    BY <2>6 DEF Hardware, UartNext, OwnFrame, PeerFrame
  <2>7. CASE UNCHANGED vars
    BY <2>7 DEF vars
  <2> QED BY <1>1, <2>1, <2>2, <2>3, <2>4, <2>5, <2>6, <2>7 DEF Next
<1>2. IInv /\ [Next]_vars => [Safe]_vars
  BY <1>1
<1> QED BY Inductive, <1>2, PTL DEF Spec, HoldingSafe

-----------------------------------------------------------------------------
(* A ring and the sequence it holds.                                       *)

\* A remainder of less than two turns takes off at most one.
LEMMA ModTwice == \A x \in 0 .. 2 * N - 1 : x % N = IF x < N THEN x ELSE x - N
<1> SUFFICES ASSUME NEW x \in 0 .. 2 * N - 1 PROVE x % N = IF x < N THEN x ELSE x - N
  OBVIOUS
<1>1. CASE x < N
  BY <1>1, Z3
<1>2. CASE x >= N
  BY <1>2, Z3
<1> QED BY <1>1, <1>2

\* How many bytes lie between two indices.
LEMMA DistanceIs ==
    ASSUME NEW out \in Slots, NEW in \in Slots
    PROVE  /\ Distance(out, in) = IF out <= in THEN in - out ELSE in - out + N
           /\ Distance(out, in) \in 0 .. N - 1
<1> DEFINE x == in - out + N
<1>1. x \in 0 .. 2 * N - 1
  BY DEF Slots
<1>2. x % N = IF x < N THEN x ELSE x - N
  BY <1>1, ModTwice, Zenon
<1>3. Distance(out, in) = IF x < N THEN x ELSE x - N
  BY <1>2, Zenon DEF Distance
<1> QED BY <1>3 DEF Slots

\* A step of either index changes the distance by one.
LEMMA DistanceTo ==
    ASSUME NEW out \in Slots, NEW in \in Slots
    PROVE  /\ Succ(in) \in Slots /\ Succ(out) \in Slots
           /\ Succ(in) # out => /\ Distance(out, in) \in 0 .. N - 2
                                /\ Distance(out, Succ(in)) = Distance(out, in) + 1
           /\ in # out => /\ Distance(out, in) \in 1 .. N - 1
                          /\ Distance(Succ(out), in) = Distance(out, in) - 1
<1>1. Succ(in) \in Slots /\ Succ(out) \in Slots
  BY SuccType
<1>2. Distance(out, in) = IF out <= in THEN in - out ELSE in - out + N
  BY DistanceIs
<1>3. Distance(out, Succ(in)) = IF out <= Succ(in) THEN Succ(in) - out ELSE Succ(in) - out + N
  BY <1>1, DistanceIs
<1>4. Distance(Succ(out), in) = IF Succ(out) <= in THEN in - Succ(out) ELSE in - Succ(out) + N
  BY <1>1, DistanceIs
<1> QED BY <1>1, <1>2, <1>3, <1>4 DEF Slots, Succ

\* The slot of the byte i places behind the tail.
Place(out, i) == (out + i - 1) % N

LEMMA PlaceIs ==
    ASSUME NEW out \in Slots, NEW i \in 1 .. N
    PROVE  /\ Place(out, i) = IF out + i - 1 < N THEN out + i - 1 ELSE out + i - 1 - N
           /\ Place(out, i) \in Slots
<1> DEFINE x == out + i - 1
<1>1. x \in 0 .. 2 * N - 1
  BY DEF Slots
<1>2. x % N = IF x < N THEN x ELSE x - N
  BY <1>1, ModTwice, Zenon
<1>3. Place(out, i) = IF x < N THEN x ELSE x - N
  BY <1>2, Zenon DEF Place
<1> QED BY <1>3 DEF Slots

Ring == [Slots -> Byte]

\* A ring holds a sequence of fewer than N bytes, none when its indices meet.
LEMMA ContentsType ==
    ASSUME NEW buf \in Ring, NEW out \in Slots, NEW in \in Slots
    PROVE  /\ Contents(buf, out, in) \in Seq(Byte)
           /\ Len(Contents(buf, out, in)) = Distance(out, in)
           /\ \A i \in 1 .. Distance(out, in) :
                 Contents(buf, out, in)[i] = buf[Place(out, i)]
           /\ Contents(buf, out, in) = <<>> <=> out = in
<1> DEFINE d == Distance(out, in)
           q == Contents(buf, out, in)
<1>1. d \in 0 .. N - 1 /\ (d = 0 <=> out = in)
  <2>1. d = (IF out <= in THEN in - out ELSE in - out + N) /\ d \in 0 .. N - 1
    BY DistanceIs
  <2> QED BY <2>1 DEF Slots
<1>2. \A i \in 1 .. d : buf[Place(out, i)] \in Byte
  BY <1>1, PlaceIs DEF Ring
<1> HIDE DEF d
<1>3. q = [i \in 1 .. d |-> buf[Place(out, i)]]
  BY Zenon DEF Contents, Place, d
<1>4. q \in [1 .. d -> Byte]
  BY <1>2, <1>3, Zenon
<1>5. q \in Seq(Byte)
  BY <1>4, <1>1, SeqDef
<1>6. Len(q) = d
  BY <1>4, <1>5, <1>1, LenProperties
<1>7. q = <<>> <=> d = 0
  BY <1>5, <1>6, <1>1, EmptySeq
<1> QED BY <1>1, <1>3, <1>5, <1>6, <1>7 DEF d

\* Moving the head on over a free slot appends the byte stored there.
LEMMA ContentsPut ==
    ASSUME NEW buf \in Ring, NEW out \in Slots, NEW in \in Slots, Succ(in) # out
    PROVE  /\ Len(Contents(buf, out, in)) < N - 1
           /\ Contents(buf, out, Succ(in)) = Contents(buf, out, in) \o <<buf[in]>>
<1> DEFINE d == Distance(out, in)
           s == Contents(buf, out, in)
           t == Contents(buf, out, Succ(in))
           b == <<buf[in]>>
<1>1. Succ(in) \in Slots /\ d \in 0 .. N - 2 /\ Distance(out, Succ(in)) = d + 1
  BY DistanceTo
<1>2. Place(out, d + 1) = in
  <2>1. d + 1 \in 1 .. N
    BY <1>1
  <2>2. d = IF out <= in THEN in - out ELSE in - out + N
    BY DistanceIs
  <2> HIDE DEF d
  <2>3. Place(out, d + 1) =
           IF out + (d + 1) - 1 < N THEN out + (d + 1) - 1 ELSE out + (d + 1) - 1 - N
    BY <2>1, PlaceIs
  <2> QED BY <2>2, <2>3 DEF Slots
<1>3. s \in Seq(Byte) /\ Len(s) = d /\ \A i \in 1 .. d : s[i] = buf[Place(out, i)]
  BY ContentsType
<1>4. /\ t \in Seq(Byte) /\ Len(t) = d + 1
      /\ \A i \in 1 .. d + 1 : t[i] = buf[Place(out, i)]
  BY <1>1, ContentsType
<1> HIDE DEF d, s, t
<1>5. b \in Seq(Byte) /\ Len(b) = 1 /\ b[1] = buf[in]
  BY DEF Ring
<1> HIDE DEF b
<1>6. /\ s \o b \in Seq(Byte) /\ Len(s \o b) = d + 1
      /\ \A i \in 1 .. d + 1 : (s \o b)[i] = IF i <= d THEN s[i] ELSE b[i - d]
  <2>1. /\ s \o b \in Seq(Byte) /\ Len(s \o b) = Len(s) + Len(b)
        /\ \A i \in 1 .. Len(s) + Len(b) :
              (s \o b)[i] = IF i <= Len(s) THEN s[i] ELSE b[i - Len(s)]
    BY <1>3, <1>5, ConcatProperties, Zenon
  <2>2. Len(s) = d /\ Len(b) = 1
    BY <1>3, <1>5
  <2> QED BY <2>1, <2>2
<1>7. ASSUME NEW i \in 1 .. d + 1 PROVE t[i] = (s \o b)[i]
  <2>1. CASE i <= d
    BY <2>1, <1>1, <1>3, <1>4, <1>6
  <2>2. CASE i = d + 1
    BY <2>2, <1>1, <1>2, <1>4, <1>5, <1>6
  <2>3. i <= d \/ i = d + 1
    BY <1>1
  <2> QED BY <2>1, <2>2, <2>3
<1>8. t = s \o b
  BY <1>4, <1>6, <1>7, SeqEqual
<1> QED BY <1>1, <1>3, <1>8 DEF d, s, t, b

\* Moving the tail on takes the oldest byte.
LEMMA ContentsTake ==
    ASSUME NEW buf \in Ring, NEW out \in Slots, NEW in \in Slots, in # out
    PROVE  /\ Contents(buf, out, in) # <<>>
           /\ Head(Contents(buf, out, in)) = buf[out]
           /\ Contents(buf, Succ(out), in) = Tail(Contents(buf, out, in))
<1> DEFINE d == Distance(out, in)
           s == Contents(buf, out, in)
           t == Contents(buf, Succ(out), in)
<1>1. Succ(out) \in Slots /\ d \in 1 .. N - 1 /\ Distance(Succ(out), in) = d - 1
  BY DistanceTo
<1>2. ASSUME NEW i \in 1 .. d - 1 PROVE Place(Succ(out), i) = Place(out, i + 1)
  <2>1. i \in 1 .. N /\ i + 1 \in 1 .. N
    BY <1>1
  <2>2. Place(Succ(out), i) = IF Succ(out) + i - 1 < N THEN Succ(out) + i - 1
                                                        ELSE Succ(out) + i - 1 - N
    BY <1>1, <2>1, PlaceIs
  <2>3. Place(out, i + 1) = IF out + (i + 1) - 1 < N THEN out + (i + 1) - 1
                                                      ELSE out + (i + 1) - 1 - N
    BY <2>1, PlaceIs
  <2> QED BY <2>1, <2>2, <2>3 DEF Slots, Succ
<1>3. Place(out, 1) = out
  BY PlaceIs DEF Slots
<1>4. /\ s \in Seq(Byte) /\ Len(s) = d /\ s # <<>>
      /\ \A i \in 1 .. d : s[i] = buf[Place(out, i)]
  BY ContentsType
<1>5. /\ t \in Seq(Byte) /\ Len(t) = d - 1
      /\ \A i \in 1 .. d - 1 : t[i] = buf[Place(Succ(out), i)]
  BY <1>1, ContentsType
<1> HIDE DEF d, s, t
<1>6. Head(s) = buf[out]
  BY <1>1, <1>3, <1>4
<1>7. /\ Tail(s) \in Seq(Byte) /\ Len(Tail(s)) = d - 1
      /\ \A i \in 1 .. d - 1 : Tail(s)[i] = s[i + 1]
  BY <1>4, HeadTailProperties
<1>8. ASSUME NEW i \in 1 .. d - 1 PROVE t[i] = Tail(s)[i]
  BY <1>1, <1>2, <1>4, <1>5, <1>7
<1>9. t = Tail(s)
  BY <1>5, <1>7, <1>8, SeqEqual
<1> QED BY <1>4, <1>6, <1>9 DEF s, t

\* A store to the free slot at the head is not yet seen.
LEMMA ContentsStore ==
    ASSUME NEW buf \in Ring, NEW out \in Slots, NEW in \in Slots, NEW b \in Byte
    PROVE  Contents([buf EXCEPT ![in] = b], out, in) = Contents(buf, out, in)
<1> DEFINE d == Distance(out, in)
           c == [buf EXCEPT ![in] = b]
<1>1. ASSUME NEW i \in 1 .. d PROVE Place(out, i) \in Slots /\ Place(out, i) # in
  <2>1. d = (IF out <= in THEN in - out ELSE in - out + N) /\ d \in 0 .. N - 1
    BY DistanceIs
  <2>2. i \in 1 .. N
    BY <2>1
  <2>3. /\ Place(out, i) = IF out + i - 1 < N THEN out + i - 1 ELSE out + i - 1 - N
        /\ Place(out, i) \in Slots
    BY <2>2, PlaceIs
  <2> QED BY <2>1, <2>3 DEF Slots
<1>2. \A j \in Slots : j # in => c[j] = buf[j]
  BY DEF Ring
<1> HIDE DEF d, c
<1>3. \A i \in 1 .. d : c[Place(out, i)] = buf[Place(out, i)]
  BY <1>1, <1>2
<1> QED BY <1>3, Zenon DEF Contents, Place, c, d

-----------------------------------------------------------------------------
(* The invariant of the rings.                                             *)

Putting == mpc \in {"put_idx", "put_store", "put_inc"}
Getting == mpc \in {"get_idx", "get_take", "get_inc"}

\* ser_put found a free slot, which stays free, and fills it.
PutInv == /\ mpc = "put_cmp" => ma = Succ(txin)
          /\ Putting \/ mpc = "put_cmp" => nput < MaxPut
          /\ Putting => Succ(txin) # txout
          /\ mpc \in {"put_store", "put_inc"} => my = txin
          /\ mpc = "put_inc" => txbuf[txin] = nput + 1

\* ser_get found a byte, which stays, and reads it.
GetInv == /\ mpc = "get_cmp" /\ ma # rxout => rxin # rxout
          /\ Getting => rxin # rxout
          /\ mpc \in {"get_take", "get_inc"} => my = rxout
          /\ mpc = "get_inc" => ma = rxbuf[rxout]

\* The port is only closed with both rings empty.
ShutInv == ~isopen => rxin = 0 /\ rxout = 0

Wire == (-MaxPeer) .. MaxPut

\* Only bytes that were put or came over the wire are in flight.
WireInv == /\ "Break" \notin errs
           /\ npeer <= MaxPeer /\ nput <= MaxPut
           /\ \A i \in Slots : txbuf[i] \in Wire
           /\ hold \in Wire \cup {Empty} /\ shift \in Wire \cup {Empty}
           /\ rxdata \in Wire

\* What the refinement needs on top of IInv.
RingInv == PutInv /\ GetInv /\ ShutInv /\ WireInv

\* It holds of the static buffers.
LEMMA InitRingInv == Init => RingInv
<1> SUFFICES ASSUME Init PROVE RingInv
  OBVIOUS
<1>1. PutInv /\ GetInv /\ ShutInv
  BY DEF Init, PutInv, GetInv, ShutInv, Putting, Getting
<1>2. WireInv
  BY DEF Init, UartInit, WireInv, Wire
<1> QED BY <1>1, <1>2 DEF RingInv

\* Nothing but ser_put, and the handler where it sends, moves what ser_put
\* relies on.
LEMMA PutStep == IInv /\ RingInv /\ [Next]_vars => PutInv'
<1> SUFFICES ASSUME IInv, RingInv, [Next]_vars PROVE PutInv'
  OBVIOUS
<1> USE DEF PutInv, Putting, IInv, ClosedInv, TypeOK, PutSteps, uart, driver, rings, main, irq, client
<1>1. RingInv /\ TypeOK
  BY DEF RingInv
<1>2. CASE PutLoad
  BY <1>2 DEF PutLoad, Main
<1>3. CASE PutCmp
  BY <1>3, <1>1 DEF PutCmp, PutOverflow, PutSpace, Main, Return, RingInv
<1>4. CASE PutIdx
  BY <1>4, <1>1 DEF PutIdx, Main, RingInv
<1>5. CASE PutStore
  BY <1>5, <1>1 DEF PutStore, Main, RingInv
<1>6. CASE PutInc
  BY <1>6 DEF PutInc, Main
<1>7. CASE TxNext
  BY <1>7, <1>1 DEF TxNext, Handler, RingInv, Slots, Succ
<1>8. CASE RxStatus
  BY <1>8, <1>1 DEF RxStatus, RxClean, RxFaulty, DropBuffers, RingInv, WireInv
<1>9. CASE PutTest \/ PutKick
  BY <1>9 DEF PutTest, PutBusy, PutQuiet, PutKick, Main, Return
<1>10. CASE GetLoad \/ OpenCall \/ Close
  BY <1>10 DEF GetLoad, OpenCall, Close, Main
<1>11. CASE GetCmp \/ GetIdx \/ GetTake \/ GetInc
  BY <1>11 DEF GetCmp, GetIdx, GetTake, GetInc, GetData, GetNoData, Main, Return
<1>12. CASE OpenRxin \/ OpenRxout \/ OpenTxin \/ OpenTxout
  BY <1>12 DEF OpenRxin, OpenRxout, OpenTxin, OpenTxout, Main
<1>13. CASE OpenBaud \/ OpenFormat \/ OpenDrain \/ OpenArm
  BY <1>13 DEF OpenBaud, OpenFormat, OpenDrain, OpenArm, BadFormat, GoodFormat, Main
<1>14. CASE RxData \/ RxError \/ RxStore \/ TxAllSent \/ TxArm \/ TxEnd \/ IrqAck
  BY <1>14, <1>1 DEF RxData, RxError, RxStore, TxAllSent, TxArm, TxEnd, IrqAck, RingInv
<1>15. CASE IrqEnter \/ Hardware
  BY <1>15, <1>1 DEF IrqEnter, Hardware, RingInv
<1>16. CASE UNCHANGED vars
  BY <1>16, <1>1 DEF vars, RingInv
<1> QED BY <1>2, <1>3, <1>4, <1>5, <1>6, <1>7, <1>8, <1>9, <1>10, <1>11, <1>12,
           <1>13, <1>14, <1>15, <1>16 DEF Next, Call, InCall, SerIrq

\* Nothing but ser_get, and the handler where it receives, moves what ser_get
\* relies on.
LEMMA GetStep == IInv /\ RingInv /\ [Next]_vars => GetInv'
<1> SUFFICES ASSUME IInv, RingInv, [Next]_vars PROVE GetInv'
  OBVIOUS
<1> USE DEF GetInv, Getting, IInv, ClosedInv, TypeOK, PutSteps, uart, driver, rings, main, irq, client
<1>1. RingInv /\ TypeOK
  BY DEF RingInv
<1>2. CASE GetLoad
  BY <1>2 DEF GetLoad, Main
<1>3. CASE GetCmp
  BY <1>3, <1>1 DEF GetCmp, GetNoData, GetData, Main, Return, RingInv
<1>4. CASE GetIdx
  BY <1>4, <1>1 DEF GetIdx, Main, RingInv
<1>5. CASE GetTake
  BY <1>5, <1>1 DEF GetTake, Main, RingInv
<1>6. CASE GetInc
  BY <1>6 DEF GetInc, Main, Return
<1>7. CASE RxStore
  BY <1>7, <1>1 DEF RxStore, RxRoom, RxFull, Handler, RingInv, Slots, Succ
<1>8. CASE RxStatus
  BY <1>8, <1>1 DEF RxStatus, RxClean, RxFaulty, DropBuffers, RingInv, WireInv
<1>9. CASE PutTest \/ PutKick
  BY <1>9 DEF PutTest, PutBusy, PutQuiet, PutKick, Main, Return
<1>10. CASE PutLoad \/ OpenCall \/ Close
  BY <1>10 DEF PutLoad, OpenCall, Close, Main
<1>11. CASE PutCmp \/ PutIdx \/ PutStore \/ PutInc
  BY <1>11 DEF PutCmp, PutIdx, PutStore, PutInc, PutOverflow, PutSpace, Main, Return
<1>12. CASE OpenRxin \/ OpenRxout \/ OpenTxin \/ OpenTxout
  BY <1>12 DEF OpenRxin, OpenRxout, OpenTxin, OpenTxout, Main
<1>13. CASE OpenBaud \/ OpenFormat \/ OpenDrain \/ OpenArm
  BY <1>13 DEF OpenBaud, OpenFormat, OpenDrain, OpenArm, BadFormat, GoodFormat, Main
<1>14. CASE RxData \/ RxError \/ TxNext \/ TxAllSent \/ TxArm \/ TxEnd \/ IrqAck
  BY <1>14, <1>1 DEF RxData, RxError, TxNext, TxAllSent, TxArm, TxEnd, IrqAck, RingInv
<1>15. CASE IrqEnter \/ Hardware
  BY <1>15, <1>1 DEF IrqEnter, Hardware, RingInv
<1>16. CASE UNCHANGED vars
  BY <1>16, <1>1 DEF vars, RingInv
<1> QED BY <1>2, <1>3, <1>4, <1>5, <1>6, <1>7, <1>8, <1>9, <1>10, <1>11, <1>12,
           <1>13, <1>14, <1>15, <1>16 DEF Next, Call, InCall, SerIrq

\* ser_close and ser_open leave the indices of a closed port at zero.
LEMMA ShutStep == IInv /\ RingInv /\ [Next]_vars => ShutInv'
<1> SUFFICES ASSUME IInv, RingInv, [Next]_vars PROVE ShutInv'
  OBVIOUS
<1> USE DEF ShutInv, uart, driver, rings, main, irq, client
<1>1. ShutInv /\ GetInv /\ WireInv /\ ClosedInv
  BY DEF RingInv, IInv
<1>2. CASE GetInc
  BY <1>2, <1>1 DEF GetInc, Return, Main, GetInv, Getting
<1>3. CASE OpenRxin \/ OpenRxout
  BY <1>3, <1>1 DEF OpenRxin, OpenRxout
<1>4. CASE OpenArm \/ Close
  BY <1>4 DEF OpenArm, Close
<1>5. CASE RxStore
  BY <1>5, <1>1 DEF RxStore, RxRoom, RxFull, Handler, ClosedInv
<1>6. CASE RxStatus
  BY <1>6, <1>1 DEF RxStatus, RxClean, RxFaulty, DropBuffers, WireInv
<1>7. CASE PutLoad \/ PutCmp \/ PutIdx \/ PutStore \/ PutInc \/ PutTest \/ PutKick
  BY <1>7, <1>1 DEF PutLoad, PutCmp, PutIdx, PutStore, PutInc, PutTest, PutKick
<1>8. CASE GetLoad \/ GetCmp \/ GetIdx \/ GetTake
  BY <1>8, <1>1 DEF GetLoad, GetCmp, GetIdx, GetTake
<1>9. CASE OpenCall \/ OpenTxin \/ OpenTxout \/ OpenBaud \/ OpenFormat \/ OpenDrain
  BY <1>9, <1>1 DEF OpenCall, OpenTxin, OpenTxout, OpenBaud, OpenFormat, OpenDrain
<1>10. CASE RxData \/ RxError \/ TxNext \/ TxAllSent \/ TxArm \/ TxEnd \/ IrqAck
  BY <1>10, <1>1 DEF RxData, RxError, TxNext, TxAllSent, TxArm, TxEnd, IrqAck
<1>11. CASE IrqEnter \/ Hardware
  BY <1>11, <1>1 DEF IrqEnter, Hardware
<1>12. CASE UNCHANGED vars
  BY <1>12, <1>1 DEF vars
<1> QED BY <1>2, <1>3, <1>4, <1>5, <1>6, <1>7, <1>8, <1>9, <1>10, <1>11, <1>12
        DEF Next, Call, InCall, SerIrq

\* No byte is made up on its way through the registers.
LEMMA WireStep ==
    ASSUME "Break" \notin Faults, IInv, RingInv, [Next]_vars
    PROVE  WireInv'
<1> USE DEF uart, driver, rings, main, irq, client
<1>1. WireInv /\ TypeOK
  BY DEF RingInv, IInv
<1>2. CASE PutStore
  <2>1. nput + 1 \in Wire
    BY <1>1, <1>2 DEF PutStore, Main, RingInv, PutInv, Putting, TypeOK, Wire
  <2> QED BY <1>1, <1>2, <2>1 DEF PutStore, Main, WireInv, TypeOK
<1>3. CASE PutInc
  BY <1>1, <1>3 DEF PutInc, Main, RingInv, PutInv, Putting, TypeOK, WireInv
<1>4. CASE TxNext
  BY <1>1, <1>4 DEF TxNext, StoreData, WireInv, TypeOK
<1>5. CASE Hardware
  <2>1. ASSUME NEW f \in FrameFaults, OwnFrame(f) PROVE WireInv'
    BY <1>1, <1>5, <2>1 DEF Hardware, OwnFrame, Land, FrameFaults, WireInv
  <2>2. ASSUME NEW f \in FrameFaults, PeerFrame(f) PROVE WireInv'
    <3>1. "Break" \notin f
      BY DEF FrameFaults
    <3>2. npeer' <= MaxPeer /\ rxdata' \in Wire
      BY <1>1, <2>2, <3>1 DEF PeerFrame, Land, Wire, TypeOK, UartTypeOK
    <3> QED BY <1>1, <1>5, <2>2, <3>1, <3>2 DEF Hardware, PeerFrame, Land, WireInv
  <2> QED BY <1>5, <2>1, <2>2 DEF Hardware, UartNext
<1>6. CASE PutLoad \/ PutCmp \/ PutIdx \/ PutTest \/ PutKick
  BY <1>6, <1>1 DEF PutLoad, PutCmp, PutIdx, PutTest, PutKick, StoreCtl, WireInv
<1>7. CASE GetLoad \/ GetCmp \/ GetIdx \/ GetTake \/ GetInc
  BY <1>7, <1>1 DEF GetLoad, GetCmp, GetIdx, GetTake, GetInc, WireInv
<1>8. CASE OpenCall \/ OpenRxin \/ OpenRxout \/ OpenTxin \/ OpenTxout
  BY <1>8, <1>1 DEF OpenCall, OpenRxin, OpenRxout, OpenTxin, OpenTxout, WireInv
<1>9. CASE OpenBaud \/ OpenFormat \/ OpenDrain \/ OpenArm \/ Close
  BY <1>9, <1>1 DEF OpenBaud, OpenFormat, OpenDrain, OpenArm, Close, StoreCtl, WireInv
<1>10. CASE RxData \/ RxError \/ TxAllSent \/ TxArm \/ TxEnd \/ IrqAck
  BY <1>10, <1>1 DEF RxData, RxError, TxAllSent, TxArm, TxEnd, IrqAck, StoreCtl, WireInv
<1>11. CASE RxStatus \/ RxStore
  BY <1>11, <1>1 DEF RxStatus, RxClean, RxFaulty, RxStore, RxRoom, RxFull, StoreCtl, WireInv
<1>12. CASE IrqEnter
  BY <1>12, <1>1 DEF IrqEnter, WireInv
<1>13. CASE UNCHANGED vars
  BY <1>13, <1>1 DEF vars, WireInv
<1> QED BY <1>2, <1>3, <1>4, <1>5, <1>6, <1>7, <1>8, <1>9, <1>10, <1>11, <1>12, <1>13
        DEF Next, Call, InCall, SerIrq

-----------------------------------------------------------------------------
(* The refinement, one lemma for each kind of step.                        *)

\* A step that leaves the rings and what passes their ends alone stutters.
LEMMA SameQueues ==
    ASSUME UNCHANGED <<txbuf, txin, txout, rxbuf, rxin, rxout, sent, hx, got>>
    PROVE  UNCHANGED Queues!queues
BY Zenon DEF Queues!queues, TxContents, RxContents

\* The transmit queue depends on its ring only, and the receive queue on its.
LEMMA SameTx == UNCHANGED <<txbuf, txin, txout>> => UNCHANGED TxContents
BY Zenon DEF TxContents
LEMMA SameRx == UNCHANGED <<rxbuf, rxin, rxout>> => UNCHANGED RxContents
BY Zenon DEF RxContents

\* A ring whose indices meet is an empty queue.
LEMMA EmptyRings ==
    ASSUME TypeOK
    PROVE  /\ txin = txout => TxContents = <<>>
           /\ rxin = rxout => RxContents = <<>>
<1>1. txbuf \in Ring /\ rxbuf \in Ring /\ {txin, txout, rxin, rxout} \subseteq Slots
  BY DEF TypeOK, Ring
<1>2. txin = txout => TxContents = <<>>
  BY <1>1, ContentsType DEF TxContents
<1>3. rxin = rxout => RxContents = <<>>
  BY <1>1, ContentsType DEF RxContents
<1> QED BY <1>2, <1>3

\* The static buffers start as empty queues.
LEMMA RefinesInit == Init => Queues!Init
<1> SUFFICES ASSUME Init PROVE Queues!Init
  OBVIOUS
<1>1. TypeOK /\ txin = txout /\ rxin = rxout
  BY InitIInv DEF IInv, Init
<1>2. TxContents = <<>> /\ RxContents = <<>>
  BY <1>1, EmptyRings
<1> QED BY <1>2 DEF Queues!Init, Init

\* The step of ser_put that moves the index appends a byte to the queue.
LEMMA RefinesPut == IInv /\ RingInv /\ PutInc => Queues!Put
<1> SUFFICES ASSUME IInv, RingInv, PutInc PROVE Queues!Put
  OBVIOUS
<1>1. /\ txbuf \in Ring /\ txin \in Slots /\ txout \in Slots
      /\ Succ(txin) # txout /\ txbuf[txin] \in Wire
  BY DEF IInv, TypeOK, Ring, RingInv, PutInv, WireInv, Putting, PutInc, Main
<1>2. /\ Len(TxContents) < N - 1
      /\ Contents(txbuf, txout, Succ(txin)) = TxContents \o <<txbuf[txin]>>
  BY <1>1, ContentsPut, Zenon DEF TxContents
<1>3. TxContents' = Contents(txbuf, txout, Succ(txin))
  BY Zenon DEF PutInc, TxContents
<1>4. UNCHANGED <<RxContents, sent, hx, got>>
  BY SameRx DEF PutInc, irq
<1> QED BY <1>1, <1>2, <1>3, <1>4, Zenon DEF Queues!Put, Wire

\* The store to SERDAT takes the oldest byte off the transmit queue.
LEMMA RefinesSend == IInv /\ TxNext => Queues!Send
<1> SUFFICES ASSUME IInv, TxNext PROVE Queues!Send
  OBVIOUS
<1>1. txbuf \in Ring /\ txin \in Slots /\ txout \in Slots /\ txin # txout
  BY DEF IInv, TypeOK, Ring, TxNext
<1>2. /\ TxContents # <<>> /\ Head(TxContents) = txbuf[txout]
      /\ Contents(txbuf, Succ(txout), txin) = Tail(TxContents)
  BY <1>1, ContentsTake, Zenon DEF TxContents
<1>3. TxContents' = Contents(txbuf, Succ(txout), txin) /\ sent' = txbuf[txout]
  BY Zenon DEF TxNext, TxContents
<1>4. UNCHANGED <<RxContents, hx, got>>
  BY SameRx DEF TxNext
<1> QED BY <1>2, <1>3, <1>4, Zenon DEF Queues!Send

\* The read of SERDAT takes a byte that was put or sent by a peer.
LEMMA RefinesTake == IInv /\ RingInv /\ RxData => Queues!Take
<1> SUFFICES ASSUME IInv, RingInv, RxData PROVE Queues!Take
  OBVIOUS
<1>1. hx' \in Wire
  BY DEF RxData, RingInv, WireInv
<1>2. UNCHANGED <<TxContents, RxContents, sent, got>>
  BY SameTx, SameRx DEF RxData, driver, rings, client
<1> QED BY <1>1, <1>2 DEF Queues!Take, Wire

\* A byte received is appended, or dropped when the ring is full: the store to
\* the slot at the head is not seen from the other end.
LEMMA RefinesReceive == IInv /\ RxStore => Queues!Receive \/ Queues!Discard
<1> SUFFICES ASSUME IInv, RxStore PROVE Queues!Receive \/ Queues!Discard
  OBVIOUS
<1>1. /\ rxbuf \in Ring /\ rxin \in Slots /\ rxout \in Slots /\ hx \in Byte
      /\ rxbuf' = [rxbuf EXCEPT ![rxin] = hx] /\ rxbuf' \in Ring
      /\ rxbuf'[rxin] = hx /\ rxout' = rxout
  BY DEF IInv, TypeOK, Ring, RxStore
<1>2. Contents(rxbuf', rxout, rxin) = RxContents
  BY <1>1, ContentsStore DEF RxContents
<1>3. UNCHANGED <<TxContents, sent, got>> /\ hx' = 0
  BY SameTx DEF RxStore, client
<1>4. CASE RxRoom
  <2>1. Succ(rxin) # rxout /\ rxin' = Succ(rxin)
    BY <1>4 DEF RxRoom
  <2>2. /\ Len(Contents(rxbuf', rxout, rxin)) < N - 1
        /\ Contents(rxbuf', rxout, Succ(rxin)) = Contents(rxbuf', rxout, rxin) \o <<rxbuf'[rxin]>>
    BY <1>1, <2>1, ContentsPut, Zenon
  <2>3. RxContents' = Contents(rxbuf', rxout, Succ(rxin))
    BY <1>1, <2>1, Zenon DEF RxContents
  <2> QED BY <1>1, <1>2, <1>3, <2>2, <2>3, Zenon DEF Queues!Receive
<1>5. CASE RxFull
  <2>1. RxContents' = Contents(rxbuf', rxout, rxin)
    BY <1>1, <1>5, Zenon DEF RxFull, RxContents
  <2> QED BY <1>2, <1>3, <2>1, Zenon DEF Queues!Discard
<1> QED BY <1>4, <1>5 DEF RxStore

\* A byte received with an error is dropped, and without a break only that one.
LEMMA RefinesStatus == RingInv /\ RxStatus => Queues!Discard \/ UNCHANGED Queues!queues
<1> SUFFICES ASSUME RingInv, RxStatus PROVE Queues!Discard \/ UNCHANGED Queues!queues
  OBVIOUS
<1>1. UNCHANGED <<rings, sent, got>> /\ (hx' = 0 \/ hx' = hx)
  BY DEF RxStatus, RxClean, RxFaulty, DropBuffers, RingInv, WireInv, driver, rings, client
<1>2. UNCHANGED <<TxContents, RxContents, sent, got>>
  BY <1>1, SameTx, SameRx DEF rings
<1> QED BY <1>1, <1>2 DEF Queues!Discard, Queues!queues

\* The step of ser_get that moves the index takes the oldest byte received.
LEMMA RefinesGet == IInv /\ RingInv /\ GetInc => Queues!Get
<1> SUFFICES ASSUME IInv, RingInv, GetInc PROVE Queues!Get
  OBVIOUS
<1>1. /\ rxbuf \in Ring /\ rxin \in Slots /\ rxout \in Slots
      /\ rxin # rxout /\ ma = rxbuf[rxout]
  BY DEF IInv, TypeOK, Ring, RingInv, GetInv, Getting, GetInc, Return, Main
<1>2. /\ RxContents # <<>> /\ Head(RxContents) = rxbuf[rxout]
      /\ Contents(rxbuf, Succ(rxout), rxin) = Tail(RxContents)
  BY <1>1, ContentsTake, Zenon DEF RxContents
<1>3. RxContents' = Contents(rxbuf, Succ(rxout), rxin) /\ got' = ma
  BY Zenon DEF GetInc, RxContents
<1>4. UNCHANGED <<TxContents, sent, hx>>
  BY SameTx DEF GetInc, irq
<1> QED BY <1>1, <1>2, <1>3, <1>4, Zenon DEF Queues!Get

\* ser_close empties both queues.
LEMMA RefinesDrop == TypeOK' /\ Close => Queues!Drop
<1> SUFFICES ASSUME TypeOK', Close PROVE Queues!Drop
  OBVIOUS
<1>1. txin' = txout' /\ rxin' = rxout' /\ UNCHANGED <<sent, hx, got>>
  BY DEF Close, irq
<1>2. /\ txbuf' \in Ring /\ rxbuf' \in Ring
      /\ {txin', txout', rxin', rxout'} \subseteq Slots
  BY DEF TypeOK, Ring
<1>3. TxContents' = <<>> /\ RxContents' = <<>>
  BY <1>1, <1>2, ContentsType, Zenon DEF TxContents, RxContents
<1> QED BY <1>1, <1>3 DEF Queues!Drop

\* ser_open finds the indices where close left them.
LEMMA RefinesOpen ==
    ASSUME IInv, RingInv, OpenRxin \/ OpenRxout \/ OpenTxin \/ OpenTxout
    PROVE  UNCHANGED Queues!queues
<1>1. ~isopen
  BY DEF IInv, ClosedInv, OpenSteps, OpenRxin, OpenRxout, OpenTxin, OpenTxout, Main
<1>2. txin = 0 /\ txout = 0 /\ rxin = 0 /\ rxout = 0
  BY <1>1 DEF IInv, ClosedInv, RingInv, ShutInv
<1> QED BY <1>2, SameQueues DEF OpenRxin, OpenRxout, OpenTxin, OpenTxout, irq, client

\* The byte ser_put stores is not in the queue before the index moves.
LEMMA RefinesStore == IInv /\ RingInv /\ PutStore => UNCHANGED Queues!queues
<1> SUFFICES ASSUME IInv, RingInv, PutStore PROVE UNCHANGED Queues!queues
  OBVIOUS
<1>1. /\ txbuf \in Ring /\ txin \in Slots /\ txout \in Slots /\ nput + 1 \in Byte
      /\ txbuf' = [txbuf EXCEPT ![txin] = nput + 1]
  BY DEF IInv, TypeOK, Ring, Byte, RingInv, PutInv, PutStore, Main
<1>2. Contents(txbuf', txout, txin) = TxContents
  BY <1>1, ContentsStore DEF TxContents
<1>3. TxContents' = Contents(txbuf', txout, txin)
  BY Zenon DEF PutStore, TxContents
<1>4. UNCHANGED <<RxContents, sent, hx, got>>
  BY SameRx DEF PutStore, irq, client
<1> QED BY <1>2, <1>3, <1>4 DEF Queues!queues

\* Every step of the library and of the UART is a step of the two queues, or
\* none.
LEMMA RefinesStep == IInv /\ RingInv /\ IInv' /\ [Next]_vars => [Queues!Next]_Queues!queues
<1> SUFFICES ASSUME IInv, RingInv, IInv', [Next]_vars PROVE Queues!Next \/ UNCHANGED Queues!queues
  OBVIOUS
<1> USE DEF Queues!Next
<1>1. CASE PutInc
  BY <1>1, RefinesPut
<1>2. CASE TxNext
  BY <1>2, RefinesSend
<1>3. CASE RxData
  BY <1>3, RefinesTake
<1>4. CASE RxStore
  BY <1>4, RefinesReceive
<1>5. CASE RxStatus
  BY <1>5, RefinesStatus
<1>6. CASE GetInc
  BY <1>6, RefinesGet
<1>7. CASE Close
  BY <1>7, RefinesDrop DEF IInv
<1>8. CASE OpenRxin \/ OpenRxout \/ OpenTxin \/ OpenTxout
  BY <1>8, RefinesOpen
<1>9. CASE PutStore
  BY <1>9, RefinesStore
<1> DEFINE Same == UNCHANGED <<txbuf, txin, txout, rxbuf, rxin, rxout, sent, hx, got>>
<1> USE DEF uart, driver, rings, main, irq, client
<1>10. CASE PutLoad \/ PutCmp \/ PutIdx \/ PutTest \/ PutKick
  <2>1. Same
    BY <1>10 DEF PutLoad, PutCmp, PutIdx, PutTest, PutKick
  <2> QED BY <2>1, SameQueues
<1>11. CASE GetLoad \/ GetCmp \/ GetIdx \/ GetTake
  <2>1. Same
    BY <1>11 DEF GetLoad, GetCmp, GetIdx, GetTake
  <2> QED BY <2>1, SameQueues
<1>12. CASE OpenCall \/ OpenBaud \/ OpenFormat \/ OpenDrain \/ OpenArm
  <2>1. Same
    BY <1>12 DEF OpenCall, OpenBaud, OpenFormat, OpenDrain, OpenArm
  <2> QED BY <2>1, SameQueues
<1>13. CASE RxError \/ TxAllSent \/ TxArm \/ TxEnd \/ IrqAck
  <2>1. Same
    BY <1>13 DEF RxError, TxAllSent, TxArm, TxEnd, IrqAck
  <2> QED BY <2>1, SameQueues
<1>14. CASE IrqEnter \/ Hardware \/ UNCHANGED vars
  <2>1. Same
    BY <1>14 DEF IrqEnter, Hardware, vars
  <2> QED BY <2>1, SameQueues
<1> QED BY <1>1, <1>2, <1>3, <1>4, <1>5, <1>6, <1>7, <1>8, <1>9, <1>10, <1>11,
           <1>12, <1>13, <1>14 DEF Next, Call, InCall, SerIrq

\* Without breaks, the two rings that the main thread and the handler change
\* without a lock are the two bounded queues of SerQueues, whatever the size of
\* the rings: no byte is lost, duplicated, reordered or read before it is
\* written, ring wrap and all.  A break is excluded because the code does not
\* keep the promise there: it empties the rings under a ser_put or ser_get
\* that has already tested them.
THEOREM RingsAreQueues ==
    ASSUME "Break" \notin Faults
    PROVE  Spec => ImplementsQueues
<1>1. IInv /\ RingInv /\ [Next]_vars => RingInv'
  BY PutStep, GetStep, ShutStep, WireStep DEF RingInv
<1>2. Spec => [](IInv /\ RingInv)
  BY InitIInv, InitRingInv, Inductive, <1>1, PTL DEF Spec
<1> QED BY <1>2, RefinesInit, RefinesStep, PTL DEF Spec, ImplementsQueues, Queues!Spec
=============================================================================
