------------------------------ MODULE SerQueues ------------------------------
(***************************************************************************)
(* What the ComLynx library promises a program: two bounded queues, one    *)
(* for each direction.  A byte put is handed to the UART once, in order;   *)
(* a byte taken from the UART is handed to the program once, in order, or  *)
(* dropped because the queue is full; only closing the port drops the      *)
(* rest.                                                                   *)
(***************************************************************************)
EXTENDS Integers, Sequences

CONSTANTS Byte,                   \* what travels over the wire
          Capacity                \* bytes a queue holds (255 in the source)

VARIABLES txq, rxq,               \* the two queues
          sent,                   \* last byte handed to the UART
          taken,                  \* byte the handler took from the UART
          got                     \* last byte handed to the program

queues == <<txq, rxq, sent, taken, got>>

Init == txq = <<>> /\ rxq = <<>> /\ sent = 0 /\ taken = 0 /\ got = 0

Put == /\ Len(txq) < Capacity
       /\ \E b \in Byte : txq' = txq \o <<b>>
       /\ UNCHANGED <<rxq, sent, taken, got>>

Send == /\ txq # <<>>
        /\ sent' = Head(txq)
        /\ txq' = Tail(txq)
        /\ UNCHANGED <<rxq, taken, got>>

Take == /\ taken' \in Byte
        /\ UNCHANGED <<txq, rxq, sent, got>>

Receive == /\ Len(rxq) < Capacity
           /\ rxq' = rxq \o <<taken>>
           /\ taken' = 0
           /\ UNCHANGED <<txq, sent, got>>

Discard == /\ taken' = 0
           /\ UNCHANGED <<txq, rxq, sent, got>>

Get == /\ rxq # <<>>
       /\ got' = Head(rxq)
       /\ rxq' = Tail(rxq)
       /\ UNCHANGED <<txq, sent, taken>>

Drop == /\ txq' = <<>> /\ rxq' = <<>>
        /\ UNCHANGED <<sent, taken, got>>

Next == Put \/ Send \/ Take \/ Receive \/ Discard \/ Get \/ Drop

Spec == Init /\ [][Next]_queues
=============================================================================
