-------------------------------- MODULE MfpFifo --------------------------------
(***************************************************************************)
(* What the transmit queue promises its callers: requests leave in the     *)
(* order in which they were accepted, each after exactly as many           *)
(* transmissions as it asked for and with no other frame between them, and *)
(* only a clear takes a request away early.                                *)
(***************************************************************************)
EXTENDS MfpRequests

CONSTANTS
    Keys,       \* the key values the producers send
    Repeats,    \* the repeat counts they ask for: 1, 2, 3, 15 and 30 in the code
    NoFrame     \* the wire before the first transmission

VARIABLES
    pending,    \* the accepted requests, oldest first
    wire        \* the key of the last frame on UART1

vars == <<pending, wire>>

Init == pending = <<>> /\ wire = NoFrame

Submit(k, n) ==
    /\ pending' = Enqueue(pending, Request(k, n))
    /\ UNCHANGED wire

Clear == pending' = <<>> /\ UNCHANGED wire

Send ==
    /\ HasFrame(pending)
    /\ wire' = Head(pending).key
    /\ pending' = Transmit(pending)

Next ==
    \/ \E k \in Keys, n \in Repeats : Submit(k, n)
    \/ Clear
    \/ Send

Spec == Init /\ [][Next]_vars
================================================================================
