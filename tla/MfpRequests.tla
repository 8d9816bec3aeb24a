------------------------------ MODULE MfpRequests ------------------------------
(***************************************************************************)
(* The transmit queue towards the main control box as a value: a sequence  *)
(* of requests, each the key to send and how many transmissions of it are  *)
(* still due.  Every producer of the firmware (BLE application keys,       *)
(* offline voice, snore intervention) hands its frames to this queue, and  *)
(* every valid frame of the main box sends one frame from its front.       *)
(*                                                                         *)
(* These operators are what mfp_queue.c promises; MfpFifo turns them into  *)
(* a specification and MfpQueue, the ring buffer of the code, implements   *)
(* it.  The other modules use the operators, several in one step where a   *)
(* handler makes several calls.                                            *)
(***************************************************************************)
EXTENDS Naturals, Sequences

CONSTANT MAX_ITEMS      \* MFP_TX_QUEUE_MAX_ITEMS, 8 in the code

ASSUME MaxItemsAssumption == MAX_ITEMS \in Nat \ {0}

\* A request for `n` transmissions of `key` (mfp_tx_request_t; the frame bytes
\* built by prepare_mfp_* are abstracted to the key they carry).
Request(key, n) == [key |-> key, left |-> n]

\* mfp_send_request: a full queue refuses the request, silently for the caller
\* of prepare_mfp_*, which only logs.
Enqueue(q, r) == IF Len(q) < MAX_ITEMS THEN Append(q, r) ELSE q

\* mfp_tx_task has something to transmit: a head whose count is zero is passed
\* over without being removed.
HasFrame(q) == q # <<>> /\ Head(q).left > 0

\* The queue after mfp_tx_task: the head's count drops, and it leaves at zero.
Transmit(q) ==
    IF ~HasFrame(q) THEN q
    ELSE IF Head(q).left = 1 THEN Tail(q)
    ELSE [q EXCEPT ![1].left = @ - 1]

\* Some queued request carries `key`.
Holds(q, key) == \E i \in DOMAIN q : q[i].key = key
================================================================================
