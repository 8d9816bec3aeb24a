-------------------------------- MODULE MfpQueue -------------------------------
(***************************************************************************)
(* mfp_queue.c: the transmit queue as the ring buffer the code keeps, a    *)
(* fixed array of slots with head, tail and count.  Producers and the      *)
(* transmitter all run in the main loop, so each function is one action.   *)
(***************************************************************************)
EXTENDS Naturals, Sequences

CONSTANTS
    MAX_ITEMS,      \* MFP_TX_QUEUE_MAX_ITEMS
    DATA_MAX_LEN,   \* MFP_TX_DATA_MAX_LEN
    Keys,           \* the key values the producers send
    Lens,           \* the frame lengths they hand over
    Repeats,        \* the repeat counts they ask for
    NoFrame         \* no frame sent yet, and the content of a slot never written

ASSUME QueueAssumption ==
    /\ MAX_ITEMS \in Nat \ {0}
    /\ DATA_MAX_LEN \in Nat
    /\ Lens \subseteq Nat
    /\ Repeats \subseteq Nat \ {0}

VARIABLES
    tx_queue,       \* the slots: what each one was last written
    head, tail, count,
    wire            \* the key of the last frame transmitted on UART1

vars == <<tx_queue, head, tail, count, wire>>

Slots == 0 .. MAX_ITEMS - 1

\* What a slot can hold: a request, or the zeroed storage of the static array.
Empty == [key |-> NoFrame, left |-> 0]
Entry == [key : Keys \cup {NoFrame}, left : Nat]

TypeOK ==
    /\ tx_queue \in [Slots -> Entry]
    /\ head \in Slots
    /\ tail \in Slots
    /\ count \in 0 .. MAX_ITEMS
    /\ wire \in Keys \cup {NoFrame}

Init ==
    /\ tx_queue = [s \in Slots |-> Empty]
    /\ head = 0 /\ tail = 0 /\ count = 0
    /\ wire = NoFrame

--------------------------------------------------------------------------------
\* A full queue, or a frame longer than a slot, returns false and leaves no trace.
mfp_send_request(k, len, n) ==
    /\ count < MAX_ITEMS /\ len <= DATA_MAX_LEN
    /\ tx_queue' = [tx_queue EXCEPT ![tail] = [key |-> k, left |-> n]]
    /\ tail' = (tail + 1) % MAX_ITEMS
    /\ count' = count + 1
    /\ UNCHANGED <<head, wire>>

\* mutant: clearing forgets the write index.
ClearKeepsTail ==
    /\ head' = 0 /\ count' = 0
    /\ UNCHANGED <<tail, tx_queue, wire>>

\* The slots keep their old content: only the indices are reset.
mfp_tx_queue_clear ==
    /\ head' = 0 /\ tail' = 0 /\ count' = 0
    /\ UNCHANGED <<tx_queue, wire>>

\* mutant: a request that came with a repeat count is sent for ever.
TaskKeepsCount ==
    /\ count > 0
    /\ tx_queue[head].left > 0
    /\ wire' = tx_queue[head].key
    /\ UNCHANGED <<tx_queue, head, tail, count>>

\* One transmission of the head; the slot is released with its last one.
mfp_tx_task ==
    /\ count > 0
    /\ tx_queue[head].left > 0
    /\ wire' = tx_queue[head].key
    /\ tx_queue' = [tx_queue EXCEPT ![head].left = @ - 1]
    /\ IF tx_queue[head].left = 1
       THEN head' = (head + 1) % MAX_ITEMS /\ count' = count - 1
       ELSE UNCHANGED <<head, count>>
    /\ UNCHANGED tail

Next ==
    \/ \E k \in Keys, len \in Lens, n \in Repeats : mfp_send_request(k, len, n)
    \/ mfp_tx_queue_clear
    \/ mfp_tx_task

\* The main box polls the dock periodically and each valid poll runs mfp_tx_task
\* (x_uart1_dateReceiveHandle), so a task that stays enabled runs.
Spec == Init /\ [][Next]_vars /\ WF_vars(mfp_tx_task)

--------------------------------------------------------------------------------
\* The indices agree with each other, and every queued slot still has
\* transmissions due: the transmitter passes over a head with none without
\* removing it (mfp_queue.c:50), which would block the queue behind it for ever.
Offset(i) == (head + i) % MAX_ITEMS

RingInv ==
    /\ tail = (head + count) % MAX_ITEMS
    /\ \A i \in 0 .. count - 1 :
          tx_queue[Offset(i)].left > 0 /\ tx_queue[Offset(i)].key \in Keys

\* The queue the ring stands for, oldest request first.
Pending == [i \in 1 .. count |-> tx_queue[Offset(i - 1)]]

\* The ring buffer is a first-in first-out queue: it loses, duplicates and
\* reorders nothing when its indices wrap, and a clear leaves no old request
\* behind (mfp_queue.c:17-65).
Fifo == INSTANCE MfpFifo WITH pending <- Pending
ImplementsFifo == Fifo!Spec

\* Whatever is queued, the slot at the head is sent out and released, or the
\* queue is cleared: one request cannot hold up those behind it.
HeadLeaves == \A s \in Slots :
    (head = s /\ count > 0) ~> (head # s \/ count = 0)
================================================================================
