----------------------------- MODULE UartLink_proofs ---------------------------
(***************************************************************************)
(* First the transmit queue, for every queue size, key set and repeat      *)
(* count: the ring buffer's indices stay consistent, and the ring buffer   *)
(* implements the first-in first-out queue of MfpFifo.                     *)
(*                                                                         *)
(* Then a serial line, which uses the queue, for every length of frame and *)
(* buffer, every timeout and any number of faults: what is handled is one  *)
(* whole frame, a frame on a quiet line is handled once, and a quiet line  *)
(* has an empty buffer, whatever steps of the handler the interrupt falls  *)
(* between.                                                                *)
(***************************************************************************)
EXTENDS UartLink, SequenceTheorems, TLAPS

USE QueueAssumption

--------------------------------------------------------------------------------
(* Arithmetic of the ring.                                                  *)

\* Below the size, the remainder is the number itself.
LEMMA ModSmall ==
    ASSUME NEW a \in Nat, a < MAX_ITEMS
    PROVE  a % MAX_ITEMS = a
BY SMT

\* One turn round the ring: the remainder drops by the size.
LEMMA ModOneTurn ==
    ASSUME NEW a \in Nat, a >= MAX_ITEMS, a < 2 * MAX_ITEMS
    PROVE  a % MAX_ITEMS = a - MAX_ITEMS
BY SMT

\* The remainder of an index that goes past the end at most once.
LEMMA ModCases ==
    ASSUME NEW a \in Nat, a < 2 * MAX_ITEMS
    PROVE  a % MAX_ITEMS = IF a < MAX_ITEMS THEN a ELSE a - MAX_ITEMS
BY ModSmall, ModOneTurn

\* Advancing the start of the ring by one and counting i from there is counting
\* i + 1 from the old start.
LEMMA NextTurn ==
    ASSUME NEW h \in 0 .. MAX_ITEMS - 1, NEW i \in 0 .. MAX_ITEMS - 1
    PROVE  (((h + 1) % MAX_ITEMS) + i) % MAX_ITEMS = (h + (i + 1)) % MAX_ITEMS
<1>1. CASE h + 1 < MAX_ITEMS
    <2>1. (h + 1) % MAX_ITEMS = h + 1
        BY <1>1, ModSmall
    <2> QED BY <2>1
<1>2. CASE h + 1 = MAX_ITEMS
    <2>1. (h + 1) % MAX_ITEMS = 0
        BY <1>2, ModOneTurn
    <2>2. i % MAX_ITEMS = i
        BY ModSmall
    <2>3. (h + (i + 1)) % MAX_ITEMS = (h + (i + 1)) - MAX_ITEMS
        <3>1. h + (i + 1) \in Nat /\ h + (i + 1) >= MAX_ITEMS /\ h + (i + 1) < 2 * MAX_ITEMS
            BY <1>2
        <3> QED BY <3>1, ModOneTurn
    <2> QED BY <1>2, <2>1, <2>2, <2>3
<1> QED BY <1>1, <1>2

--------------------------------------------------------------------------------
(* The indices.                                                             *)

\* The inductive invariant: the types and the ring's consistency.
IInv == TypeOK /\ RingInv

LEMMA InitIInv == Init => IInv
<1> SUFFICES ASSUME Init PROVE IInv
    OBVIOUS
<1>1. TypeOK
    BY DEF Init, TypeOK, Slots, Entry, Empty
<1>2. RingInv
    <2>1. (0 + 0) % MAX_ITEMS = 0
        BY ModSmall
    <2> QED BY <2>1 DEF Init, RingInv
<1> QED BY <1>1, <1>2 DEF IInv

\* A queued offset, in terms of the head.
LEMMA OffsetCases ==
    ASSUME TypeOK, NEW i \in 0 .. MAX_ITEMS
    PROVE  /\ Offset(i) = IF head + i < MAX_ITEMS THEN head + i
                          ELSE head + i - MAX_ITEMS
           /\ Offset(i) \in Slots
<1>1. head \in Nat /\ head < MAX_ITEMS /\ head + i \in Nat /\ head + i < 2 * MAX_ITEMS
    BY DEF TypeOK, Slots
<1>2. Offset(i) = IF head + i < MAX_ITEMS THEN head + i ELSE head + i - MAX_ITEMS
    BY <1>1, ModCases DEF Offset
<1> QED BY <1>1, <1>2 DEF Slots

\* Accepting a request writes the free slot after the last queued one.
LEMMA SubmitIInv ==
    ASSUME IInv, NEW k \in Keys, NEW len \in Lens, NEW n \in Repeats,
           mfp_send_request(k, len, n)
    PROVE  IInv'
<1> USE DEF IInv
<1>1. count \in 0 .. MAX_ITEMS - 1 /\ n \in Nat \ {0}
    BY DEF mfp_send_request, TypeOK
<1>2. (tail + 1) % MAX_ITEMS = IF tail + 1 < MAX_ITEMS THEN tail + 1 ELSE 0
    <2>1. tail \in Nat /\ tail + 1 \in Nat /\ tail + 1 < 2 * MAX_ITEMS /\ tail < MAX_ITEMS
        BY DEF TypeOK, Slots
    <2>2. (tail + 1) % MAX_ITEMS = IF tail + 1 < MAX_ITEMS THEN tail + 1
                                   ELSE (tail + 1) - MAX_ITEMS
        BY <2>1, ModCases
    <2> QED BY <2>1, <2>2
<1>3. TypeOK'
    BY <1>1, <1>2 DEF mfp_send_request, TypeOK, Slots, Entry
<1>4. tail = Offset(count)
    BY DEF RingInv, Offset
<1>5. tail' = Offset(count + 1)
    <2>1. Offset(count) = IF head + count < MAX_ITEMS THEN head + count
                          ELSE head + count - MAX_ITEMS
        BY <1>1, OffsetCases
    <2>2. Offset(count + 1) = IF head + (count + 1) < MAX_ITEMS THEN head + (count + 1)
                              ELSE head + (count + 1) - MAX_ITEMS
        BY <1>1, OffsetCases
    <2>3. head \in Slots /\ tail' = (tail + 1) % MAX_ITEMS
        BY DEF TypeOK, mfp_send_request
    <2> QED BY <1>1, <1>2, <1>4, <2>1, <2>2, <2>3 DEF Slots
<1>6. ASSUME NEW i \in 0 .. count - 1
      PROVE  Offset(i) # tail
    <2>1. Offset(i) = IF head + i < MAX_ITEMS THEN head + i ELSE head + i - MAX_ITEMS
        BY <1>1, OffsetCases
    <2>2. Offset(count) = IF head + count < MAX_ITEMS THEN head + count
                          ELSE head + count - MAX_ITEMS
        BY <1>1, OffsetCases
    <2>3. head \in Slots
        BY DEF TypeOK
    <2> QED BY <1>1, <1>4, <2>1, <2>2, <2>3 DEF Slots
<1>7. ASSUME NEW i \in 0 .. count' - 1
      PROVE  tx_queue'[Offset(i)'].left > 0 /\ tx_queue'[Offset(i)'].key \in Keys
    <2>1. Offset(i)' = Offset(i) /\ Offset(i) \in Slots /\ count' = count + 1
        BY <1>1, OffsetCases DEF mfp_send_request, Offset
    <2>2. CASE i = count
        BY <1>1, <1>4, <2>1, <2>2 DEF mfp_send_request, TypeOK
    <2>3. CASE i # count
        <3>1. i \in 0 .. count - 1
            BY <1>1, <2>1, <2>3
        <3>2. tx_queue'[Offset(i)] = tx_queue[Offset(i)]
            BY <1>6, <2>1, <3>1 DEF mfp_send_request, TypeOK
        <3> QED BY <2>1, <3>1, <3>2 DEF RingInv
    <2> QED BY <2>2, <2>3
<1>8. tail' = (head' + count') % MAX_ITEMS
    BY <1>5 DEF mfp_send_request, Offset
<1> QED BY <1>3, <1>7, <1>8 DEF RingInv

\* A clear resets the indices and leaves the slots alone.
LEMMA ClearIInv ==
    ASSUME IInv, mfp_tx_queue_clear
    PROVE  IInv'
<1>1. TypeOK'
    BY DEF IInv, mfp_tx_queue_clear, TypeOK, Slots
<1>2. (0 + 0) % MAX_ITEMS = 0
    BY ModSmall
<1>3. RingInv'
    BY <1>2 DEF mfp_tx_queue_clear, RingInv
<1> QED BY <1>1, <1>3 DEF IInv

\* The head is a queued slot.
LEMMA HeadQueued ==
    ASSUME IInv, count > 0
    PROVE  /\ Offset(0) = head
           /\ tx_queue[head] \in Entry
           /\ tx_queue[head].left \in Nat \ {0}
           /\ tx_queue[head].key \in Keys
<1>1. Offset(0) = head
    BY OffsetCases DEF IInv, TypeOK, Slots
<1>2. 0 \in 0 .. count - 1
    BY DEF IInv, TypeOK
<1>3. tx_queue[head] \in Entry
    BY DEF IInv, TypeOK
<1>4. tx_queue[head].left > 0 /\ tx_queue[head].key \in Keys
    BY <1>1, <1>2 DEF IInv, RingInv
<1>5. tx_queue[head].left \in Nat
    BY <1>3 DEF Entry
<1> QED BY <1>1, <1>3, <1>4, <1>5

\* One transmission: the head's count drops, and a head that is done leaves.
LEMMA TaskIInv ==
    ASSUME IInv, mfp_tx_task
    PROVE  IInv'
<1>1. /\ count \in 1 .. MAX_ITEMS
      /\ head \in Slots /\ tail \in Slots
      /\ tx_queue \in [Slots -> Entry]
      /\ wire \in Keys \cup {NoFrame}
    BY DEF IInv, TypeOK, mfp_tx_task
<1>2. /\ tx_queue[head] \in Entry
      /\ tx_queue[head].left \in Nat \ {0}
      /\ tx_queue[head].key \in Keys
      /\ Offset(0) = head
    BY <1>1, HeadQueued
<1>3. tx_queue' = [tx_queue EXCEPT ![head] =
                      [key |-> tx_queue[head].key, left |-> tx_queue[head].left - 1]]
    <2>1. [tx_queue[head] EXCEPT !.left = @ - 1]
             = [key |-> tx_queue[head].key, left |-> tx_queue[head].left - 1]
        BY <1>2 DEF Entry
    <2>2. tx_queue' = [tx_queue EXCEPT ![head] = [tx_queue[head] EXCEPT !.left = @ - 1]]
        BY <1>1, <1>2 DEF mfp_tx_task
    <2> QED BY <2>1, <2>2
<1>4. tx_queue' \in [Slots -> Entry] /\ wire' \in Keys \cup {NoFrame} /\ tail' = tail
    <2> DEFINE e == [key |-> tx_queue[head].key, left |-> tx_queue[head].left - 1]
    <2>1. e \in Entry
        BY <1>2 DEF Entry
    <2>2. wire' = tx_queue[head].key /\ tail' = tail
        BY DEF mfp_tx_task
    <2>3. tx_queue' = [tx_queue EXCEPT ![head] = e]
        BY <1>3
    <2> HIDE DEF e
    <2> QED BY <1>1, <1>2, <2>1, <2>2, <2>3
<1>5. tail = Offset(count)
    BY DEF IInv, RingInv, Offset
<1>6. CASE tx_queue[head].left = 1
    <2>1. head' = (head + 1) % MAX_ITEMS /\ count' = count - 1
        BY <1>6 DEF mfp_tx_task
    <2>2. head' = Offset(1)
        BY <2>1 DEF Offset
    <2>3. Offset(1) = (IF head + 1 < MAX_ITEMS THEN head + 1 ELSE head + 1 - MAX_ITEMS)
          /\ Offset(1) \in Slots
        BY <1>1, OffsetCases DEF IInv
    <2>4. TypeOK'
        BY <1>1, <1>4, <2>1, <2>2, <2>3 DEF TypeOK
    <2>5. ASSUME NEW i \in 0 .. count'
          PROVE  Offset(i)' = Offset(i + 1)
        <3>1. i \in 0 .. MAX_ITEMS - 1
            BY <1>1, <2>1
        <3>2. (((head + 1) % MAX_ITEMS) + i) % MAX_ITEMS = (head + (i + 1)) % MAX_ITEMS
            BY <1>1, <3>1, NextTurn DEF Slots
        <3>3. Offset(i)' = (((head + 1) % MAX_ITEMS) + i) % MAX_ITEMS
            BY <2>1, Zenon DEF Offset
        <3> QED BY <3>2, <3>3, Zenon DEF Offset
    <2>6. tail' = (head' + count') % MAX_ITEMS
        BY <1>1, <1>4, <1>5, <2>1, <2>5 DEF Offset
    <2>7. ASSUME NEW i \in 0 .. count' - 1
          PROVE  tx_queue'[Offset(i)'].left > 0 /\ tx_queue'[Offset(i)'].key \in Keys
        <3>1. Offset(i)' = Offset(i + 1) /\ i + 1 \in 0 .. count - 1
            BY <1>1, <2>1, <2>5
        <3>2. Offset(i + 1) # head /\ Offset(i + 1) \in Slots
            <4>1. i + 1 \in 0 .. MAX_ITEMS
                BY <1>1, <3>1
            <4>2. /\ Offset(i + 1) = IF head + (i + 1) < MAX_ITEMS THEN head + (i + 1)
                                     ELSE head + (i + 1) - MAX_ITEMS
                  /\ Offset(i + 1) \in Slots
                BY <4>1, OffsetCases DEF IInv
            <4> QED BY <1>1, <3>1, <4>2 DEF Slots
        <3>3. tx_queue'[Offset(i + 1)] = tx_queue[Offset(i + 1)]
            BY <1>1, <1>3, <3>2
        <3> QED BY <3>1, <3>3 DEF IInv, RingInv
    <2> QED BY <2>4, <2>6, <2>7 DEF IInv, RingInv
<1>7. CASE tx_queue[head].left # 1
    <2>1. head' = head /\ count' = count
        BY <1>7 DEF mfp_tx_task
    <2>2. TypeOK'
        BY <1>1, <1>4, <2>1 DEF TypeOK
    <2>3. ASSUME NEW i \in 0 .. count' - 1
          PROVE  tx_queue'[Offset(i)'].left > 0 /\ tx_queue'[Offset(i)'].key \in Keys
        <3>1. Offset(i)' = Offset(i)
            BY <2>1 DEF Offset
        <3>2. Offset(i) \in Slots
            BY <1>1, <2>1, OffsetCases DEF IInv
        <3>3. CASE Offset(i) = head
            BY <1>1, <1>2, <1>3, <1>7, <3>1, <3>3
        <3>4. CASE Offset(i) # head
            <4>1. tx_queue'[Offset(i)] = tx_queue[Offset(i)]
                BY <1>1, <1>3, <3>2, <3>4
            <4> QED BY <2>1, <3>1, <4>1 DEF IInv, RingInv
        <3> QED BY <3>3, <3>4
    <2>4. tail' = (head' + count') % MAX_ITEMS
        BY <1>4, <2>1 DEF IInv, RingInv
    <2> QED BY <2>2, <2>3, <2>4 DEF IInv, RingInv
<1> QED BY <1>6, <1>7

\* The invariant needs the queue's steps only, not the fairness of the transmitter.
LEMMA RingAlways == Init /\ [][Next]_vars => []IInv
<1>1. Init => IInv
    BY InitIInv
<1>2. IInv /\ [Next]_vars => IInv'
    <2> SUFFICES ASSUME IInv, [Next]_vars PROVE IInv'
        OBVIOUS
    <2>1. ASSUME NEW k \in Keys, NEW len \in Lens, NEW n \in Repeats,
                 mfp_send_request(k, len, n)
          PROVE  IInv'
        BY <2>1, SubmitIInv
    <2>2. CASE mfp_tx_queue_clear
        BY <2>2, ClearIInv
    <2>3. CASE mfp_tx_task
        BY <2>3, TaskIInv
    <2>4. CASE UNCHANGED vars
        BY <2>4 DEF vars, IInv, TypeOK, RingInv, Offset
    <2> QED BY <2>1, <2>2, <2>3, <2>4 DEF Next
<1> QED BY <1>1, <1>2, PTL

\* The ring's consistency for every behaviour: mfp_queue.c keeps its indices
\* right and never leaves a request without transmissions at the head.
THEOREM RingCorrect == Spec => [](TypeOK /\ RingInv)
BY RingAlways, PTL DEF Spec, IInv

--------------------------------------------------------------------------------
(* The ring buffer implements the queue.                                    *)

\* The queue the ring stands for is a sequence of requests.
LEMMA PendingSeq ==
    ASSUME TypeOK
    PROVE  /\ Pending \in Seq(Entry)
           /\ Len(Pending) = count
           /\ \A i \in 1 .. count : Pending[i] = tx_queue[Offset(i - 1)]
<1>1. count \in 0 .. MAX_ITEMS /\ tx_queue \in [Slots -> Entry]
    BY DEF TypeOK
<1>2. ASSUME NEW i \in 1 .. count
      PROVE  tx_queue[Offset(i - 1)] \in Entry
    <2>1. i - 1 \in 0 .. MAX_ITEMS
        BY <1>1
    <2>2. Offset(i - 1) \in Slots
        BY <2>1, OffsetCases
    <2> QED BY <1>1, <2>2
<1>3. Pending \in [1 .. count -> Entry]
    BY <1>2 DEF Pending
<1>4. count \in Nat
    BY <1>1
<1>5. Pending \in Seq(Entry) /\ Len(Pending) = count
    BY <1>3, <1>4
<1> QED BY <1>5 DEF Pending

LEMMA InitFifo == Init => Fifo!Init
BY DEF Init, Fifo!Init, Pending

\* Accepting a request appends it.
LEMMA SubmitFifo ==
    ASSUME IInv, IInv', NEW k \in Keys, NEW len \in Lens, NEW n \in Repeats,
           mfp_send_request(k, len, n)
    PROVE  Fifo!Submit(k, n)
<1> DEFINE r == [key |-> k, left |-> n]
<1>1. /\ count \in 0 .. MAX_ITEMS - 1 /\ count' = count + 1
      /\ tail \in Slots /\ tail = Offset(count)
      /\ tx_queue \in [Slots -> Entry]
      /\ tx_queue' = [tx_queue EXCEPT ![tail] = r]
      /\ head' = head /\ wire' = wire
    BY DEF IInv, TypeOK, RingInv, Offset, mfp_send_request
<1>2. /\ Pending \in Seq(Entry) /\ Len(Pending) = count
      /\ \A i \in 1 .. count : Pending[i] = tx_queue[Offset(i - 1)]
    BY PendingSeq DEF IInv
<1>3. Pending' = [i \in 1 .. count + 1 |-> tx_queue'[Offset(i - 1)]]
    BY <1>1 DEF Pending, Offset
<1>4. r \in Entry
    BY DEF Entry
<1>5. ASSUME NEW i \in 1 .. count
      PROVE  tx_queue'[Offset(i - 1)] = Pending[i]
    <2>1. i - 1 \in 0 .. count - 1 /\ i - 1 \in 0 .. MAX_ITEMS /\ count \in 0 .. MAX_ITEMS
        BY <1>1
    <2>2. /\ Offset(i - 1) = IF head + (i - 1) < MAX_ITEMS THEN head + (i - 1)
                             ELSE head + (i - 1) - MAX_ITEMS
          /\ Offset(i - 1) \in Slots
        BY <2>1, OffsetCases DEF IInv
    <2>3. Offset(count) = IF head + count < MAX_ITEMS THEN head + count
                          ELSE head + count - MAX_ITEMS
        BY <2>1, OffsetCases DEF IInv
    <2>4. head \in Slots
        BY DEF IInv, TypeOK
    <2>5. Offset(i - 1) # tail
        BY <1>1, <2>1, <2>2, <2>3, <2>4 DEF Slots
    <2> QED BY <1>1, <1>2, <2>2, <2>5
<1>6. tx_queue'[Offset((count + 1) - 1)] = r
    BY <1>1
<1>7. Pending' = Append(Pending, r)
    <2>1. ASSUME NEW i \in 1 .. count + 1
          PROVE  tx_queue'[Offset(i - 1)] = Append(Pending, r)[i]
        <3>1. CASE i \in 1 .. count
            BY <1>2, <1>4, <1>5, <3>1
        <3>2. CASE i = count + 1
            BY <1>1, <1>2, <1>4, <1>6, <3>2
        <3>3. i \in 1 .. count \/ i = count + 1
            BY <1>1
        <3> QED BY <3>1, <3>2, <3>3, Zenon
    <2>2. Append(Pending, r) = [i \in 1 .. count + 1 |-> Append(Pending, r)[i]]
        BY <1>1, <1>2, <1>4
    <2> QED BY <1>3, <2>1, <2>2
<1> QED BY <1>1, <1>2, <1>7 DEF Fifo!Submit, Fifo!Enqueue, Fifo!Request

\* A clear empties it.
LEMMA ClearFifo ==
    ASSUME mfp_tx_queue_clear
    PROVE  Fifo!Clear
<1>1. count' = 0 /\ wire' = wire
    BY DEF mfp_tx_queue_clear
<1>2. Pending' = <<>>
    BY <1>1 DEF Pending
<1> QED BY <1>1, <1>2 DEF Fifo!Clear

\* A transmission sends the front's key, and the front leaves with its last one.
LEMMA TaskFifo ==
    ASSUME IInv, IInv', mfp_tx_task
    PROVE  Fifo!Send
<1>1. /\ count \in 1 .. MAX_ITEMS /\ count' \in 0 .. MAX_ITEMS
      /\ head \in Slots /\ tx_queue \in [Slots -> Entry]
    BY DEF IInv, TypeOK, mfp_tx_task
<1>2. /\ tx_queue[head] \in Entry
      /\ tx_queue[head].left \in Nat \ {0}
      /\ Offset(0) = head
    BY <1>1, HeadQueued
<1>3. /\ Pending \in Seq(Entry) /\ Len(Pending) = count
      /\ \A i \in 1 .. count : Pending[i] = tx_queue[Offset(i - 1)]
    BY PendingSeq DEF IInv
<1>4. Pending # <<>> /\ Head(Pending) = tx_queue[head] /\ Pending[1] = tx_queue[head]
    <2>1. Pending[1] = tx_queue[Offset(1 - 1)]
        BY <1>1, <1>3
    <2> QED BY <1>1, <1>2, <1>3, <2>1
<1>5. Fifo!HasFrame(Pending) /\ wire' = Head(Pending).key
    BY <1>2, <1>4 DEF Fifo!HasFrame, mfp_tx_task
<1>6. ASSUME NEW i \in 1 .. count - 1
      PROVE  tx_queue'[Offset(i)] = tx_queue[Offset(i)]
    <2>1. i \in 0 .. MAX_ITEMS
        BY <1>1
    <2>2. /\ Offset(i) = IF head + i < MAX_ITEMS THEN head + i ELSE head + i - MAX_ITEMS
          /\ Offset(i) \in Slots
        BY <2>1, OffsetCases DEF IInv
    <2>3. Offset(i) # head
        BY <1>1, <2>2 DEF Slots
    <2> QED BY <1>1, <2>2, <2>3 DEF mfp_tx_task
<1>7. CASE tx_queue[head].left = 1
    <2>1. head' = (head + 1) % MAX_ITEMS /\ count' = count - 1
        BY <1>7 DEF mfp_tx_task
    <2>2. Pending' = [i \in 1 .. count - 1 |-> tx_queue'[Offset(i - 1)']]
        BY <2>1 DEF Pending
    <2>3. ASSUME NEW i \in 1 .. count - 1
          PROVE  tx_queue'[Offset(i - 1)'] = Tail(Pending)[i]
        <3>1. i - 1 \in 0 .. MAX_ITEMS - 1 /\ (i - 1) + 1 = i /\ i + 1 \in 1 .. count
              /\ (i + 1) - 1 = i
            BY <1>1
        <3>2. (((head + 1) % MAX_ITEMS) + (i - 1)) % MAX_ITEMS = (head + i) % MAX_ITEMS
            BY <1>1, <3>1, NextTurn DEF Slots
        <3>3. Offset(i - 1)' = Offset(i)
            BY <2>1, <3>2, Zenon DEF Offset
        <3>4. Pending[i + 1] = tx_queue[Offset(i)]
            BY <1>3, <3>1
        <3>5. Tail(Pending)[i] = Pending[i + 1]
            BY <1>1, <1>3
        <3> QED BY <1>6, <3>3, <3>4, <3>5
    <2>4. Tail(Pending) = [i \in 1 .. count - 1 |-> Tail(Pending)[i]]
        <3>1. Tail(Pending) \in Seq(Entry) /\ Len(Tail(Pending)) = count - 1
            BY <1>1, <1>3, <1>4
        <3>2. Tail(Pending) \in [1 .. count - 1 -> Entry]
            BY <3>1, LenProperties
        <3> QED BY <3>2
    <2>5. Pending' = Tail(Pending)
        BY <2>2, <2>3, <2>4
    <2> QED BY <1>4, <1>5, <1>7, <2>5 DEF Fifo!Send, Fifo!Transmit
<1>8. CASE tx_queue[head].left # 1
    <2> DEFINE r == [tx_queue[head] EXCEPT !.left = @ - 1]
    <2>1. head' = head /\ count' = count
        BY <1>8 DEF mfp_tx_task
    <2>2. Pending' = [i \in 1 .. count |-> tx_queue'[Offset(i - 1)]]
        BY <2>1 DEF Pending, Offset
    <2>3. tx_queue'[head] = r
        BY <1>1 DEF mfp_tx_task
    <2>4. [Pending EXCEPT ![1].left = @ - 1] = [Pending EXCEPT ![1] = r]
        BY <1>4
    <2>5. ASSUME NEW i \in 1 .. count
          PROVE  tx_queue'[Offset(i - 1)] = [Pending EXCEPT ![1] = r][i]
        <3>1. CASE i = 1
            BY <1>1, <1>2, <1>3, <2>3, <3>1
        <3>2. CASE i # 1
            <4>1. i - 1 \in 1 .. count - 1
                BY <1>1, <3>2
            <4> QED BY <1>3, <1>6, <3>2, <4>1
        <3> QED BY <3>1, <3>2
    <2>6. Pending' = [Pending EXCEPT ![1] = r]
        <3>1. DOMAIN Pending = 1 .. count
            BY DEF Pending
        <3> QED BY <2>2, <2>5, <3>1
    <2> QED BY <1>4, <1>5, <1>8, <2>4, <2>6 DEF Fifo!Send, Fifo!Transmit
<1> QED BY <1>7, <1>8

\* Each step of the ring is a step of the queue it stands for, or none.
LEMMA RingStepsAreFifo == Init /\ [][Next]_vars => ImplementsFifo
<1>1. Init => Fifo!Init
    BY InitFifo
<1>2. IInv /\ IInv' /\ [Next]_vars => [Fifo!Next]_(Fifo!vars)
    <2> SUFFICES ASSUME IInv, IInv', [Next]_vars PROVE [Fifo!Next]_(Fifo!vars)
        OBVIOUS
    <2>1. ASSUME NEW k \in Keys, NEW len \in Lens, NEW n \in Repeats,
                 mfp_send_request(k, len, n)
          PROVE  Fifo!Next
        BY <2>1, SubmitFifo DEF Fifo!Next
    <2>2. CASE mfp_tx_queue_clear
        BY <2>2, ClearFifo DEF Fifo!Next
    <2>3. CASE mfp_tx_task
        BY <2>3, TaskFifo DEF Fifo!Next
    <2>4. CASE UNCHANGED vars
        BY <2>4 DEF vars, Fifo!vars, Pending, Offset
    <2> QED BY <2>1, <2>2, <2>3, <2>4 DEF Next
<1> QED BY <1>1, <1>2, RingAlways, PTL DEF ImplementsFifo, Fifo!Spec

\* The ring buffer is the first-in first-out queue it stands for: no request is
\* lost, doubled or overtaken when the indices wrap (mfp_queue.c:17-65).
THEOREM RingImplementsFifo == Spec => ImplementsFifo
BY RingStepsAreFifo, PTL DEF Spec

--------------------------------------------------------------------------------
(* The line: the inductive invariant.                                       *)

Tasks == {"idle", "load", "store", "quiet", "wipe", "full", "check", "handle",
          "send", "reset", "wipeDone"}

LinkType ==
    /\ port \in Ports
    /\ rxindex \in 0 .. RXBUFF_LEN /\ timeout \in 0 .. COM_TIMEOUT
    /\ rawData \in [0 .. RXBUFF_LEN - 1 -> Bytes]
    /\ task \in Tasks
    /\ loaded \in 0 .. COM_TIMEOUT
    /\ sent \in 0 .. FRAME - 1 /\ pause \in 0 .. Quiet
    /\ heard \in {"none", "clean", "due", "other"}
    /\ clean \in BOOLEAN
    /\ faults \in Nat

\* The timeout runs out no later than the pause becomes Quiet, and a buffer that
\* holds bytes has a timeout running, but within the countdown.
TimeInv ==
    /\ task # "idle" => pause > 0
    /\ task = "load" /\ timeout > 0 => timeout + pause <= COM_TIMEOUT + 2
    /\ task = "store" => loaded > 0 /\ loaded + pause <= COM_TIMEOUT + 2
    /\ task \notin {"load", "store"} /\ timeout > 0 => timeout + pause <= COM_TIMEOUT + 1
    /\ task \notin {"store", "quiet"} /\ rxindex # 0 => timeout > 0

\* On a line that has been quiet the handler finds nothing to do.
QuietInv == pause = Quiet =>
    rxindex = 0 /\ timeout = 0 /\ task \in {"idle", "load", "quiet", "full"}

\* The first n places of the buffer hold the first n bytes of a frame.
Begun(n) == \A i \in 0 .. n - 1 : rawData[i] = i + 1

\* Behind the index the buffer is wiped, but for the time between a reset of the
\* index and the memset.
BlankInv == task \notin {"wipe", "wipeDone"} =>
    \A i \in rxindex .. RXBUFF_LEN - 1 : rawData[i] = 0

\* How far the line is, when `lost` bytes have been lost since the first one in the
\* buffer was sent; the next frame then began too soon.
SentWith(lost) ==
    /\ sent = IF rxindex + lost < FRAME THEN rxindex + lost ELSE rxindex + lost - FRAME
    /\ rxindex + lost > FRAME => lost < faults

\* A buffer that starts with a first byte holds the bytes that followed it, but for
\* those lost since; it takes FRAME of them, and a frame that began too soon, to put
\* the last byte of that one into the last place.
CountInv ==
    faults <= FRAME /\ task \notin {"wipe", "wipeDone"} /\ rawData[0] = 1 =>
        IF rxindex < FRAME
        THEN \E lost \in 0 .. faults : SentWith(lost) /\ (lost = 0 => Begun(rxindex))
        ELSE rawData[FRAME - 1] = FRAME => Begun(FRAME)

\* A frame found valid stays in its place until it has been handled.
ValidInv == task = "handle" =>
    /\ rxindex >= FRAME
    /\ rawData[0] = 1 /\ rawData[FRAME - 1] = FRAME
    /\ (port = "UART2" /\ faults > FRAME) \/ Begun(FRAME)

\* Without a frame sent since the last one handled, no last byte waits in the buffer.
HeardInv == heard = "none" /\ task \notin {"send", "reset", "wipeDone"} =>
    \A i \in 0 .. RXBUFF_LEN - 1 : rawData[i] # FRAME

\* The tick that is to handle a frame, and those within it, find the timeout renewed.
Fresh ==
    /\ task = "idle" /\ pause = 0 => timeout = COM_TIMEOUT
    /\ task = "load" => timeout = COM_TIMEOUT
    /\ task = "store" => loaded = COM_TIMEOUT
    /\ task = "quiet" => timeout > 0

\* A clean frame on its way has all its bytes in the buffer ...
ArrivingInv == sent > 0 /\ clean =>
    /\ rxindex = sent /\ Begun(sent)
    /\ task \in {"idle", "load", "store", "quiet", "full"}
    /\ heard \notin {"clean", "due"}
    /\ Fresh

\* ... and one that has arrived is there until it is handled.
ArrivedInv == heard \in {"clean", "due"} =>
    /\ rxindex >= FRAME /\ Begun(FRAME)
    /\ task \in {"idle", "load", "store", "quiet", "full", "check", "handle"}
    /\ task = "idle" => heard = "clean" /\ pause = 0
    /\ Fresh

LinkInv ==
    /\ LinkType /\ TimeInv /\ QuietInv /\ BlankInv /\ CountInv /\ ValidInv
    /\ HeardInv /\ ArrivingInv /\ ArrivedInv
    /\ HandledIsWhole

--------------------------------------------------------------------------------
(* The line: what the proofs of the steps use.                              *)

USE LinkAssumption

\* The constants, without their sets.
LEMMA Sizes ==
    /\ FRAME \in Nat /\ FRAME > 4
    /\ RXBUFF_LEN \in Nat /\ RXBUFF_LEN >= FRAME
    /\ COM_TIMEOUT \in Nat /\ COM_TIMEOUT >= 2
    /\ Quiet = COM_TIMEOUT + 2 /\ Quiet \in Nat
BY DEF Quiet

\* The place in the frame after one more byte.
LEMMA NextSent ==
    ASSUME NEW n \in 0 .. FRAME - 1
    PROVE  /\ (n + 1) % FRAME = IF n + 1 < FRAME THEN n + 1 ELSE 0
           /\ (n + 1) % FRAME \in 0 .. FRAME - 1
<1>1. CASE n + 1 < FRAME
  BY <1>1, Sizes
<1>2. CASE n + 1 = FRAME
  BY <1>2, Sizes
<1> QED
  BY <1>1, <1>2, Sizes

\* A timeout just renewed, and the first tick of a pause.
LEMMA TimeBound ==
    ASSUME NEW t \in Nat, NEW p \in Nat, t <= COM_TIMEOUT, p <= 1
    PROVE  t + p <= COM_TIMEOUT + 1 /\ t + p <= COM_TIMEOUT + 2
BY Sizes

\* The place in the frame of a line that has sent r + l bytes since a frame began.
LEMMA PlaceOf ==
    ASSUME NEW r \in Nat, NEW l \in Nat, NEW s, NEW f,
           (s = r + l /\ r + l < FRAME) \/ (s = 0 /\ r + l = FRAME)
    PROVE  /\ s = IF r + l < FRAME THEN r + l ELSE r + l - FRAME
           /\ r + l > FRAME => l < f
BY Sizes

\* A byte is stored at the index, or finds the buffer full.
LEMMA ReceiveCases ==
    ASSUME LinkType, NEW b \in 1 .. FRAME, Receive(b)
    PROVE  /\ rxindex' \in 0 .. RXBUFF_LEN /\ timeout' \in 0 .. COM_TIMEOUT
           /\ rawData' \in [0 .. RXBUFF_LEN - 1 -> Bytes]
           /\ \/ /\ rxindex < RXBUFF_LEN
                 /\ rxindex' = rxindex + 1 /\ timeout' = COM_TIMEOUT
                 /\ rawData'[rxindex] = b
                 /\ \A i \in 0 .. RXBUFF_LEN - 1 : i # rxindex => rawData'[i] = rawData[i]
              \/ /\ rxindex = RXBUFF_LEN
                 /\ rxindex' = rxindex /\ timeout' = timeout /\ rawData' = rawData
<1> USE Sizes DEF LinkType, Bytes
<1>1. CASE rxindex < RXBUFF_LEN
  BY <1>1 DEF Receive
<1>2. CASE rxindex = RXBUFF_LEN
  BY <1>2 DEF Receive, rxVars
<1> QED
  BY <1>1, <1>2

LEMMA LinkStartsWell == LinkInit => LinkInv
<1> SUFFICES ASSUME LinkInit PROVE LinkInv
  OBVIOUS
<1> USE Sizes DEF LinkInit
<1>1. rawData \in [0 .. RXBUFF_LEN - 1 -> Bytes] /\ \A i \in 0 .. RXBUFF_LEN - 1 : rawData[i] = 0
  BY DEF Wiped, Bytes
<1>2. clean \in BOOLEAN
  BY Zenon
<1>3. LinkType
  BY <1>1, <1>2 DEF LinkType, Tasks
<1>4. TimeInv /\ QuietInv
  BY DEF TimeInv, QuietInv
<1>5. BlankInv /\ CountInv /\ ValidInv /\ HeardInv
  BY <1>1 DEF BlankInv, CountInv, ValidInv, HeardInv
<1>6. ArrivingInv /\ ArrivedInv /\ HandledIsWhole
  BY DEF ArrivingInv, ArrivedInv, HandledIsWhole
<1> QED
  BY <1>3, <1>4, <1>5, <1>6 DEF LinkInv

--------------------------------------------------------------------------------
(* The line: a byte arrives.                                                *)

\* A byte stored behind the first n of its frame.
LEMMA BegunGoesOn ==
    ASSUME rawData \in [0 .. RXBUFF_LEN - 1 -> Bytes],
           rxindex \in 0 .. RXBUFF_LEN - 1, rxindex' = rxindex + 1,
           Begun(rxindex), rawData'[rxindex] = rxindex + 1,
           \A i \in 0 .. RXBUFF_LEN - 1 : i # rxindex => rawData'[i] = rawData[i]
    PROVE  /\ \A i \in 0 .. rxindex : rawData'[i] = i + 1
           /\ Begun(rxindex)'
<1>1. ASSUME NEW i \in 0 .. rxindex PROVE rawData'[i] = i + 1
  <2>1. CASE i = rxindex
    BY <2>1
  <2>2. CASE i # rxindex
    BY <2>2, Sizes DEF Begun
  <2> QED
    BY <2>1, <2>2
<1>2. 0 .. rxindex' - 1 = 0 .. rxindex
  OBVIOUS
<1> QED
  BY <1>1, <1>2 DEF Begun

\* What the three kinds of byte have in common: which frame it belongs to.
ByteOf(isClean) ==
    \/ sent = 0 /\ pause = Quiet /\ isClean = TRUE /\ faults' = faults
    \/ sent = 0 /\ pause < Quiet /\ isClean = FALSE /\ faults' = faults + 1
    \/ sent > 0 /\ isClean = clean /\ faults' = faults

\* The line's own part of a byte.
LEMMA OnLine ==
    ASSUME LinkInv, NEW isClean \in BOOLEAN, PutOnLine(isClean)
    PROVE  /\ sent' = IF sent + 1 < FRAME THEN sent + 1 ELSE 0
           /\ sent' \in 0 .. FRAME - 1
           /\ pause' = IF task = "idle" THEN 0 ELSE 1
           /\ pause' \in 0 .. Quiet
           /\ clean' = isClean /\ clean' \in BOOLEAN
           /\ heard' \in {"none", "clean", "due", "other"}
           /\ heard' # heard => sent + 1 = FRAME /\ heard \notin {"clean", "due"}
           /\ heard' = "none" => sent + 1 < FRAME
           /\ heard' # heard /\ heard' \in {"clean", "due"} => heard' = "clean" /\ isClean
<1> USE Sizes DEF LinkInv, LinkType
<1>1. sent' = (sent + 1) % FRAME /\ sent \in 0 .. FRAME - 1
  BY DEF PutOnLine
<1>2. /\ sent' = IF sent + 1 < FRAME THEN sent + 1 ELSE 0
      /\ sent' \in 0 .. FRAME - 1
  BY <1>1, NextSent
<1>3. pause' = IF task = "idle" THEN 0 ELSE 1
  BY DEF PutOnLine
<1>4. pause' \in 0 .. Quiet
  BY <1>3
<1>5. clean' = isClean /\ clean' \in BOOLEAN
  BY Zenon DEF PutOnLine
<1>6. CASE sent + 1 < FRAME \/ heard \in {"clean", "due"}
  <2>1. heard' = heard
    BY <1>6 DEF PutOnLine
  <2>2. heard # "none" \/ sent + 1 < FRAME
    BY <1>6
  <2> QED
    BY <1>2, <1>3, <1>4, <1>5, <2>1, <2>2
<1>7. CASE ~(sent + 1 < FRAME \/ heard \in {"clean", "due"})
  <2>1. heard' = IF isClean THEN "clean" ELSE "other"
    BY <1>7 DEF PutOnLine
  <2>2. sent + 1 = FRAME
    BY <1>1, <1>7
  <2> QED
    BY <1>2, <1>3, <1>4, <1>5, <1>7, <2>1, <2>2
<1> QED
  BY <1>6, <1>7

\* A byte keeps the invariant, whichever steps of the handler it comes between.
LEMMA ByteKeeps ==
    ASSUME LinkInv, NEW isClean \in BOOLEAN, ByteOf(isClean),
           Receive(sent + 1), PutOnLine(isClean), HandlerStays
    PROVE  LinkInv'
<1> USE Sizes
<1>0. LinkType /\ port' = port /\ task' = task /\ loaded' = loaded /\ lastRaw' = lastRaw
  BY DEF LinkInv, HandlerStays
<1>1. /\ rxindex' \in 0 .. RXBUFF_LEN /\ timeout' \in 0 .. COM_TIMEOUT
      /\ rawData' \in [0 .. RXBUFF_LEN - 1 -> Bytes]
      /\ \/ /\ rxindex < RXBUFF_LEN
            /\ rxindex' = rxindex + 1 /\ timeout' = COM_TIMEOUT
            /\ rawData'[rxindex] = sent + 1
            /\ \A i \in 0 .. RXBUFF_LEN - 1 : i # rxindex => rawData'[i] = rawData[i]
         \/ /\ rxindex = RXBUFF_LEN
            /\ rxindex' = rxindex /\ timeout' = timeout /\ rawData' = rawData
  <2>1. sent + 1 \in 1 .. FRAME
    BY <1>0 DEF LinkType
  <2> QED
    BY <1>0, <2>1, ReceiveCases
<1>2. /\ sent' = IF sent + 1 < FRAME THEN sent + 1 ELSE 0
      /\ sent' \in 0 .. FRAME - 1
      /\ pause' = IF task = "idle" THEN 0 ELSE 1
      /\ pause' \in 0 .. Quiet
      /\ clean' = isClean /\ clean' \in BOOLEAN
      /\ heard' \in {"none", "clean", "due", "other"}
      /\ heard' # heard => sent + 1 = FRAME /\ heard \notin {"clean", "due"}
      /\ heard' = "none" => sent + 1 < FRAME
      /\ heard' # heard /\ heard' \in {"clean", "due"} => heard' = "clean" /\ isClean
  BY OnLine
<1>3. faults' \in Nat /\ faults <= faults'
  BY <1>0 DEF LinkType, ByteOf
<1>4. LinkType'
  BY <1>0, <1>1, <1>2, <1>3 DEF LinkType
<1>a. /\ rxindex \in 0 .. RXBUFF_LEN /\ timeout \in 0 .. COM_TIMEOUT
      /\ loaded \in 0 .. COM_TIMEOUT
      /\ sent \in 0 .. FRAME - 1 /\ pause \in 0 .. Quiet /\ faults \in Nat
  BY <1>0 DEF LinkType
<1>b. /\ sent' = IF sent + 1 < FRAME THEN sent + 1 ELSE 0
      /\ pause' = IF task = "idle" THEN 0 ELSE 1
      /\ rxindex' \in 0 .. RXBUFF_LEN /\ timeout' \in 0 .. COM_TIMEOUT
      /\ timeout' = timeout \/ timeout' = COM_TIMEOUT
      /\ rawData \in [0 .. RXBUFF_LEN - 1 -> Bytes]
  BY <1>0, <1>1, <1>2 DEF LinkType
<1>c. pause' \in Nat /\ pause' <= 1 /\ (task # "idle" => pause' = 1)
  BY <1>b
<1>5. TimeInv'
  <2>1. TimeInv
    BY DEF LinkInv
  <2>2. task = "load" /\ timeout' > 0 => timeout' + pause' <= COM_TIMEOUT + 2
    <3> SUFFICES ASSUME task = "load", timeout' > 0
                 PROVE  timeout' + pause' <= COM_TIMEOUT + 2
      OBVIOUS
    <3>1. timeout' <= COM_TIMEOUT /\ timeout' \in Nat
      BY <1>b
    <3> QED
      BY <1>c, <3>1, TimeBound
  <2>3. task = "store" => loaded > 0 /\ loaded + pause' <= COM_TIMEOUT + 2
    BY <1>a, <1>2, <2>1 DEF TimeInv
  <2>4. timeout' + pause' <= COM_TIMEOUT + 1
    <3>1. timeout' <= COM_TIMEOUT /\ timeout' \in Nat
      BY <1>b
    <3> QED
      BY <1>c, <3>1, TimeBound
  <2>5. task \notin {"store", "quiet"} /\ rxindex' # 0 => timeout' > 0
    BY <1>a, <1>1, <2>1 DEF TimeInv
  <2> QED
    BY <1>0, <1>2, <2>2, <2>3, <2>4, <2>5 DEF TimeInv
<1>6. QuietInv'
  BY <1>2 DEF QuietInv
<1>7. BlankInv'
  BY <1>0, <1>1 DEF LinkInv, BlankInv, LinkType
<1>8. CountInv'
  <2> SUFFICES ASSUME faults' <= FRAME, task \notin {"wipe", "wipeDone"}, rawData'[0] = 1
               PROVE  IF rxindex' < FRAME
                      THEN \E lost \in 0 .. faults' :
                              SentWith(lost)' /\ (lost = 0 => Begun(rxindex)')
                      ELSE rawData'[FRAME - 1] = FRAME => Begun(FRAME)'
    BY <1>0 DEF CountInv
  <2>0. CountInv
    BY DEF LinkInv
  <2>1. CASE rxindex = RXBUFF_LEN
    <3>1. rawData' = rawData /\ rxindex' = rxindex /\ faults <= FRAME
      BY <1>a, <1>1, <1>3, <2>1
    <3>2. Begun(FRAME) => Begun(FRAME)'
      BY <3>1 DEF Begun
    <3> QED
      BY <1>a, <2>0, <2>1, <3>1, <3>2 DEF CountInv
  <2>2. CASE rxindex = 0
    <3>1. sent = 0 /\ rxindex' = 1 /\ sent' = 1
      BY <1>0, <1>1, <1>2, <2>2 DEF LinkType
    <3>2. SentWith(0)' /\ Begun(rxindex)'
      BY <3>1, <1>3, <1>0, <1>4 DEF SentWith, Begun, LinkType
    <3>3. 0 \in 0 .. faults'
      BY <1>3
    <3> QED
      BY <3>1, <3>2, <3>3
  <2>3. CASE 0 < rxindex /\ rxindex < FRAME
    <3>1. rawData[0] = 1 /\ faults <= FRAME
      BY <1>0, <1>1, <1>3, <2>3 DEF LinkType
    <3>2. PICK lost \in 0 .. faults : SentWith(lost) /\ (lost = 0 => Begun(rxindex))
      BY <1>0, <2>3, <3>1 DEF LinkInv, CountInv
    <3>3. lost \in Nat /\ lost <= faults'
      BY <1>0, <1>3, <3>2 DEF LinkType
    <3>4. sent = 0 => faults' = faults + 1
      BY <1>0, <2>3 DEF ByteOf, LinkInv, QuietInv, LinkType
    <3>5. CASE rxindex + 1 < FRAME
      <4>1. SentWith(lost)'
        <5>1. /\ sent = IF rxindex + lost < FRAME THEN rxindex + lost
                        ELSE rxindex + lost - FRAME
              /\ rxindex + lost > FRAME => lost < faults
              /\ rxindex' = rxindex + 1 /\ faults <= FRAME
          BY <1>a, <1>1, <2>3, <3>1, <3>2 DEF SentWith
        <5>2. CASE rxindex + lost + 1 < FRAME
          <6>1. sent' = rxindex' + lost /\ rxindex' + lost < FRAME
            BY <1>a, <1>2, <3>3, <5>1, <5>2
          <6> QED
            <7>1. rxindex' \in Nat
              BY <1>b
            <7> QED
              <8>1. \/ sent' = rxindex' + lost /\ rxindex' + lost < FRAME
                    \/ sent' = 0 /\ rxindex' + lost = FRAME
                BY <6>1, Zenon
              <8> QED
                BY <3>3, <7>1, <8>1, PlaceOf, Zenon DEF SentWith
        <5>3. CASE rxindex + lost + 1 = FRAME
          <6>1. sent' = 0 /\ rxindex' + lost = FRAME
            BY <1>a, <1>2, <3>3, <5>1, <5>3
          <6> QED
            <7>1. rxindex' \in Nat
              BY <1>b
            <7> QED
              <8>1. \/ sent' = rxindex' + lost /\ rxindex' + lost < FRAME
                    \/ sent' = 0 /\ rxindex' + lost = FRAME
                BY <6>1, Zenon
              <8> QED
                BY <3>3, <7>1, <8>1, PlaceOf, Zenon DEF SentWith
        <5>4. CASE rxindex + lost >= FRAME
          <6>1. sent = rxindex + lost - FRAME /\ sent + 1 < FRAME
            BY <1>a, <2>3, <3>3, <3>5, <5>1, <5>4
          <6>2. sent' = rxindex' + lost - FRAME
            BY <1>a, <1>2, <3>3, <5>1, <6>1
          <6>3. lost < faults'
            BY <1>a, <1>3, <3>3, <3>4, <5>1, <5>4, <6>1
          <6> QED
            BY <1>a, <1>1, <3>3, <5>1, <5>4, <6>2, <6>3 DEF SentWith
        <5> QED
          BY <1>a, <3>3, <5>2, <5>3, <5>4
      <4>2. ASSUME lost = 0 PROVE Begun(rxindex)'
        <5>1. sent = rxindex
          BY <1>0, <2>3, <3>2, <4>2 DEF SentWith, LinkType
        <5> QED
          BY <1>a, <1>b, <1>1, <2>3, <3>2, <4>2, <5>1, BegunGoesOn
      <4> QED
        BY <1>0, <1>1, <1>3, <2>3, <3>3, <3>5, <4>1, <4>2 DEF LinkType
    <3>6. CASE rxindex + 1 = FRAME
      <4>1. rxindex' = FRAME
        BY <1>0, <1>1, <2>3, <3>6 DEF LinkType
      <4>2. ASSUME rawData'[FRAME - 1] = FRAME PROVE Begun(FRAME)'
        <5>1. sent = rxindex
          BY <1>0, <1>1, <2>3, <3>6, <4>2 DEF LinkType
        <5>2. lost = 0
          BY <1>0, <1>3, <2>3, <3>1, <3>2, <3>3, <3>6, <5>1 DEF SentWith, LinkType
        <5> QED
          <6>1. \A i \in 0 .. rxindex : rawData'[i] = i + 1
            BY <1>a, <1>b, <1>1, <2>3, <3>2, <5>1, <5>2, BegunGoesOn
          <6> QED
            <7>1. rxindex = FRAME - 1
              BY <1>a, <3>6
            <7> QED
              BY <6>1, <7>1 DEF Begun
      <4> QED
        BY <4>1, <4>2
    <3> QED
      BY <1>0, <2>3, <3>5, <3>6 DEF LinkType
  <2>4. CASE FRAME <= rxindex /\ rxindex < RXBUFF_LEN
    <3>1. \A i \in 0 .. FRAME - 1 : rawData'[i] = rawData[i]
      BY <1>0, <1>1, <2>4 DEF LinkType
    <3> QED
      <4>1. rxindex' >= FRAME /\ faults <= FRAME /\ rawData[0] = 1
        BY <1>a, <1>1, <1>3, <2>4, <3>1
      <4>2. Begun(FRAME) => Begun(FRAME)'
        BY <3>1 DEF Begun
      <4>3. rawData'[FRAME - 1] = rawData[FRAME - 1]
        BY <3>1
      <4> QED
        BY <1>a, <1>1, <2>0, <2>4, <4>1, <4>2, <4>3 DEF CountInv
  <2> QED
    BY <1>0, <2>1, <2>2, <2>3, <2>4 DEF LinkType
<1>9. rxindex >= FRAME => \A i \in 0 .. FRAME - 1 : rawData'[i] = rawData[i]
  BY <1>0, <1>1 DEF LinkType
<1>10. ValidInv'
  <2> SUFFICES ASSUME task = "handle" PROVE ValidInv'
    BY <1>0 DEF ValidInv
  <2>1. /\ rxindex >= FRAME
        /\ rawData[0] = 1 /\ rawData[FRAME - 1] = FRAME
        /\ (port = "UART2" /\ faults > FRAME) \/ Begun(FRAME)
    BY DEF LinkInv, ValidInv
  <2>2. rxindex' >= FRAME /\ rawData'[0] = 1 /\ rawData'[FRAME - 1] = FRAME
    BY <1>a, <1>1, <1>9, <2>1
  <2>3. Begun(FRAME) => Begun(FRAME)'
    BY <1>9, <2>1 DEF Begun
  <2>4. faults > FRAME => faults' > FRAME
    BY <1>a, <1>3
  <2> QED
    BY <1>0, <2>1, <2>2, <2>3, <2>4 DEF ValidInv
<1>11. HeardInv'
  BY <1>0, <1>1, <1>2 DEF LinkInv, HeardInv, LinkType
<1>12. Fresh /\ (task = "idle" => timeout' = COM_TIMEOUT) /\ timeout <= timeout' => Fresh'
  BY <1>0, <1>1, <1>2 DEF Fresh, LinkType
<1>13. ArrivingInv'
  <2> SUFFICES ASSUME sent' > 0, clean'
               PROVE  /\ rxindex' = sent' /\ Begun(sent)'
                      /\ task \in {"idle", "load", "store", "quiet", "full"}
                      /\ heard' \notin {"clean", "due"}
                      /\ Fresh'
    BY <1>0 DEF ArrivingInv
  <2>1. isClean /\ sent' = sent + 1 /\ sent + 1 < FRAME /\ heard' = heard
    BY <1>a, <1>2
  <2>2. CASE sent = 0
    <3>1. pause = Quiet /\ rxindex = 0 /\ task \in {"idle", "load", "quiet", "full"}
      BY <1>a, <2>1, <2>2 DEF ByteOf, LinkInv, QuietInv
    <3>2. rxindex' = 1 /\ timeout' = COM_TIMEOUT /\ rawData'[0] = 1
      BY <1>1, <2>2, <3>1
    <3>3. Begun(sent)'
      BY <2>1, <2>2, <3>2 DEF Begun
    <3>4. heard \notin {"clean", "due"}
      BY <3>1 DEF LinkInv, ArrivedInv
    <3>5. Fresh'
      BY <1>0, <3>1, <3>2 DEF Fresh
    <3> QED
      BY <2>1, <2>2, <3>1, <3>2, <3>3, <3>4, <3>5
  <2>3. CASE sent > 0
    <3>1. /\ rxindex = sent /\ Begun(sent)
          /\ task \in {"idle", "load", "store", "quiet", "full"}
          /\ heard \notin {"clean", "due"}
          /\ Fresh
      <4>1. sent # 0
        BY <1>a, <2>3
      <4>2. clean
        BY <2>1, <4>1, Zenon DEF ByteOf
      <4> QED
        BY <2>3, <4>2 DEF LinkInv, ArrivingInv
    <3>2. rxindex' = sent + 1 /\ timeout' = COM_TIMEOUT
      BY <1>a, <1>1, <3>1
    <3>3. Begun(sent)'
      <4>1. Begun(rxindex)'
        BY <1>0, <1>a, <1>1, <3>1, BegunGoesOn DEF LinkType
      <4> QED
        BY <2>1, <3>2, <4>1 DEF Begun
    <3> QED
      BY <1>a, <1>12, <2>1, <3>1, <3>2, <3>3
  <2> QED
    BY <1>a, <2>2, <2>3
<1>14. ArrivedInv'
  <2> SUFFICES ASSUME heard' \in {"clean", "due"}
               PROVE  /\ rxindex' >= FRAME /\ Begun(FRAME)'
                      /\ task \in {"idle", "load", "store", "quiet", "full", "check", "handle"}
                      /\ task = "idle" => heard' = "clean" /\ pause' = 0
                      /\ Fresh'
    BY <1>0 DEF ArrivedInv
  <2>1. CASE heard' = heard
    <3>1. /\ rxindex >= FRAME /\ Begun(FRAME)
          /\ task \in {"idle", "load", "store", "quiet", "full", "check", "handle"}
          /\ task = "idle" => heard = "clean" /\ pause = 0
          /\ Fresh
      BY <2>1 DEF LinkInv, ArrivedInv
    <3>2. Begun(FRAME)'
      BY <1>9, <3>1 DEF Begun
    <3>3. rxindex' >= FRAME /\ timeout <= timeout'
      BY <1>a, <1>1, <3>1
    <3>4. task = "idle" => timeout' = COM_TIMEOUT
      BY <1>1, <3>1 DEF Fresh
    <3> QED
      BY <1>2, <1>12, <2>1, <3>1, <3>2, <3>3, <3>4
  <2>2. CASE heard' # heard
    <3>1. heard' = "clean" /\ isClean /\ sent + 1 = FRAME
      BY <1>2, <2>2
    <3>2. sent > 0 /\ clean
      <4>1. sent # 0 /\ sent > 0
        BY <1>a, <3>1
      <4>2. clean
        BY <3>1, <4>1, Zenon DEF ByteOf
      <4> QED
        BY <4>1, <4>2
    <3>3. /\ rxindex = sent /\ Begun(sent)
          /\ task \in {"idle", "load", "store", "quiet", "full"}
          /\ Fresh
      BY <3>2 DEF LinkInv, ArrivingInv
    <3>4. rxindex' = FRAME /\ timeout' = COM_TIMEOUT
      BY <1>a, <1>1, <3>1, <3>3
    <3>5. Begun(FRAME)'
      <4>1. Begun(rxindex)'
        BY <1>0, <1>a, <1>1, <3>1, <3>3, BegunGoesOn DEF LinkType
      <4> QED
        BY <3>4, <4>1 DEF Begun
    <3> QED
      BY <1>a, <1>2, <1>12, <3>1, <3>3, <3>4, <3>5
  <2> QED
    BY <2>1, <2>2
<1>15. HandledIsWhole'
  BY <1>0, <1>3 DEF LinkInv, HandledIsWhole, LinkType
<1> QED
  BY <1>4, <1>5, <1>6, <1>7, <1>8, <1>10, <1>11, <1>13, <1>14, <1>15 DEF LinkInv

LEMMA BytesKeep ==
    ASSUME LinkInv, FrameStarts \/ FrameTooSoon \/ FrameGoesOn
    PROVE  LinkInv'
<1>1. sent \in 0 .. FRAME - 1 /\ pause \in 0 .. Quiet /\ clean \in BOOLEAN
  BY DEF LinkInv, LinkType
<1>2. CASE FrameStarts
  <2>1. Receive(sent + 1) /\ PutOnLine(TRUE) /\ HandlerStays
    <3>1. 1 = sent + 1
      BY <1>2 DEF FrameStarts
    <3> QED
      BY <1>2, <3>1, Zenon DEF FrameStarts
  <2>2. ByteOf(TRUE)
    BY <1>2 DEF FrameStarts, ByteOf
  <2> QED
    BY <2>1, <2>2, ByteKeeps
<1>3. CASE FrameTooSoon
  <2>1. Receive(sent + 1) /\ PutOnLine(FALSE) /\ HandlerStays
    <3>1. 1 = sent + 1
      BY <1>3 DEF FrameTooSoon
    <3> QED
      BY <1>3, <3>1, Zenon DEF FrameTooSoon
  <2>2. ByteOf(FALSE)
    BY <1>3 DEF FrameTooSoon, ByteOf
  <2> QED
    BY <2>1, <2>2, ByteKeeps
<1>4. CASE FrameGoesOn
  <2>1. Receive(sent + 1) /\ PutOnLine(clean) /\ HandlerStays
    BY <1>4 DEF FrameGoesOn
  <2>2. ByteOf(clean)
    BY <1>4, Zenon DEF FrameGoesOn, ByteOf
  <2> QED
    BY <1>1, <2>1, <2>2, ByteKeeps
<1> QED
  BY <1>2, <1>3, <1>4

\* A byte that is lost moves the line on and leaves the buffer as it is.
LEMMA LossKeeps ==
    ASSUME LinkInv, ByteLost
    PROVE  LinkInv'
<1> USE Sizes
<1>1. /\ sent > 0 /\ faults' = faults + 1 /\ PutOnLine(FALSE)
      /\ port' = port /\ task' = task /\ loaded' = loaded /\ lastRaw' = lastRaw
      /\ rxindex' = rxindex /\ timeout' = timeout /\ rawData' = rawData
  BY DEF ByteLost, HandlerStays, rxVars
<1>2. /\ rxindex \in 0 .. RXBUFF_LEN /\ timeout \in 0 .. COM_TIMEOUT
      /\ loaded \in 0 .. COM_TIMEOUT
      /\ sent \in 0 .. FRAME - 1 /\ pause \in 0 .. Quiet /\ faults \in Nat
  BY DEF LinkInv, LinkType
<1>3. /\ sent' = IF sent + 1 < FRAME THEN sent + 1 ELSE 0
      /\ sent' \in 0 .. FRAME - 1
      /\ pause' = IF task = "idle" THEN 0 ELSE 1
      /\ pause' \in 0 .. Quiet
      /\ clean' = FALSE /\ clean' \in BOOLEAN
      /\ heard' \in {"none", "clean", "due", "other"}
      /\ heard' = "none" => heard = "none"
      /\ heard' \in {"clean", "due"} => heard' = heard
  <2>1. /\ sent' = IF sent + 1 < FRAME THEN sent + 1 ELSE 0
        /\ sent' \in 0 .. FRAME - 1
        /\ pause' = IF task = "idle" THEN 0 ELSE 1
        /\ pause' \in 0 .. Quiet
        /\ clean' = FALSE /\ clean' \in BOOLEAN
        /\ heard' \in {"none", "clean", "due", "other"}
        /\ heard' # heard => sent + 1 = FRAME /\ heard \notin {"clean", "due"}
        /\ heard' = "none" => sent + 1 < FRAME
        /\ heard' # heard /\ heard' \in {"clean", "due"} => heard' = "clean" /\ FALSE
    BY <1>1, OnLine, Zenon
  <2> QED
    BY <1>2, <2>1
<1>4. LinkType'
  BY <1>1, <1>2, <1>3 DEF LinkInv, LinkType
<1>5. TimeInv'
  <2>1. TimeInv
    BY DEF LinkInv
  <2>2. CASE task = "idle"
    BY <1>1, <1>2, <1>3, <2>1, <2>2 DEF TimeInv
  <2>3. CASE task # "idle"
    BY <1>1, <1>2, <1>3, <2>1, <2>3 DEF TimeInv
  <2> QED
    BY <2>2, <2>3
<1>6. QuietInv' /\ BlankInv'
  BY <1>1, <1>3 DEF LinkInv, QuietInv, BlankInv
<1>7. CountInv'
  <2> SUFFICES ASSUME faults + 1 <= FRAME, task \notin {"wipe", "wipeDone"}, rawData[0] = 1
               PROVE  IF rxindex < FRAME
                      THEN \E lost \in 0 .. faults' :
                              SentWith(lost)' /\ (lost = 0 => Begun(rxindex)')
                      ELSE rawData[FRAME - 1] = FRAME => Begun(FRAME)'
    BY <1>1 DEF CountInv
  <2>1. CountInv /\ faults <= FRAME
    BY <1>2 DEF LinkInv
  <2>2. CASE rxindex < FRAME
    <3>1. PICK lost \in 0 .. faults : SentWith(lost)
      BY <2>1, <2>2 DEF CountInv
    <3>2. lost + 1 \in 0 .. faults' /\ lost + 1 # 0
      BY <1>1, <1>2
    <3>3. SentWith(lost + 1)'
      <4>1. /\ sent = IF rxindex + lost < FRAME THEN rxindex + lost
                      ELSE rxindex + lost - FRAME
            /\ rxindex + lost > FRAME => lost < faults
        BY <3>1 DEF SentWith
      <4>2. /\ sent' = IF rxindex + (lost + 1) < FRAME THEN rxindex + (lost + 1)
                       ELSE rxindex + (lost + 1) - FRAME
            /\ rxindex + (lost + 1) > FRAME => lost + 1 < faults + 1
        BY <1>1, <1>2, <1>3, <2>2, <4>1
      <4> QED
        BY <1>1, <4>2 DEF SentWith
    <3> QED
      BY <2>2, <3>2, <3>3
  <2>3. CASE ~(rxindex < FRAME)
    BY <1>1, <2>1, <2>3 DEF CountInv, Begun
  <2> QED
    BY <2>2, <2>3
<1>8. ValidInv'
  <2>1. Begun(FRAME) => Begun(FRAME)'
    BY <1>1 DEF Begun
  <2>2. faults > FRAME => faults' > FRAME
    BY <1>1, <1>2
  <2> QED
    BY <1>1, <2>1, <2>2 DEF LinkInv, ValidInv
<1>9. HeardInv'
  BY <1>1, <1>3 DEF LinkInv, HeardInv
<1>10. ArrivingInv'
  BY <1>3 DEF ArrivingInv
<1>11. ArrivedInv'
  <2> SUFFICES ASSUME heard' \in {"clean", "due"} PROVE ArrivedInv'
    BY DEF ArrivedInv
  <2>1. /\ rxindex >= FRAME /\ Begun(FRAME)
        /\ task \in {"idle", "load", "store", "quiet", "full", "check", "handle"}
        /\ task = "idle" => heard = "clean" /\ pause = 0
        /\ Fresh
    BY <1>3 DEF LinkInv, ArrivedInv
  <2>2. Begun(FRAME)'
    BY <1>1, <2>1 DEF Begun
  <2>3. Fresh'
    BY <1>1, <2>1 DEF Fresh
  <2> QED
    BY <1>1, <1>3, <2>1, <2>2, <2>3 DEF ArrivedInv
<1>12. HandledIsWhole'
  BY <1>1, <1>2 DEF LinkInv, HandledIsWhole
<1> QED
  BY <1>4, <1>5, <1>6, <1>7, <1>8, <1>9, <1>10, <1>11, <1>12 DEF LinkInv

--------------------------------------------------------------------------------
(* The line: the steps of the handler.                                      *)

\* The variables' ranges, and the parts of the invariant.
LEMMA Parts ==
    ASSUME LinkInv
    PROVE  /\ rxindex \in 0 .. RXBUFF_LEN /\ timeout \in 0 .. COM_TIMEOUT
           /\ loaded \in 0 .. COM_TIMEOUT
           /\ rawData \in [0 .. RXBUFF_LEN - 1 -> Bytes]
           /\ sent \in 0 .. FRAME - 1 /\ pause \in 0 .. Quiet /\ faults \in Nat
           /\ port \in Ports
           /\ LinkType /\ TimeInv /\ QuietInv /\ BlankInv /\ CountInv /\ ValidInv
           /\ HeardInv /\ ArrivingInv /\ ArrivedInv /\ HandledIsWhole
BY DEF LinkInv, LinkType

\* A tick begins only between two frames or right after a byte, so a clean frame
\* finds its timeout renewed; one after COM_TIMEOUT whole ticks finds nothing.
LEMMA TickKeeps ==
    ASSUME LinkInv, Tick
    PROVE  LinkInv'
<1> USE Sizes, Parts
<1>1. /\ ~(sent > 0 /\ pause > 0)
      /\ task = "idle" /\ task' = "load"
      /\ pause' = IF pause < Quiet THEN pause + 1 ELSE pause
      /\ rxindex' = rxindex /\ timeout' = timeout /\ rawData' = rawData
      /\ loaded' = loaded /\ lastRaw' = lastRaw
      /\ port' = port /\ sent' = sent /\ clean' = clean /\ faults' = faults
  BY DEF Tick, Goto, rxVars
<1>2. heard' = IF heard = "clean" THEN "due" ELSE heard
  BY DEF Tick
<1>3. pause' \in 0 .. Quiet /\ pause' > 0
  BY <1>1
<1>4. LinkType'
  BY <1>1, <1>2, <1>3 DEF LinkType, Tasks
<1>5. TimeInv'
  <2>1. timeout > 0 => timeout + pause <= COM_TIMEOUT + 1
    BY <1>1 DEF TimeInv
  <2>2. timeout > 0 => timeout + pause' <= COM_TIMEOUT + 2
    <3>1. /\ timeout \in Nat /\ pause \in Nat /\ COM_TIMEOUT \in Nat
          /\ pause' = pause + 1 \/ pause' = pause
      BY <1>1 DEF LinkType
    <3> QED
      BY <2>1, <3>1
  <2> QED
    BY <1>1, <1>3, <2>2 DEF TimeInv
<1>6. QuietInv'
  <2>1. pause' = Quiet => timeout = 0
    BY <1>1 DEF TimeInv
  <2> QED
    BY <1>1, <2>1 DEF QuietInv, TimeInv
<1>7. BlankInv' /\ ValidInv' /\ HeardInv' /\ HandledIsWhole'
  BY <1>1, <1>2 DEF BlankInv, ValidInv, HeardInv, HandledIsWhole
<1>8. CountInv'
  BY <1>1 DEF CountInv, SentWith, Begun
<1>9. ArrivingInv'
  BY <1>1, <1>2 DEF ArrivingInv, Begun, Fresh
<1>10. ArrivedInv'
  BY <1>1, <1>2 DEF ArrivedInv, Begun, Fresh
<1> QED
  BY <1>4, <1>5, <1>6, <1>7, <1>8, <1>9, <1>10 DEF LinkInv

LEMMA LoadKeeps ==
    ASSUME LinkInv, LoadTimeout
    PROVE  LinkInv'
<1> USE Sizes, Parts
<1>1. /\ task = "load" /\ task' = IF timeout > 0 THEN "store" ELSE "quiet"
      /\ loaded' = timeout
      /\ rxindex' = rxindex /\ timeout' = timeout /\ rawData' = rawData
      /\ lastRaw' = lastRaw /\ heard' = heard
      /\ port' = port /\ sent' = sent /\ pause' = pause /\ clean' = clean /\ faults' = faults
  BY DEF LoadTimeout, Goto, rxVars, LineStays, lineVars
<1>2. LinkType'
  BY <1>1 DEF LinkType, Tasks
<1>3. TimeInv' /\ QuietInv'
  BY <1>1 DEF TimeInv, QuietInv
<1>4. BlankInv' /\ ValidInv' /\ HeardInv' /\ HandledIsWhole'
  BY <1>1 DEF BlankInv, ValidInv, HeardInv, HandledIsWhole
<1>5. CountInv'
  BY <1>1 DEF CountInv, SentWith, Begun
<1>6. ArrivingInv' /\ ArrivedInv'
  <2>1. Begun(sent)' = Begun(sent) /\ Begun(FRAME)' = Begun(FRAME)
    BY <1>1 DEF Begun
  <2>2. ArrivingInv'
    BY <1>1, <2>1 DEF ArrivingInv, Fresh
  <2>3. ArrivedInv'
    BY <1>1, <2>1 DEF ArrivedInv, Fresh
  <2> QED
    BY <2>2, <2>3
<1> QED
  BY <1>2, <1>3, <1>4, <1>5, <1>6 DEF LinkInv

\* The countdown stores one less than it loaded, also over a timeout that a byte
\* renewed in between: at least two were loaded, so the line does not count as quiet.
LEMMA StoreKeeps ==
    ASSUME LinkInv, StoreTimeout
    PROVE  LinkInv'
<1> USE Sizes, Parts
<1>1. /\ task = "store" /\ task' = "quiet"
      /\ timeout' = loaded - 1 /\ loaded' = 0
      /\ rxindex' = rxindex /\ rawData' = rawData
      /\ lastRaw' = lastRaw /\ heard' = heard
      /\ port' = port /\ sent' = sent /\ pause' = pause /\ clean' = clean /\ faults' = faults
  BY DEF StoreTimeout, Goto, LineStays, lineVars
<1>2. loaded > 0 /\ loaded + pause <= COM_TIMEOUT + 2 /\ pause > 0
  BY <1>1 DEF TimeInv
<1>3. LinkType'
  BY <1>1, <1>2 DEF LinkType, Tasks
<1>4. timeout' + pause <= COM_TIMEOUT + 1
  BY <1>1, <1>2
<1>5. TimeInv' /\ QuietInv'
  BY <1>1, <1>2, <1>4 DEF TimeInv, QuietInv
<1>6. BlankInv' /\ ValidInv' /\ HeardInv' /\ HandledIsWhole'
  BY <1>1 DEF BlankInv, ValidInv, HeardInv, HandledIsWhole
<1>7. CountInv'
  BY <1>1 DEF CountInv, SentWith, Begun
<1>8. loaded = COM_TIMEOUT => timeout' > 0
  BY <1>1
<1>9. ArrivingInv' /\ ArrivedInv'
  BY <1>1, <1>8 DEF ArrivingInv, ArrivedInv, Begun, Fresh
<1> QED
  BY <1>3, <1>5, <1>6, <1>7, <1>9 DEF LinkInv

LEMMA QuietKeeps ==
    ASSUME LinkInv, QuietTest
    PROVE  LinkInv'
<1> USE Sizes, Parts
<1>1. /\ task = "quiet"
      /\ \/ rxindex # 0 /\ timeout = 0 /\ rxindex' = 0 /\ task' = "wipe"
         \/ (rxindex = 0 \/ timeout # 0) /\ rxindex' = rxindex /\ task' = "full"
      /\ timeout' = timeout /\ rawData' = rawData
      /\ loaded' = loaded /\ lastRaw' = lastRaw /\ heard' = heard
      /\ port' = port /\ sent' = sent /\ pause' = pause /\ clean' = clean /\ faults' = faults
  BY DEF QuietTest, Goto, LineStays, lineVars
<1>2. LinkType'
  BY <1>1 DEF LinkType, Tasks
<1>3. TimeInv' /\ QuietInv'
  BY <1>1 DEF TimeInv, QuietInv
<1>4. BlankInv' /\ ValidInv' /\ HeardInv' /\ HandledIsWhole'
  BY <1>1 DEF BlankInv, ValidInv, HeardInv, HandledIsWhole
<1>5. CountInv'
  BY <1>1 DEF CountInv, SentWith, Begun
<1>6. ArrivingInv' /\ ArrivedInv'
  <2>1. Begun(sent)' = Begun(sent) /\ Begun(FRAME)' = Begun(FRAME)
    BY <1>1 DEF Begun
  <2>2. ArrivingInv'
    BY <1>1, <2>1 DEF ArrivingInv, Fresh
  <2>3. ArrivedInv'
    BY <1>1, <2>1 DEF ArrivedInv, Fresh
  <2> QED
    BY <2>2, <2>3
<1> QED
  BY <1>2, <1>3, <1>4, <1>5, <1>6 DEF LinkInv

\* No byte of a clean frame is wiped: it does not come beside a reset.
LEMMA WipeKeeps ==
    ASSUME LinkInv, Wipe
    PROVE  LinkInv'
<1> USE Sizes, Parts
<1>1. /\ \/ task = "wipe" /\ task' = "full"
         \/ task = "wipeDone" /\ task' = "idle"
      /\ rxindex' = rxindex /\ timeout' = timeout
      /\ loaded' = loaded /\ lastRaw' = lastRaw /\ heard' = heard
      /\ port' = port /\ sent' = sent /\ pause' = pause /\ clean' = clean /\ faults' = faults
  BY DEF Wipe, Goto, LineStays, lineVars
<1>2. /\ rawData' \in [0 .. RXBUFF_LEN - 1 -> Bytes]
      /\ \A i \in 0 .. RXBUFF_LEN - 1 : rawData'[i] = 0
  BY DEF Wipe, Wiped, Bytes
<1>3. LinkType'
  BY <1>1, <1>2 DEF LinkType, Tasks
<1>4. TimeInv' /\ QuietInv'
  BY <1>1 DEF TimeInv, QuietInv
<1>5. BlankInv' /\ ValidInv' /\ HeardInv' /\ CountInv'
  BY <1>1, <1>2 DEF BlankInv, ValidInv, HeardInv, CountInv
<1>6. ArrivingInv' /\ ArrivedInv' /\ HandledIsWhole'
  BY <1>1 DEF ArrivingInv, ArrivedInv, HandledIsWhole
<1> QED
  BY <1>3, <1>4, <1>5, <1>6 DEF LinkInv

\* While a clean frame is arriving, or waits to be handled, the handler waits for
\* no more and no fewer bytes than a frame has, but for its first byte on UART3:
\* the byte behind it is a blank one, which stands for an empty frame of 4.
LEMMA LengthOfClean ==
    ASSUME LinkInv, NEW m \in 1 .. FRAME, Begun(m), rxindex >= m, NEW n \in Expected,
           m < FRAME => rxindex = m, task \notin {"wipe", "wipeDone"}
    PROVE  n = FRAME \/ (m = 1 /\ n = 4)
<1> USE Sizes, Parts
<1>1. rawData[0] = 1
  BY DEF Begun
<1>2. CASE port = "UART1"
  <2>1. LengthAt(0, 3) = {FRAME - 3}
    BY <1>1 DEF LengthAt
  <2> QED
    BY <1>2, <2>1 DEF Expected
<1>3. CASE port = "UART2"
  BY <1>3 DEF Expected
<1>4. CASE port = "UART3"
  <2>1. CASE m > 1
    <3>1. rawData[1] = 1 + 1
      BY <2>1 DEF Begun
    <3>2. LengthAt(1, 4) = {FRAME - 4}
      BY <3>1 DEF LengthAt
    <3> QED
      BY <1>4, <3>2 DEF Expected
  <2>2. CASE m = 1
    <3>1. rawData[1] = 0
      BY <2>2 DEF BlankInv
    <3>2. LengthAt(1, 4) = {0}
      BY <3>1 DEF LengthAt
    <3> QED
      BY <1>4, <2>2, <3>2 DEF Expected
  <2> QED
    BY <2>1, <2>2
<1> QED
  BY <1>2, <1>3, <1>4

LEMMA FullKeeps ==
    ASSUME LinkInv, FullTest
    PROVE  LinkInv'
<1> USE Sizes, Parts
<1>1. /\ task = "full" /\ task' \in {"check", "idle"}
      /\ rxindex' = rxindex /\ timeout' = timeout /\ rawData' = rawData
      /\ loaded' = loaded /\ lastRaw' = lastRaw /\ heard' = heard
      /\ port' = port /\ sent' = sent /\ pause' = pause /\ clean' = clean /\ faults' = faults
  BY DEF FullTest, Goto, rxVars, LineStays, lineVars
<1>2. PICK n \in Expected : task' = IF rxindex > 0 /\ rxindex >= n THEN "check" ELSE "idle"
  BY DEF FullTest, Goto
<1>3. LinkType'
  BY <1>1 DEF LinkType, Tasks
<1>4. TimeInv'
  BY <1>1 DEF TimeInv
<1>5. QuietInv'
  BY <1>1, <1>2 DEF QuietInv
<1>6. BlankInv' /\ ValidInv' /\ HeardInv' /\ HandledIsWhole'
  BY <1>1 DEF BlankInv, ValidInv, HeardInv, HandledIsWhole
<1>7. CountInv'
  BY <1>1 DEF CountInv, SentWith, Begun
<1>8. ArrivingInv'
  <2> SUFFICES ASSUME sent > 0, clean PROVE ArrivingInv'
    BY <1>1 DEF ArrivingInv
  <2>1. rxindex = sent /\ Begun(sent) /\ heard \notin {"clean", "due"}
    BY DEF ArrivingInv
  <2>2. n = FRAME \/ (sent = 1 /\ n = 4)
    BY <1>1, <2>1, LengthOfClean
  <2>3. task' = "idle" /\ pause' # 0
    BY <1>1, <1>2, <2>1, <2>2 DEF TimeInv
  <2> QED
    BY <1>1, <2>1, <2>3 DEF ArrivingInv, Begun, Fresh
<1>9. ArrivedInv'
  <2> SUFFICES ASSUME heard \in {"clean", "due"} PROVE ArrivedInv'
    BY <1>1 DEF ArrivedInv
  <2>1. rxindex >= FRAME /\ Begun(FRAME)
    BY DEF ArrivedInv
  <2>2. n = FRAME
    BY <1>1, <2>1, LengthOfClean
  <2>3. task' = "check"
    BY <1>2, <2>1, <2>2
  <2> QED
    BY <1>1, <2>1, <2>3 DEF ArrivedInv, Begun, Fresh
<1> QED
  BY <1>3, <1>4, <1>5, <1>6, <1>7, <1>8, <1>9 DEF LinkInv

\* A valid frame ends with its last byte, so FRAME bytes have been stored, and with a
\* first and a last byte in place no byte between them was lost.
LEMMA CheckKeeps ==
    ASSUME LinkInv, CheckFrame
    PROVE  LinkInv'
<1> USE Sizes, Parts
<1>1. /\ task = "check" /\ task' = IF FrameValid THEN "handle" ELSE "reset"
      /\ rxindex' = rxindex /\ timeout' = timeout /\ rawData' = rawData
      /\ loaded' = loaded /\ lastRaw' = lastRaw /\ heard' = heard
      /\ port' = port /\ sent' = sent /\ pause' = pause /\ clean' = clean /\ faults' = faults
  BY DEF CheckFrame, Goto, rxVars, LineStays, lineVars
<1>2. LinkType'
  BY <1>1 DEF LinkType, Tasks
<1>3. TimeInv' /\ QuietInv'
  BY <1>1 DEF TimeInv, QuietInv
<1>4. BlankInv' /\ HeardInv' /\ HandledIsWhole'
  BY <1>1 DEF BlankInv, HeardInv, HandledIsWhole
<1>5. CountInv'
  BY <1>1 DEF CountInv, SentWith, Begun
<1>6. ValidInv'
  <2> SUFFICES ASSUME FrameValid PROVE ValidInv'
    BY <1>1 DEF ValidInv
  <2>1. rawData[0] = 1 /\ rawData[FRAME - 1] = FRAME
    BY DEF FrameValid
  <2>2. rxindex >= FRAME
    BY <1>1, <2>1 DEF BlankInv
  <2>3. (port = "UART2" /\ faults > FRAME) \/ Begun(FRAME)
    BY <1>1, <2>1, <2>2 DEF FrameValid, CountInv, Begun
  <2> QED
    BY <1>1, <2>1, <2>2, <2>3 DEF ValidInv, Begun
<1>7. ArrivingInv'
  BY <1>1 DEF ArrivingInv
<1>8. ArrivedInv'
  <2> SUFFICES ASSUME heard \in {"clean", "due"} PROVE ArrivedInv'
    BY <1>1 DEF ArrivedInv
  <2>1. rxindex >= FRAME /\ Begun(FRAME)
    BY DEF ArrivedInv
  <2>2. FrameValid
    BY <2>1 DEF FrameValid, Begun
  <2> QED
    BY <1>1, <2>1, <2>2 DEF ArrivedInv, Begun, Fresh
<1> QED
  BY <1>2, <1>3, <1>4, <1>5, <1>6, <1>7, <1>8 DEF LinkInv

LEMMA HandleKeeps ==
    ASSUME LinkInv, HandleFrame
    PROVE  LinkInv'
<1> USE Sizes, Parts
<1>1. /\ task = "handle" /\ task' \in {"send", "reset"}
      /\ rxindex' = rxindex /\ timeout' = timeout /\ rawData' = rawData
      /\ loaded' = loaded /\ heard' = "none"
      /\ port' = port /\ sent' = sent /\ pause' = pause /\ clean' = clean /\ faults' = faults
  BY DEF HandleFrame, Goto, rxVars, lineVars
<1>2. LinkType'
  BY <1>1 DEF LinkType, Tasks
<1>3. TimeInv' /\ QuietInv'
  BY <1>1 DEF TimeInv, QuietInv
<1>4. BlankInv' /\ ValidInv' /\ HeardInv'
  BY <1>1 DEF BlankInv, ValidInv, HeardInv
<1>5. CountInv'
  BY <1>1 DEF CountInv, SentWith, Begun
<1>6. ArrivingInv' /\ ArrivedInv'
  BY <1>1 DEF ArrivingInv, ArrivedInv
<1>7. HandledIsWhole'
  <2>1. Begun(FRAME) => lastRaw' = WholeFrame
    BY DEF HandleFrame, WholeFrame, Begun
  <2> QED
    BY <1>1, <2>1 DEF HandledIsWhole, ValidInv
<1> QED
  BY <1>2, <1>3, <1>4, <1>5, <1>6, <1>7 DEF LinkInv

\* The answer and the reset come after the frame was handled, while no clean frame is
\* under way.
LEMMA AnswerKeeps ==
    ASSUME LinkInv, AnswerBox \/ ResetIndex
    PROVE  LinkInv'
<1> USE Sizes, Parts
<1>1. /\ \/ task = "send" /\ task' = "reset" /\ rxindex' = rxindex
         \/ task = "reset" /\ task' = "wipeDone" /\ rxindex' = 0
      /\ timeout' = timeout /\ rawData' = rawData
      /\ loaded' = loaded /\ lastRaw' = lastRaw /\ heard' = heard
      /\ port' = port /\ sent' = sent /\ pause' = pause /\ clean' = clean /\ faults' = faults
  BY DEF AnswerBox, ResetIndex, Goto, rxVars, LineStays, lineVars
<1>2. LinkType'
  BY <1>1 DEF LinkType, Tasks
<1>3. TimeInv' /\ QuietInv'
  BY <1>1 DEF TimeInv, QuietInv
<1>4. BlankInv' /\ ValidInv' /\ HeardInv' /\ HandledIsWhole'
  BY <1>1 DEF BlankInv, ValidInv, HeardInv, HandledIsWhole
<1>5. CountInv'
  BY <1>1 DEF CountInv, SentWith, Begun
<1>6. ArrivingInv' /\ ArrivedInv'
  BY <1>1 DEF ArrivingInv, ArrivedInv
<1> QED
  BY <1>2, <1>3, <1>4, <1>5, <1>6 DEF LinkInv

\* What fills and clears the queue leaves the line alone.
LEMMA LineUntouched ==
    ASSUME LinkInv, UNCHANGED <<rxVars, lineVars, task, loaded, lastRaw, heard>>
    PROVE  LinkInv'
<1>1. /\ task' = task /\ rxindex' = rxindex /\ timeout' = timeout /\ rawData' = rawData
      /\ loaded' = loaded /\ lastRaw' = lastRaw /\ heard' = heard
      /\ port' = port /\ sent' = sent /\ pause' = pause /\ clean' = clean /\ faults' = faults
  BY DEF rxVars, lineVars
<1>2. LinkType' /\ TimeInv' /\ QuietInv'
  BY <1>1 DEF LinkInv, LinkType, TimeInv, QuietInv
<1>3. BlankInv' /\ ValidInv' /\ HeardInv' /\ HandledIsWhole'
  BY <1>1 DEF LinkInv, BlankInv, ValidInv, HeardInv, HandledIsWhole, Begun
<1>4. CountInv'
  BY <1>1 DEF LinkInv, CountInv, SentWith, Begun
<1>5. ArrivingInv' /\ ArrivedInv'
  BY <1>1 DEF LinkInv, ArrivingInv, ArrivedInv, Begun, Fresh
<1> QED
  BY <1>2, <1>3, <1>4, <1>5 DEF LinkInv

LEMMA LinkStepKeeps == LinkInv /\ [LinkNext]_linkVars => LinkInv'
<1> SUFFICES ASSUME LinkInv, [LinkNext]_linkVars PROVE LinkInv'
  OBVIOUS
<1>1. CASE Peer \/ FrameTooSoon
  BY <1>1, BytesKeep DEF Peer
<1>2. CASE ByteLost
  BY <1>2, LossKeeps
<1>3. CASE Tick
  BY <1>3, TickKeeps
<1>4. CASE Handler
  BY <1>4, LoadKeeps, StoreKeeps, QuietKeeps, WipeKeeps, FullKeeps, CheckKeeps,
     HandleKeeps, AnswerKeeps DEF Handler
<1>5. CASE Producers
  BY <1>5, LineUntouched DEF Producers, LineStays
<1>6. CASE UNCHANGED linkVars
  BY <1>6, LineUntouched DEF linkVars
<1> QED
  BY <1>1, <1>2, <1>3, <1>4, <1>5, <1>6 DEF LinkNext

--------------------------------------------------------------------------------
(* The line: what it promises.                                              *)

\* The invariant of the line, which binds the buffer, the countdown, the peer's place
\* in its frame and the place of the handler to each other, holds in every behaviour.
THEOREM LinkInvariance == LinkSpec => []LinkInv
BY LinkStartsWell, LinkStepKeeps, PTL DEF LinkSpec

\* Whatever bytes are lost and wherever the interrupt cuts in, what is handled is one
\* whole frame (x_uart.c:107-130, 155-163).
THEOREM WholeFrames == LinkSpec => []HandledIsWhole
<1>1. LinkInv => HandledIsWhole
  BY DEF LinkInv
<1> QED
  BY <1>1, LinkInvariance, PTL

\* A frame that follows a quiet line and loses no byte is handled in the first tick
\* after it, and no frame is handled twice (x_uart.c:66-106, 151-163).
THEOREM FramesOnce == LinkSpec => []EachFrameOnce
<1>1. LinkInv => EachFrameOnce
  <2> SUFFICES ASSUME LinkInv PROVE EachFrameOnce
    OBVIOUS
  <2>1. task = "idle" => heard # "due"
    BY Parts DEF ArrivedInv
  <2>2. ASSUME task = "handle" PROVE heard # "none"
    <3>1. rawData[FRAME - 1] = FRAME /\ FRAME - 1 \in 0 .. RXBUFF_LEN - 1
      BY <2>2, Parts, Sizes DEF ValidInv
    <3> QED
      BY <2>2, <3>1, Parts DEF HeardInv
  <2> QED
    BY <2>1, <2>2 DEF EachFrameOnce
<1> QED
  BY <1>1, LinkInvariance, PTL

\* A line quiet for COM_TIMEOUT whole ticks has an empty buffer, whatever a fault had
\* left in it (x_uart.c:85, 151-154).
THEOREM QuietEmpties == LinkSpec => []QuietLineEmpties
<1>1. LinkInv => QuietLineEmpties
  BY Parts, Sizes DEF TimeInv, QuietLineEmpties
<1> QED
  BY <1>1, LinkInvariance, PTL

--------------------------------------------------------------------------------
(* The queue in the link.                                                   *)

\* The link does nothing to the queue but what the queue's own operations do.
LEMMA LinkStepIsQueueStep == [LinkNext]_linkVars => [Next]_vars
<1> SUFFICES ASSUME [LinkNext]_linkVars PROVE Next \/ UNCHANGED vars
  OBVIOUS
<1>1. CASE Peer \/ FrameTooSoon \/ ByteLost
  BY <1>1 DEF Peer, FrameStarts, FrameTooSoon, FrameGoesOn, ByteLost, HandlerStays
<1>2. CASE Tick
  BY <1>2 DEF Tick
<1>3. CASE AnswerBox
  BY <1>3 DEF AnswerBox, Next
<1>4. CASE Handler /\ ~AnswerBox
  BY <1>4 DEF Handler, LoadTimeout, StoreTimeout, QuietTest, Wipe, FullTest, CheckFrame,
     HandleFrame, ResetIndex
<1>5. CASE Producers
  BY <1>5 DEF Producers, Next
<1>6. CASE UNCHANGED linkVars
  BY <1>6 DEF linkVars
<1> QED
  BY <1>1, <1>2, <1>3, <1>4, <1>5, <1>6 DEF LinkNext

\* A behaviour of the link is one of the queue.
LEMMA LinkIsQueue == LinkSpec => Init /\ [][Next]_vars
<1>1. LinkInit => Init
  BY DEF LinkInit
<1> QED
  BY <1>1, LinkStepIsQueueStep, PTL DEF LinkSpec

\* The queue's indices stay consistent where the queue is used, with the frames of
\* the main box giving it its turns (mfp_queue.c:17-65, x_uart.c:155-163).
THEOREM LinkKeepsRing == LinkSpec => [](TypeOK /\ RingInv)
BY LinkIsQueue, RingAlways, PTL DEF IInv

\* The transmit queue keeps its promise where it is used: it is a first-in first-out
\* queue for every interleaving of bytes, ticks and producers (mfp_queue.c:17-65,
\* x_uart.c:155-163).
THEOREM LinkImplementsFifo == LinkSpec => ImplementsFifo
BY LinkIsQueue, RingStepsAreFifo, PTL
================================================================================
