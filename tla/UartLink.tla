-------------------------------- MODULE UartLink --------------------------------
(***************************************************************************)
(* x_uart.c: how the bytes of a serial line become frames, and how a frame *)
(* of the main box gives the transmit queue (MfpQueue) its turn to send.   *)
(* The receive interrupt appends bytes to a buffer; the 10 ms timer counts *)
(* a timeout down, empties the buffer of a line gone quiet, and handles a  *)
(* frame that is complete.  The interrupt comes between any two steps of   *)
(* the timer's handler, and between the load and the store of its timeout. *)
(***************************************************************************)
EXTENDS MfpQueue

CONSTANTS
    Ports,          \* the lines: "UART1" main box, "UART2" and "UART3" voice chip
    FRAME,          \* bytes of a frame of the line
    RXBUFF_LEN,     \* bytes the interrupt stores (the array is longer)
    COM_TIMEOUT,    \* ticks without a byte after which a line counts as quiet
    Misread,        \* lengths a byte may stand for that is not the length byte
    MAX_FAULTS      \* lost bytes and frames that follow too soon

ASSUME LinkAssumption ==
    /\ Ports \subseteq {"UART1", "UART2", "UART3"}
    /\ FRAME \in Nat /\ FRAME > 4
    /\ RXBUFF_LEN \in Nat /\ RXBUFF_LEN >= FRAME
    /\ COM_TIMEOUT \in Nat /\ COM_TIMEOUT >= 2    \* one: a tick within a frame empties the line
    /\ Misread \subseteq Nat
    /\ MAX_FAULTS \in Nat

VARIABLES
    port,       \* the line this behaviour is about
    rxindex, timeout,
    rawData,    \* a byte is its position in its frame, 1 to FRAME; 0 is a wiped one
    task,       \* where the handler of the 10 ms timer is
    loaded,     \* its copy of timeout, between load and store
    lastRaw,    \* the frame handled last
    sent,       \* bytes of the current frame the peer has sent; 0: it pauses
    pause,      \* ticks begun since its last byte, one whose handler it came into
                \* included, counted up to Quiet
    heard,      \* a frame sent and not handled: "clean", "due" once a tick began
                \* after it, "other" if it was not clean, or "none"
    clean,      \* the current frame followed a quiet line and has lost no byte
    faults

rxVars == <<rxindex, timeout, rawData>>
lineVars == <<port, sent, pause, clean, faults>>
linkVars == <<vars, rxVars, lineVars, task, loaded, lastRaw, heard>>

\* A byte may come into a tick's handler after the countdown, which then takes
\* COM_TIMEOUT more ticks, the last of which must have emptied the buffer.
Quiet == COM_TIMEOUT + 2
Bytes == 0 .. FRAME
Wiped == [i \in 0 .. RXBUFF_LEN - 1 |-> 0]
WholeFrame == [i \in 0 .. FRAME - 1 |-> i + 1]

LinkInit ==
    /\ Init
    /\ port \in Ports
    /\ rxindex = 0 /\ timeout = 0 /\ rawData = Wiped
    /\ task = "idle" /\ loaded = 0
    /\ lastRaw = <<>>
    /\ sent = 0 /\ pause = Quiet /\ clean = TRUE
    /\ heard = "none"
    /\ faults = 0

--------------------------------------------------------------------------------
(* The line and the receive interrupt.                                     *)

\* mutant: a byte does not renew the timeout of a line that is busy already.
ReceiveRenewsNot(b) ==
    IF rxindex < RXBUFF_LEN
    THEN /\ rawData' = [rawData EXCEPT ![rxindex] = b]
         /\ rxindex' = rxindex + 1
         /\ timeout' = IF rxindex = 0 THEN COM_TIMEOUT ELSE timeout
    ELSE UNCHANGED rxVars

\* HAL_UART_RxCpltCallback: a byte that finds the buffer full is dropped and does
\* not renew the timeout.
Receive(b) ==
    IF rxindex < RXBUFF_LEN
    THEN /\ rawData' = [rawData EXCEPT ![rxindex] = b]
         /\ rxindex' = rxindex + 1
         /\ timeout' = COM_TIMEOUT
    ELSE UNCHANGED rxVars

\* The peer's byte number `sent` + 1; with the last one a frame has been sent.
PutOnLine(isClean) ==
    /\ sent' = (sent + 1) % FRAME
    /\ pause' = IF task = "idle" THEN 0 ELSE 1
    /\ clean' = isClean
    /\ heard' = IF sent + 1 < FRAME \/ heard \in {"clean", "due"} THEN heard
                ELSE IF isClean THEN "clean" ELSE "other"

HandlerStays == UNCHANGED <<vars, port, task, loaded, lastRaw>>

\* A frame begins on a quiet line ...
FrameStarts ==
    /\ sent = 0 /\ pause = Quiet
    /\ Receive(1) /\ PutOnLine(TRUE)
    /\ HandlerStays /\ UNCHANGED faults

\* ... or too soon after the one before: it is not promised to arrive.
FrameTooSoon ==
    /\ sent = 0 /\ pause < Quiet /\ faults < MAX_FAULTS
    /\ faults' = faults + 1
    /\ Receive(1) /\ PutOnLine(FALSE)
    /\ HandlerStays

FrameGoesOn ==
    /\ sent > 0
    /\ Receive(sent + 1) /\ PutOnLine(clean)
    /\ HandlerStays /\ UNCHANGED faults

\* The receive FIFO overruns while interrupts are off (flash is erased or written).
ByteLost ==
    /\ sent > 0 /\ faults < MAX_FAULTS
    /\ faults' = faults + 1
    /\ PutOnLine(FALSE)
    /\ HandlerStays /\ UNCHANGED rxVars

--------------------------------------------------------------------------------
(* x_uart_10ms for the line: the countdown, then its frame handler.        *)

Goto(from, to) == task = from /\ task' = to
LineStays == UNCHANGED <<lineVars, heard>>

\* The timer fires.  A byte takes 0.1 to 1 ms and the handler less, so within a
\* frame a byte comes between the end of a handler and the next tick.
Tick ==
    /\ ~(sent > 0 /\ pause > 0)
    /\ Goto("idle", "load")
    /\ pause' = IF pause < Quiet THEN pause + 1 ELSE pause
    /\ heard' = IF heard = "clean" THEN "due" ELSE heard
    /\ UNCHANGED <<vars, rxVars, loaded, lastRaw, port, sent, clean, faults>>

\* if (timeout > 0) timeout--;
LoadTimeout ==
    /\ IF timeout > 0 THEN Goto("load", "store") ELSE Goto("load", "quiet")
    /\ loaded' = timeout
    /\ UNCHANGED <<vars, rxVars, lastRaw>> /\ LineStays

StoreTimeout ==
    /\ Goto("store", "quiet")
    /\ timeout' = loaded - 1
    /\ loaded' = 0
    /\ UNCHANGED <<vars, rxindex, rawData, lastRaw>> /\ LineStays

\* mutant: a line gone quiet loses its bytes but not its index.
QuietTestKeepsIndex ==
    /\ IF rxindex # 0 /\ timeout = 0
       THEN UNCHANGED rxindex /\ Goto("quiet", "wipe")
       ELSE UNCHANGED rxindex /\ Goto("quiet", "full")
    /\ UNCHANGED <<vars, timeout, rawData, loaded, lastRaw>> /\ LineStays

QuietTest ==
    /\ IF rxindex # 0 /\ timeout = 0
       THEN rxindex' = 0 /\ Goto("quiet", "wipe")
       ELSE UNCHANGED rxindex /\ Goto("quiet", "full")
    /\ UNCHANGED <<vars, timeout, rawData, loaded, lastRaw>> /\ LineStays

\* The memset after either reset of the index: a byte received since the reset is
\* wiped, but counted.
Wipe ==
    /\ \/ Goto("wipe", "full")
       \/ Goto("wipeDone", "idle")
    /\ rawData' = Wiped
    /\ UNCHANGED <<vars, rxindex, timeout, loaded, lastRaw>> /\ LineStays

\* What the byte at index i says, taken as a length by a line whose length byte
\* is the one at that position of a frame and counts all but `rest` bytes.
LengthAt(i, rest) ==
    CASE rawData[i] = i + 1 -> {FRAME - rest}
      [] rawData[i] = 0     -> {0}
      [] OTHER              -> Misread

\* How many bytes the handler waits for.
Expected ==
    CASE port = "UART1" -> {n + 3 : n \in LengthAt(0, 3)}
      [] port = "UART2" -> {FRAME}
      [] port = "UART3" -> {n + 4 : n \in LengthAt(1, 4)}

FullTest ==
    /\ \E n \in Expected :
          IF rxindex > 0 /\ rxindex >= n THEN Goto("full", "check") ELSE Goto("full", "idle")
    /\ UNCHANGED <<vars, rxVars, loaded, lastRaw>> /\ LineStays

\* Checksum (UART1), CRC (UART3), first and last byte (UART2).
FrameValid ==
    IF port = "UART2"
    THEN rawData[0] = 1 /\ rawData[FRAME - 1] = FRAME
    ELSE \A i \in 0 .. FRAME - 1 : rawData[i] = i + 1

\* mutant: the buffer is given back to the interrupt before the frame is read.
CheckReleases ==
    /\ IF FrameValid THEN Goto("check", "handle") ELSE Goto("check", "reset")
    /\ rxindex' = 0
    /\ UNCHANGED <<vars, timeout, rawData, loaded, lastRaw>> /\ LineStays

CheckFrame ==
    /\ IF FrameValid THEN Goto("check", "handle") ELSE Goto("check", "reset")
    /\ UNCHANGED <<vars, rxVars, loaded, lastRaw>> /\ LineStays

\* uart1_cmdHandle, uart2_cmdHandle or the values of UART3, read from the buffer.
HandleFrame ==
    /\ Goto("handle", IF port = "UART1" THEN "send" ELSE "reset")
    /\ lastRaw' = [i \in 0 .. FRAME - 1 |-> rawData[i]]
    /\ heard' = "none"
    /\ UNCHANGED <<vars, rxVars, lineVars, loaded>>

\* The dock's turn on the line of the main box: mfp_tx_task, which may find nothing.
AnswerBox ==
    /\ Goto("send", "reset")
    /\ \/ mfp_tx_task
       \/ (count = 0 \/ tx_queue[head].left = 0) /\ UNCHANGED vars
    /\ UNCHANGED <<rxVars, loaded, lastRaw>> /\ LineStays

\* mutant: a frame handled is not taken out of the buffer.
ResetForgotten ==
    /\ Goto("reset", "idle")
    /\ UNCHANGED <<vars, rxVars, loaded, lastRaw>> /\ LineStays

ResetIndex ==
    /\ Goto("reset", "wipeDone")
    /\ rxindex' = 0
    /\ UNCHANGED <<vars, timeout, rawData, loaded, lastRaw>> /\ LineStays

--------------------------------------------------------------------------------
\* The rest of the main loop fills and clears the queue between two ticks.
Producers ==
    /\ task = "idle"
    /\ \/ \E k \in Keys, len \in Lens, n \in Repeats : mfp_send_request(k, len, n)
       \/ mfp_tx_queue_clear
    /\ UNCHANGED <<rxVars, task, loaded, lastRaw>> /\ LineStays

Peer == FrameStarts \/ FrameGoesOn

Handler ==
    \/ LoadTimeout \/ StoreTimeout \/ QuietTest \/ Wipe
    \/ FullTest \/ CheckFrame \/ HandleFrame \/ AnswerBox \/ ResetIndex

LinkNext == Peer \/ FrameTooSoon \/ ByteLost \/ Tick \/ Handler \/ Producers

\* The timer's callback starts the timer again and runs to its end; the main box
\* polls for ever.
LinkSpec ==
    /\ LinkInit /\ [][LinkNext]_linkVars
    /\ WF_linkVars(Peer) /\ WF_linkVars(Tick) /\ WF_linkVars(Handler)

--------------------------------------------------------------------------------
\* Whatever bytes are lost and wherever the interrupt cuts in, what is handled is
\* one whole frame (x_uart.c:107-130, 155-163): the index is reset only after the
\* frame was read, and bytes that wait behind it never become a part of it.  A frame
\* of UART2 is known by its first and last byte alone: of two that follow each other
\* too soon and lose a frame's length of bytes, what is left may pass for one.
HandledIsWhole ==
    (port = "UART2" /\ faults > FRAME) \/ lastRaw \in {<<>>, WholeFrame}

\* A frame that follows a quiet line and loses no byte is handled by the end of the
\* first tick after it, and no frame is handled twice (x_uart.c:66-106, 151-163):
\* neither the countdown that the interrupt cuts in two, nor a reset of the index
\* beside an arriving byte, costs such a frame a byte.
EachFrameOnce ==
    /\ task = "idle" => heard # "due"
    /\ task = "handle" => heard # "none"

\* Whatever a fault left in the buffer is gone once the line has been quiet for
\* COM_TIMEOUT whole ticks, also a byte that was counted but wiped, or one kept behind a full buffer
\* (x_uart.c:85, 151-154): the next frame is read from its first byte.
QuietLineEmpties == task = "idle" /\ pause >= COM_TIMEOUT + 1 => rxindex = 0

\* Faults on the line to the main box hold no request up for ever: whatever heads
\* the queue is sent and leaves, or the queue is cleared (x_uart.c:155-163,
\* mfp_queue.c:43-65).
QueuedIsSent == \A s \in Slots :
    (port = "UART1" /\ head = s /\ count > 0) ~> (head # s \/ count = 0)
================================================================================
