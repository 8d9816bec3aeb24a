SPECIFICATION LinkSpec
CONSTANTS
    MAX_ITEMS = 2
    DATA_MAX_LEN = 1
    Keys = {k1}
    Lens = {1}
    Repeats = {1, 2}
    NoFrame = NoFrame
    Ports = {"UART1", "UART2", "UART3"}
    FRAME = 5
    RXBUFF_LEN = 6
    COM_TIMEOUT = 2
    Misread = {1, 7}
    MAX_FAULTS = 2
INVARIANTS HandledIsWhole EachFrameOnce QuietLineEmpties
PROPERTIES QueuedIsSent
