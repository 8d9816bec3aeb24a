SPECIFICATION FsSpec
CONSTANTS
    Keys = {a, b}
    Own = a
    FirstValue = 2
    Values = {2, 3}
    SECTIONS = 3
    SECTION = 12
    PAGE = 6
    META = 1
    CRC = 1
    LOOPS = 65536
    MAX_COUNT = 4
    MAX_PENDING = 2
    MAX_LOSSES = 2
INVARIANTS StaysUp SoundStore EndsAreFound
PROPERTY ImplementsRecords
