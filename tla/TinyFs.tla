--------------------------------- MODULE TinyFs --------------------------------
(***************************************************************************)
(* tinyfs: the record store of the BLE stack.  A log of nodes (records and *)
(* removals) runs round a ring of flash sections through a write cache of  *)
(* one page; what is alive in the oldest section is copied to the tail     *)
(* before the tail comes round to it and erases it.  A start reads the     *)
(* sections back.                                                          *)
(*                                                                         *)
(* One thread uses the store, so an operation is one step that computes    *)
(* the state it leaves and, in `images`, every content of the flash on the *)
(* way: a loss of power keeps one of them.  Sizes are in cells.            *)
(***************************************************************************)
EXTENDS TinyFsStore

CONSTANTS
    Own,            \* the key of a record that its owner never deletes
    FirstValue,     \* what that record holds after the first start
    MAX_COUNT,      \* sections written in a run
    MAX_PENDING,    \* changes between two write-throughs; after a loss of power, one
    MAX_LOSSES      \* losses of power

ASSUME RunAssumption ==
    /\ Own \in Keys /\ FirstValue \in Values
    /\ {MAX_COUNT, MAX_PENDING, MAX_LOSSES} \subseteq Nat

VARIABLES
    fs,         \* the store: see Fresh; between two operations no image but the flash's own
    store,      \* what tinyfs_read says of each key
    behind,     \* history: the stores since the last write-through
    losses,
    cut         \* history: the change that a loss of power, the step before, cut off but left made

fsVars == <<fs, store, behind, losses, cut>>

NoChange == <<>>

Settled(m) == [m EXCEPT !.images = {m.flash}]

\* The stack's first start has left its own record, alone.
FsInit ==
    /\ LET blank == [s \in Sections |-> BlankSection]
           m == WrittenThrough(Written(Loaded(blank), Own, FirstValue))
       IN fs = Settled(m) /\ store = StoreOf(m)
    /\ behind = <<store>>
    /\ losses = 0 /\ cut = NoChange

\* An operation runs to its end ...
Done(m) ==
    /\ fs' = Settled(m) /\ store' = StoreOf(m)
    /\ cut' = NoChange /\ UNCHANGED losses

\* ... or the power is lost on the way, and comes back; an erase cut off has left the
\* section as it was or blank.  c is the change under way, NoChange between two operations
\* and in a write-through; cut says so where the outcome is not how an earlier operation
\* left the store.
CutOff(m, c) ==
    /\ losses < MAX_LOSSES
    /\ losses' = losses + 1
    /\ \E f \in m.images : fs' = Loaded(f) /\ store' = StoreOf(fs')
    /\ behind' = <<store'>>
    /\ cut' = IF store' \in ToSet(behind) THEN NoChange ELSE c

\* The bounds of a run.
CanGrow == fs.ok /\ fs.count < MAX_COUNT
CanChange == CanGrow /\ Len(behind) <= IF losses = 0 THEN MAX_PENDING ELSE 1

\* Writing what is there already is left out.
tinyfs_write(k, v) ==
    /\ CanChange /\ v # store[k]
    /\ Done(Written(fs, k, v))
    /\ behind' = Append(behind, store')

tinyfs_del_record(k) ==
    /\ CanChange /\ k # Own /\ Nodes(fs, k) # {}
    /\ Done(Deleted(fs, k))
    /\ behind' = Append(behind, store')

tinyfs_write_through ==
    /\ fs.ok
    /\ Done(WrittenThrough(fs))
    /\ behind' = <<store>>

LossOfPower ==
    /\ fs.ok
    /\ \/ CutOff(fs, NoChange)
       \/ CanChange /\ \E k \in Keys, v \in Values :
             v # store[k] /\ CutOff(Written(fs, k, v), <<k, v>>)
       \/ CanChange /\ \E k \in Keys \ {Own} :
             Nodes(fs, k) # {} /\ CutOff(Deleted(fs, k), <<k, None>>)
       \/ CutOff(WrittenThrough(fs), NoChange)

FsNext ==
    \/ \E k \in Keys, v \in Values : tinyfs_write(k, v)
    \/ \E k \in Keys : tinyfs_del_record(k)
    \/ tinyfs_write_through
    \/ LossOfPower

FsSpec == FsInit /\ [][FsNext]_fsVars

--------------------------------------------------------------------------------
\* What is read is what was written last.  A loss of power at any page or erase,
\* also one during a collection, and the start after it (tinyfs.c:800-828) lose at
\* most the latest changes, none that a later one outlives, and none from before
\* the last write-through (1531-1548), although a record that is overwritten leaves
\* the list before the new one is in flash (1261-1267).  Lost between two operations
\* or in a write-through, the power changes no record beyond that; lost in a write or
\* a deletion, none but the one being written or deleted, and that to no other value.
Records == INSTANCE RecordHistory
ImplementsRecords == Records!Spec

\* No assertion fails: the tail never erases a section with live nodes
\* (tinyfs.c:877), whatever collection a loss of power cut off; and every start
\* finds a section to collect first (791-798).
StaysUp == fs.ok

\* A collection starts in time: whatever operation comes next, what is alive in the
\* oldest section fits in before the tail is back at it.  This is up to how much the
\* stack keeps, not to the code, which looks for room a section ahead
\* (tinyfs.c:1009-1024).
CollectsInTime ==
    /\ CanGrow =>
          /\ \A k \in Keys, v \in Values : RoomFor(Unlisted(fs, k), RecordLen(DataLen(v)))
          /\ RoomFor(fs, RemovalLen)
    /\ fs.avail % PAGE # 0 => RoomFor(fs, PAGE - (fs.avail % PAGE))

\* Between two operations, and after every start, the lists in RAM are true to the
\* log: each record has one live node, where the log has been written and no further
\* back than the section to collect next, and what is read is what it says.  The write
\* cache stands for the page behind the log, and that page and all behind it in the
\* tail are erased (tinyfs.c:585-604, tinyfs_write_cache.c:28-51): a start after a
\* torn page goes on in a page that was never programmed.
SoundStore ==
    /\ Live(fs) /\ store = StoreOf(fs)
    /\ CollectsInTime

\* Wherever the power is lost, also between the erase of a section and the program of
\* its head, a start finds the oldest and the newest section (tinyfs.c:255-276), which
\* the log is read from and goes on in.
EndsAreFound ==
    \A f \in fs.images : ValidSections(f) # {} =>
        LET ends == HeadAndTail(f) IN
        /\ {ends[1], ends[2]} \subseteq ValidSections(f)
        /\ \A s \in ValidSections(f) : Count(f, s) \in Count(f, ends[1]) .. Count(f, ends[2])
================================================================================
