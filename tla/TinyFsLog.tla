-------------------------------- MODULE TinyFsLog ------------------------------
(***************************************************************************)
(* The log of tinyfs: cells are appended at the tail of a ring of flash    *)
(* sections, through a write cache of one page.  A section is erased and   *)
(* given a head when the tail comes to it.                                 *)
(*                                                                         *)
(* The functions of the source are operators on a record m: head, tail and *)
(* gc, the section to collect next, or INVALID; avail, where in the tail   *)
(* the next cell goes; count, the loop count of the tail; buf, the write   *)
(* cache; list, the live nodes by section; ok, whether no assertion has    *)
(* failed; flash, the cells by section; and images, every content of the   *)
(* flash on the way, one of which a loss of power leaves.                  *)
(***************************************************************************)
EXTENDS Integers, Sequences

CONSTANTS
    SECTIONS,       \* sections of the ring
    SECTION,        \* cells of a section
    PAGE,           \* cells of the write cache, and of a page of flash
    LOOPS           \* values of the loop count of a section's head

ASSUME LogAssumption ==
    /\ SECTIONS \in Nat /\ SECTIONS >= 2
    /\ SECTION \in Nat \ {0} /\ PAGE \in Nat \ {0} /\ SECTION % PAGE = 0
    /\ LOOPS \in Nat \ {0}

HEAD == 1           \* cells of a section's head

Sections == 0 .. SECTIONS - 1
INVALID == SECTIONS

Following(s) == (s + 1) % SECTIONS
Preceding(s) == (s + SECTIONS - 1) % SECTIONS

PageUp(o) == (o \div PAGE + 1) * PAGE

Erased == <<>>
HeadCell(n, offset) == <<"head", n, offset>>
BlankSection == [i \in 1 .. SECTION |-> Erased]

--------------------------------------------------------------------------------
(* Reading.                                                                *)

\* section_offset_calc
Moved(s, o, n) ==
    IF o + n >= SECTION THEN <<Following(s), o + n - SECTION + HEAD>> ELSE <<s, o + n>>

\* nvm_read_node, of n cells of the image f.
Read(f, s, o, n) ==
    [i \in 1 .. n |-> LET a == Moved(s, o, i - 1) IN f[a[1]][a[2] + 1]]

\* The image f with these cells at (s, o).
Overlaid(f, s, o, cells) ==
    [t \in Sections |-> IF t # s THEN f[t] ELSE
        [i \in 1 .. SECTION |-> IF i \in o + 1 .. o + Len(cells) THEN cells[i - o] ELSE f[t][i]]]

\* tinyfs_nvm_read_with_cache
Seen(m) == Overlaid(m.flash, m.tail, m.avail - Len(m.buf), m.buf)

--------------------------------------------------------------------------------
(* Appending.                                                              *)

\* nvm_program of the write cache to its page, which may be cut off.
Flush(m, page) ==
    LET Programmed(n) == Overlaid(m.flash, m.tail, page, SubSeq(m.buf, 1, n))
    IN [m EXCEPT !.flash = Programmed(Len(m.buf)), !.buf = <<>>,
                 !.images = @ \cup {Programmed(n) : n \in 1 .. Len(m.buf)}]

PutCell(m, c) ==
    LET n == [m EXCEPT !.buf = Append(@, c), !.avail = @ + 1]
    IN IF Len(n.buf) = PAGE THEN Flush(n, n.avail - PAGE) ELSE n

\* The tail goes on to the next section, which it erases.
OpenSection(m, offset) ==
    LET t == Following(m.tail)
        erased == Overlaid(m.flash, t, 0, BlankSection)
        n == [m EXCEPT !.tail = t, !.avail = 0, !.count = (@ + 1) % LOOPS,
                       !.head = IF @ = t THEN Following(t) ELSE @,
                       !.ok = @ /\ (m.head = t => m.list[t] = <<>>),
                       !.flash = erased, !.images = @ \cup {erased}]
    IN PutCell(n, HeadCell(n.count, offset))

\* node_write: cell number i of a node of n cells, and a head where a section begins.
WriteCell(m, c, i, n) ==
    PutCell(IF m.avail = SECTION
            THEN OpenSection(m, IF i = 1 THEN HEAD ELSE HEAD + n - i + 1)
            ELSE m, c)

WriteCells(m, cells) ==
    LET w[i \in 0 .. Len(cells)] ==
            IF i = 0 THEN m ELSE WriteCell(w[i - 1], cells[i], i, Len(cells))
    IN w[Len(cells)]

\* Where the next node will start.
NextAddr(m) ==
    IF m.avail = SECTION THEN <<Following(m.tail), HEAD>> ELSE <<m.tail, m.avail>>

WithGc(m) == [m EXCEPT !.gc = IF @ = INVALID THEN m.head ELSE @]

AppendNode(m, cells) == WriteCells(WithGc(m), cells)

\* data_write_through
WriteOut(m) ==
    LET n == IF m.buf = <<>> THEN m ELSE Flush(m, m.avail - Len(m.buf))
    IN [n EXCEPT !.avail = PageUp(@)]

--------------------------------------------------------------------------------
(* What holds between two appends.                                         *)

\* Contents of the flash.
Flashes(Cell) == [Sections -> [1 .. SECTION -> Cell]]

\* The record that the functions of the log take, of these cells and lists.
Logs(Cell, List) ==
    [head : Sections, tail : Sections, gc : Sections \cup {INVALID},
     avail : 0 .. SECTION, count : 0 .. LOOPS - 1, buf : Seq(Cell),
     list : [Sections -> List], ok : BOOLEAN,
     flash : Flashes(Cell), images : SUBSET Flashes(Cell)]

\* The page that the write cache stands for.
From(m) == m.avail - Len(m.buf)

\* The cache is less than a page and stands for the page behind the log; that page
\* and all behind it are erased.
GoodLog(m, Cell, List) ==
    /\ m \in Logs(Cell, List)
    /\ Len(m.buf) < PAGE /\ Len(m.buf) <= m.avail
    /\ From(m) % PAGE = 0
    /\ \A i \in From(m) + 1 .. SECTION : m.flash[m.tail][i] = Erased
================================================================================
