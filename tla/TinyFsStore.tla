-------------------------------- MODULE TinyFsStore -----------------------------
(***************************************************************************)
(* The records of tinyfs in RAM and in the log: lists of live nodes, the   *)
(* collection that copies what is alive in the oldest section to the tail, *)
(* the operations, and the start, which reads the sections back.  The      *)
(* operators are on the record m of TinyFsLog.                             *)
(***************************************************************************)
EXTENDS TinyFsLog, SequencesExt, FiniteSetsExt

CONSTANTS
    Keys,
    Values,         \* what a record may hold: see DataLen
    META, CRC       \* cells of a node's metadata, and of a checksum

None == 0           \* no record
Corrupted == 1      \* a record whose data do not match their checksum

\* The first of the sections after s, s itself the last, that is in T.
FirstAfter(s, T) ==
    LET d == CHOOSE d \in 1 .. SECTIONS :
                /\ (s + d) % SECTIONS \in T
                /\ \A e \in 1 .. d - 1 : (s + e) % SECTIONS \notin T
    IN (s + d) % SECTIONS

--------------------------------------------------------------------------------
(* Cells, and the nodes made of them.                                      *)

Cells(what, k, v, n) == [i \in 1 .. n |-> <<what, k, v, i>>]

\* Cells of the data v: the values 2n and 2n + 1 are of the same length.
DataLen(v) == v \div 2

\* The metadata of a record say its key and the length of its data; both checksums
\* follow the data.
RecordCells(k, v) ==
    Cells("add", k, DataLen(v), META) \o Cells("data", k, v, DataLen(v))
        \o Cells("dataCrc", k, v, CRC) \o Cells("addCrc", k, DataLen(v), CRC)
RemovalCells(k) == Cells("del", k, 0, META) \o Cells("delCrc", k, 0, CRC)

RecordLen(length) == META + length + 2 * CRC
RemovalLen == META + CRC

ASSUME StoreAssumption ==
    /\ SECTIONS >= 3
    /\ META \in Nat \ {0} /\ CRC \in Nat \ {0}
    /\ Values \subseteq Nat \ {0, 1}
    /\ \A v \in Values : HEAD + RecordLen(DataLen(v)) <= SECTION

--------------------------------------------------------------------------------
(* The store.  All operators below are on a record m of this form.         *)

\* A store that knows nothing of its flash f yet.
Fresh(f) ==
    [head |-> 0, tail |-> Preceding(0), gc |-> INVALID, avail |-> SECTION, count |-> 0,
     buf |-> <<>>,                          \* the write cache
     list |-> [s \in Sections |-> <<>>],    \* tinyfs_list: live nodes by section
     ok |-> TRUE,                           \* no assertion has failed
     flash |-> f, images |-> {f}]

Lists(m) == UNION {{m.list[s][i] : i \in DOMAIN m.list[s]} : s \in Sections}
Nodes(m, k) == {n \in Lists(m) : n.key = k}
ListLen(l) ==
    LET sum[i \in 0 .. Len(l)] == IF i = 0 THEN 0 ELSE sum[i - 1] + RecordLen(l[i].length)
    IN sum[Len(l)]

Without(l, k) ==
    IF \E i \in DOMAIN l : l[i].key = k
    THEN RemoveAt(l, CHOOSE i \in DOMAIN l : l[i].key = k) ELSE l

Unlisted(m, k) == [m EXCEPT !.list = [s \in Sections |-> Without(m.list[s], k)]]
Listed(m, k, length, at) ==
    [m EXCEPT !.list[at[1]] = Append(@, [key |-> k, length |-> length, at |-> at])]

AppendRecord(m, k, v) ==
    Listed(AppendNode(m, RecordCells(k, v)), k, DataLen(v), NextAddr(m))

--------------------------------------------------------------------------------
(* Garbage collection.                                                     *)

\* Cell number i of a node in the image f.
CellAt(f, node, i) ==
    LET at == Moved(node.at[1], node.at[2], i - 1) IN f[at[1]][at[2] + 1]

\* Cell number i of the copy of a node: the metadata are written anew, what follows
\* them is read when it is its turn.
CellOf(m, node, i) ==
    IF i <= META THEN <<"add", node.key, node.length, i>> ELSE CellAt(Seen(m), node, i)

CopyCell(m, node, i) == WriteCell(m, CellOf(m, node, i), i, RecordLen(node.length))

\* node_copy
CopyNode(m, node) ==
    LET copy[i \in 0 .. RecordLen(node.length)] ==
            IF i = 0 THEN Unlisted(m, node.key) ELSE CopyCell(copy[i - 1], node, i)
    IN Listed(copy[RecordLen(node.length)], node.key, node.length, NextAddr(m))

\* section_copy: as long as there is a node, the first of the list.
CopyList(m) ==
    LET copy[i \in 0 .. Len(m.list[m.gc])] ==
            IF i = 0 THEN m ELSE LET n == copy[i - 1] IN CopyNode(n, Head(n.list[m.gc]))
    IN copy[Len(m.list[m.gc])]

\* section_garbage_collection
Collect(m) ==
    LET n == CopyList(m)
        w == IF n.avail % PAGE # 0 THEN WriteOut(n) ELSE n
    IN [w EXCEPT !.gc = Following(@)]

\* mutant: only in time, as if no loss of power ever cut a collection off.
MustCollectInTime(m, n) ==
    /\ m.gc # INVALID
    /\ Following(m.tail) = Preceding(m.gc)
    /\ m.avail + n + ListLen(m.list[m.gc]) > SECTION

\* Time to collect: an operation of n cells and the copies would not fit before the
\* tail reaches the section that is to be collected.
MustCollect(m, n) ==
    /\ m.gc # INVALID
    /\ LET next == Following(m.tail) IN
       \/ next = m.gc
       \/ next = Preceding(m.gc) /\ m.avail + n + ListLen(m.list[m.gc]) > SECTION

\* garbage_collect_try
Collected(m, n) == IF MustCollect(m, n) THEN Collect(m) ELSE m

--------------------------------------------------------------------------------
(* The operations.                                                         *)

\* do_tinyfs_write
Written(m, k, v) == AppendRecord(Collected(Unlisted(m, k), RecordLen(DataLen(v))), k, v)

\* node_del
Deleted(m, k) == Unlisted(AppendNode(Collected(m, RemovalLen), RemovalCells(k)), k)

\* tinyfs_write_through
WrittenThrough(m) ==
    LET padding == PAGE - (m.avail % PAGE) IN
    IF m.avail % PAGE = 0 THEN m
    ELSE IF MustCollect(m, padding) THEN Collect(m) ELSE WriteOut(m)

--------------------------------------------------------------------------------
(* The start: tinyfs_init.                                                 *)

ValidSections(f) == {s \in Sections : f[s][1] # Erased}
Count(f, s) == f[s][1][2]

\* A difference of loop counts, as a signed number of their width.
Signed(n) == ((n + (LOOPS \div 2) + LOOPS) % LOOPS) - (LOOPS \div 2)

\* mutant: the search goes on by one section only.
HeadAndTailOfTwo(f) ==
    LET V == ValidSections(f)
        next == FirstAfter(Min(V), V)
        prev == IF Count(f, Min(V)) + 1 = Count(f, next) THEN next ELSE Min(V)
        curr == FirstAfter(prev, V)
    IN IF Signed(Count(f, prev) - Count(f, curr)) > 0 THEN <<curr, prev>> ELSE <<prev, curr>>

\* find_head_tail_section: from the first valid section on, as long as the loop
\* counts go up by one.
HeadAndTail(f) ==
    LET V == ValidSections(f)
        GoesOn(s) == Count(f, s) + 1 = Count(f, FirstAfter(s, V))
        prev == IF GoesOn(Min(V)) THEN FirstAfter(Min(V), {s \in V : ~GoesOn(s)}) ELSE Min(V)
        curr == FirstAfter(prev, V)
    IN IF Signed(Count(f, prev) - Count(f, curr)) > 0 THEN <<curr, prev>> ELSE <<prev, curr>>

\* mutant: a checksum is not looked for in the section behind.
NodeIsInside(f, tail, s, o, meta, crc, len) ==
    LET at == Moved(s, o, len - CRC) IN
    /\ Read(f, s, o, META) = meta
    /\ at[1] = s
    /\ Read(f, at[1], at[2], CRC) = crc

\* node_metadata_read and node_crc_check of a node of that kind and length at (s, o).
\* Of a node that starts before the tail, the checksum must not start in the last
\* cells of a section.
NodeIs(f, tail, s, o, meta, crc, len) ==
    LET at == Moved(s, o, len - CRC) IN
    /\ Read(f, s, o, META) = meta
    /\ IF s = tail THEN at[1] = tail ELSE at[2] <= SECTION - CRC
    /\ Read(f, at[1], at[2], CRC) = crc

IsRecord(f, tail, s, o, k, n) ==
    NodeIs(f, tail, s, o, Cells("add", k, n, META), Cells("addCrc", k, n, CRC), RecordLen(n))
IsRemoval(f, tail, s, o, k) ==
    NodeIs(f, tail, s, o, Cells("del", k, 0, META), Cells("delCrc", k, 0, CRC), RemovalLen)

\* mutant: the log goes on at the first blank cell.
BlankCell(f, s, o) == f[s][o + 1] = Erased

\* nvm_page_empty
BlankPage(f, s, o) == o % PAGE = 0 /\ \A i \in 1 .. PAGE : f[s][o + i] = Erased

\* record_add_parse: what an older node said of the record is over.
Parsed(m, k, length, at) == Listed(Unlisted(m, k), k, length, at)

\* nodes_info_load, at offset o of a section: the log after the node there, and where it
\* goes on; behind the last one it stays where it is.
LoadNode(m, s, o) ==
    LET c == m.flash[s][o + 1]
        record == c # Erased /\ c[1] = "add" /\ IsRecord(m.flash, m.tail, s, o, c[2], c[3])
        removal == c # Erased /\ c[1] = "del" /\ IsRemoval(m.flash, m.tail, s, o, c[2])
    IN CASE o >= SECTION \/ (~record /\ ~removal /\ BlankPage(m.flash, s, o)) -> <<m, o>>
         [] o < SECTION /\ record -> <<Parsed(m, c[2], c[3], <<s, o>>), o + RecordLen(c[3])>>
         [] o < SECTION /\ removal -> <<Unlisted(m, c[2]), o + RemovalLen>>
         [] OTHER -> <<m, PageUp(o)>>

\* A section from offset o on; the last offset comes to be tail_available.
LoadFrom(m, s, o) ==
    LET load[i \in 0 .. SECTION] ==
            IF i = 0 THEN <<m, o>> ELSE LET w == load[i - 1] IN LoadNode(w[1], s, w[2])
        last == load[SECTION]
    IN [last[1] EXCEPT !.avail = last[2], !.ok = @ /\ (s = m.tail => last[2] <= SECTION)]

\* The valid sections after the tail one by one, the tail the last.
LoadNodes(m) ==
    LET load[d \in 0 .. SECTIONS] ==
            IF d = 0 THEN m ELSE
            LET n == load[d - 1]
                s == (m.tail + d) % SECTIONS
            IN IF s \in ValidSections(m.flash) THEN LoadFrom(n, s, n.flash[s][1][3]) ELSE n
    IN load[SECTIONS]

\* gc_section_find, which never ends when no section has a live node.
WithFirstLive(m) ==
    IF Lists(m) = {} THEN [m EXCEPT !.ok = FALSE]
    ELSE [m EXCEPT !.gc = FirstAfter(Preceding(m.head), {s \in Sections : m.list[s] # <<>>})]

Loaded(f) ==
    LET m == Fresh(f)
        ht == HeadAndTail(f)
    IN IF ValidSections(f) = {} THEN m
       ELSE WithFirstLive(LoadNodes([m EXCEPT !.head = ht[1], !.tail = ht[2],
                                              !.count = Count(f, ht[2])]))

--------------------------------------------------------------------------------
\* The data of a listed record, and their checksum.
DataOf(m, node) ==
    LET at == Moved(node.at[1], node.at[2], META)
    IN Read(Seen(m), at[1], at[2], node.length + CRC)

\* do_tinyfs_read: what the data of a listed record say.
ReadBack(m, k) ==
    LET node == CHOOSE n \in Nodes(m, k) : TRUE
        values == {v \in Values : /\ DataLen(v) = node.length
                                  /\ DataOf(m, node) = Cells("data", k, v, node.length)
                                                          \o Cells("dataCrc", k, v, CRC)}
    IN IF Nodes(m, k) = {} THEN None
       ELSE IF values = {} THEN Corrupted ELSE CHOOSE v \in values : TRUE

StoreOf(m) == [k \in Keys |-> ReadBack(m, k)]

--------------------------------------------------------------------------------
(* What holds between two operations.                                      *)

Kinds == {"add", "data", "dataCrc", "addCrc", "del", "delCrc"}
StoreCell == {Erased} \cup ({"head"} \X Nat \X Nat) \cup (Kinds \X Keys \X Nat \X Nat)
Node == [key : Keys, length : Nat, at : Sections \X (0 .. SECTION - 1)]

\* The sections from a on to b, round the ring.
InArc(a, s, b) == IF a <= b THEN a <= s /\ s <= b ELSE s >= a \/ s <= b

\* A record has one live node.
KeysOnce(m) == \A s, t \in Sections : \A i \in DOMAIN m.list[s], j \in DOMAIN m.list[t] :
    m.list[s][i].key = m.list[t][j].key => s = t /\ i = j

\* A live node of section s lies where the log has been written.
InLog(m, s, node) ==
    LET end == node.at[2] + RecordLen(node.length) IN
    /\ node.at[1] = s /\ HEAD + RecordLen(node.length) <= SECTION
    /\ s = m.tail => end <= m.avail
    /\ s # m.tail /\ Following(s) = m.tail /\ end > SECTION => HEAD + end - SECTION <= m.avail

\* The log is ready for the next append, and live nodes lie from the section to be
\* collected next on to the tail.
Live(m) ==
    /\ GoodLog(m, StoreCell, Seq(Node))
    /\ m.gc \in Sections
    /\ KeysOnce(m)
    /\ \A s \in Sections : \A i \in DOMAIN m.list[s] : InLog(m, s, m.list[s][i])
    /\ \A s \in Sections : m.list[s] # <<>> => InArc(m.gc, s, m.tail)

\* A collection begins early enough: the copies do not reach the section that they are
\* made of.
Room(m) ==
    LET end == m.avail + ListLen(m.list[m.gc]) IN
    end <= SECTION \/ (Following(m.tail) # m.gc /\ HEAD + end <= 2 * SECTION)

RoomFor(m, n) == MustCollect(m, n) => Room(m)
================================================================================
