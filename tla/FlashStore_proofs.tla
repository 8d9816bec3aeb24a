---------------------------- MODULE FlashStore_proofs --------------------------
(***************************************************************************)
(* What the program keeps in flash.                                        *)
(*                                                                         *)
(* The settings, for all settings and defaults: the page with its shadow   *)
(* implements KeptSettings.                                                *)
(*                                                                         *)
(* The log of the record store, for all sizes of the ring, its sections    *)
(* and pages, and whatever the cells hold: what is appended is read back,  *)
(* what is there stays, and a loss of power leaves everything that was in  *)
(* flash, but for the one section that the tail goes on to.                *)
(*                                                                         *)
(* The record store on that log, for all keys and records that fit into a  *)
(* section: collections keep every record, operations change what they     *)
(* name and nothing else, and so the store implements RecordHistory while  *)
(* the power stays on.                                                     *)
(*                                                                         *)
(* The start after a loss of power at any point, for all of these: it      *)
(* finds the oldest and the newest section.                                *)
(***************************************************************************)
EXTENDS FlashStore, TinyFs, SequenceTheorems, FiniteSetTheorems,
        WellFoundedInduction, TLAPS

--------------------------------------------------------------------------------
(* The settings.                                                            *)

Pages == {{}} \cup {{c} : c \in Config}

\* Outside a save the shadow is what the page holds; within one the page is
\* erased and the settings in force differ from the shadow.
ShadowIsStored ==
    /\ pc \in {"LOOP", "COMPARE"} => shadow = Stored(page)
    /\ pc = "PROGRAM" => page = {}

IInv == TypeOK /\ ShadowIsStored

\* What is read back from a page.
LEMMA StoredPage ==
    /\ Zero \in Config
    /\ Stored({}) = Zero
    /\ \A c \in Config : {c} \in Pages /\ Stored({c}) = c
    /\ \A p \in Pages : Stored(p) \in Config
<1>1. Zero \in Config
  BY SettingsAssumption DEF Zero, Config
<1>2. Stored({}) = Zero
  BY DEF Stored
<1>3. ASSUME NEW c \in Config
      PROVE  {c} \in Pages /\ Stored({c}) = c
  <2>1. {c} # {}
    OBVIOUS
  <2>2. \A d \in Config : {c} = {d} => d = c
    OBVIOUS
  <2>3. (CHOOSE d \in Config : {c} = {d}) = c
    BY <1>3, <2>2
  <2> QED
    BY <1>3, <2>1, <2>3 DEF Stored, Pages
<1> QED
  BY <1>1, <1>2, <1>3 DEF Pages

\* A replaced setting is a setting.
LEMMA NormalConfig == ASSUME NEW c \in Config PROVE Normal(c) \in Config
BY SettingsAssumption DEF Normal, Config

LEMMA StartsWell == Init => IInv
<1> SUFFICES ASSUME Init PROVE IInv
  OBVIOUS
<1> QED
  BY StoredPage DEF Init, IInv, TypeOK, ShadowIsStored

LEMMA StepKeeps == IInv /\ [Next]_vars => IInv'
<1> SUFFICES ASSUME IInv, [Next]_vars PROVE IInv'
  OBVIOUS
<1> USE DEF IInv, TypeOK, ShadowIsStored
<1>1. CASE flash_load
  BY <1>1, StoredPage, NormalConfig DEF flash_load, Pages
<1>2. ASSUME NEW c \in Config, ble_snore_segment_handle(c) PROVE IInv'
  BY <1>2 DEF ble_snore_segment_handle
<1>3. CASE KeyNextLevel
  BY <1>3 DEF KeyNextLevel, Config
<1>4. CASE KeyOff
  BY <1>4 DEF KeyOff, Config
<1>5. CASE flash_run
  BY <1>5 DEF flash_run
<1>6. CASE Unchanged
  BY <1>6 DEF Unchanged
<1>7. CASE Erase
  BY <1>7 DEF Erase
<1>8. CASE Program
  BY <1>8, StoredPage DEF Program, Pages
<1>9. CASE PowerLoss
  BY <1>9, StoredPage DEF PowerLoss
<1>10. CASE UNCHANGED vars
  BY <1>10 DEF vars
<1> QED
  BY <1>1, <1>2, <1>3, <1>4, <1>5, <1>6, <1>7, <1>8, <1>9, <1>10 DEF Next, Save

LEMMA InvHolds == Spec => []IInv
BY StartsWell, StepKeeps, PTL DEF Spec

\* The level stays within 0 to 3, and the page holds settings or nothing.
THEOREM TypeCorrect == Spec => []TypeOK
BY InvHolds, PTL DEF IInv

\* Every step of the program is one of KeptSettings or leaves its state alone.
LEMMA StepImplements == IInv /\ IInv' /\ [Next]_vars => [Kept!Next]_(Kept!vars)
<1> SUFFICES ASSUME IInv, IInv', [Next]_vars PROVE [Kept!Next]_(Kept!vars)
  OBVIOUS
<1> DEFINE Same == UNCHANGED <<Now, Stored(page)>>
<1>1. Same => UNCHANGED (Kept!vars)
  BY DEF Kept!vars
<1> USE DEF IInv, TypeOK, ShadowIsStored
<1>2. CASE flash_load
  <2>1. Same
    BY <1>2 DEF flash_load, Now
  <2> QED
    BY <1>1, <2>1
<1>3. CASE ram' \in Config /\ pc # "BOOT" /\ pc' # "BOOT" /\ UNCHANGED page
  <2>1. Now' = ram' /\ ram' \in Kept!Config
    BY <1>3 DEF Now, Config, Kept!Config
  <2>2. UNCHANGED Stored(page)
    BY <1>3 DEF Stored
  <2> QED
    BY <2>1, <2>2 DEF Kept!Set, Kept!Next
<1>4. CASE Erase
  <2>1. Now # Stored(page) /\ UNCHANGED Now
    BY <1>4 DEF Erase, Now
  <2>2. Stored(page)' = Zero
    BY <1>4, StoredPage DEF Erase
  <2>3. Kept!Drop
    BY <2>1, <2>2 DEF Kept!Drop, Kept!Zero, Zero
  <2> QED
    BY <2>3 DEF Kept!Next
<1>5. CASE Program
  <2>1. Now = ram /\ UNCHANGED Now
    BY <1>5 DEF Program, Now
  <2>2. Stored(page)' = ram
    BY <1>5, StoredPage DEF Program
  <2>3. Kept!Keep
    BY <2>1, <2>2 DEF Kept!Keep
  <2> QED
    BY <2>3 DEF Kept!Next
<1>6. CASE PowerLoss
  <2>1. Now' = Normal(Stored(page)) /\ UNCHANGED Stored(page)
    BY <1>6 DEF PowerLoss, Now
  <2>2. Kept!Reset
    BY <2>1 DEF Kept!Reset, Normal, Kept!Normal
  <2> QED
    BY <2>2 DEF Kept!Next
<1>7. CASE UNCHANGED vars
  <2>1. Same
    BY <1>7 DEF vars, Now, Stored
  <2> QED
    BY <1>1, <2>1
<1>8. ASSUME NEW c \in Config, ble_snore_segment_handle(c)
      PROVE  ram' \in Config /\ pc # "BOOT" /\ pc' # "BOOT" /\ UNCHANGED page
  BY <1>8 DEF ble_snore_segment_handle
<1>9. CASE KeyNextLevel \/ KeyOff \/ flash_run \/ Unchanged
  BY <1>3, <1>9 DEF KeyNextLevel, KeyOff, flash_run, Unchanged
<1> QED
  BY <1>2, <1>3, <1>4, <1>5, <1>6, <1>7, <1>8, <1>9 DEF Next, Save

\* What a reset brings back is what was kept last; it is given up only for
\* settings that differ from it (x_flash.c:73-81).
THEOREM StoreImplementsKept == Spec => ImplementsKept
<1>1. Init => Kept!Init
  <2> SUFFICES ASSUME Init PROVE Kept!Init
    OBVIOUS
  <2>1. Stored(page) \in Config
    BY StoredPage DEF Init, Pages
  <2>2. Now = Normal(Stored(page))
    BY DEF Init, Now
  <2> QED
    BY <2>1, <2>2 DEF Kept!Init, Kept!Config, Kept!Normal, Config, Normal
<1>2. IInv /\ IInv' /\ [Next]_vars => [Kept!Next]_(Kept!vars)
  BY StepImplements
<1>3. Spec => []IInv
  BY InvHolds
<1> QED
  BY <1>1, <1>2, <1>3, PTL DEF Spec, ImplementsKept, Kept!Spec

--------------------------------------------------------------------------------
(* The log of records.                                                      *)

\* What is written: any cells, among them heads.
IsCells(Cell) ==
    /\ Erased \in Cell
    /\ \A n \in 0 .. LOOPS - 1, o \in Nat : HeadCell(n, o) \in Cell

\* No multiple of p but 0 lies between -p and p.
LEMMA NoMultiple ==
    ASSUME NEW p \in Nat \ {0}, NEW k \in Int, p * k > -p, p * k < p
    PROVE  p * k = 0
<1>1. ~(k >= 1)
    <2> SUFFICES ASSUME k >= 1 PROVE FALSE
        OBVIOUS
    <2>1. p * k >= p
        OBVIOUS
    <2> QED BY <2>1
<1>2. ~(k <= -1)
    <2> SUFFICES ASSUME k <= -1 PROVE FALSE
        OBVIOUS
    <2>1. p * k <= -p
        OBVIOUS
    <2> QED BY <2>1
<1>3. k = 0
    BY <1>1, <1>2
<1> QED BY <1>3

\* A whole page on, and less than a page back.
LEMMA Multiple ==
    ASSUME NEW a \in Nat, NEW p \in Nat \ {0}, a % p = 0
    PROVE  /\ (a + p) % p = 0
           /\ \A b \in 0 .. p - 1 : (a - b) % p = 0 => b = 0
<1> DEFINE q == a \div p
           d == (a + p) \div p
<1>1. q \in Int /\ a = p * q
    OBVIOUS
<1>2. (a + p) % p = 0
    <2>1. d \in Int /\ a + p = p * d + ((a + p) % p) /\ (a + p) % p \in 0 .. p - 1
        OBVIOUS
    <2>2. q + 1 - d \in Int /\ (a + p) % p = p * (q + 1 - d)
        BY <1>1, <2>1
    <2> HIDE DEF q, d
    <2> QED BY <2>1, <2>2, NoMultiple
<1>3. ASSUME NEW b \in 0 .. p - 1, (a - b) % p = 0
      PROVE  b = 0
    <2> DEFINE r == (a - b) \div p
    <2>1. r \in Int /\ a - b = p * r
        BY <1>3
    <2>2. q - r \in Int /\ b = p * (q - r)
        BY <1>1, <2>1
    <2> HIDE DEF q, r
    <2> QED BY <2>2, NoMultiple
<1> QED BY <1>2, <1>3

\* The end of a page within it, and the last page.
LEMMA PageEnds ==
    ASSUME NEW a \in Nat, NEW p \in Nat \ {0}, a % p = 0
    PROVE  /\ \A l \in 1 .. p - 1 : ((a + l) \div p + 1) * p = a + p
           /\ \A b \in Nat : b % p = 0 /\ a < b => a + p <= b
<1> DEFINE q == a \div p
<1>1. q \in Int /\ a = p * q
    OBVIOUS
<1> HIDE DEF q
<1>2. ASSUME NEW l \in 1 .. p - 1 PROVE ((a + l) \div p + 1) * p = a + p
    <2> DEFINE d == (a + l) \div p
               r == (a + l) % p
    <2>1. d \in Int /\ a + l = p * d + r /\ r \in 0 .. p - 1
        OBVIOUS
    <2> HIDE DEF d, r
    <2>2. q - d \in Int /\ p * (q - d) = r - l
        BY <1>1, <2>1
    <2>3. p * (q - d) = 0
        BY <2>1, <2>2, NoMultiple
    <2>4. a = p * d
        BY <1>1, <2>1, <2>3
    <2>5. (d + 1) * p = a + p
        BY <2>1, <2>4
    <2> QED BY <2>5 DEF d
<1>3. ASSUME NEW b \in Nat, b % p = 0, a < b PROVE a + p <= b
    <2> DEFINE e == b \div p
    <2>1. e \in Int /\ b = p * e
        BY <1>3
    <2> HIDE DEF e
    <2>2. e - q \in Int /\ p * (e - q) = b - a
        BY <1>1, <2>1
    <2> SUFFICES ASSUME b - a < p PROVE FALSE
        OBVIOUS
    <2>3. p * (e - q) = 0
        BY <1>3, <2>2, NoMultiple
    <2> QED BY <1>3, <2>2, <2>3
<1> QED BY <1>2, <1>3

LEMMA NextSection ==
    ASSUME NEW s \in Sections
    PROVE  Following(s) \in Sections /\ Following(s) # s
<1>1. CASE s + 1 < SECTIONS
    <2>1. (s + 1) % SECTIONS = s + 1
        BY <1>1, LogAssumption DEF Sections
    <2> QED BY <1>1, <2>1, LogAssumption DEF Following, Sections
<1>2. CASE s + 1 = SECTIONS
    <2>1. (s + 1) % SECTIONS = 0
        BY <1>2, LogAssumption DEF Sections
    <2> QED BY <1>2, <2>1, LogAssumption DEF Following, Sections
<1> QED BY <1>1, <1>2, LogAssumption DEF Sections

\* The contents g are those of f, but for the first k of the cells in the places of the
\* section s behind its first o.
Overlays(g, Cell, f, s, o, cells, k) ==
    /\ g \in Flashes(Cell)
    /\ \A t \in Sections, i \in 1 .. SECTION :
          g[t][i] = IF t = s /\ i \in o + 1 .. o + k THEN cells[i - o] ELSE f[t][i]

LEMMA OverlaidIs ==
    ASSUME NEW Cell, NEW f \in Flashes(Cell), NEW s \in Sections, NEW o \in Nat,
           NEW cells \in Seq(Cell)
    PROVE  Overlays(Overlaid(f, s, o, cells), Cell, f, s, o, cells, Len(cells))
<1>1. \A i \in o + 1 .. o + Len(cells) : i - o \in 1 .. Len(cells) /\ cells[i - o] \in Cell
    OBVIOUS
<1>2. \A t \in Sections : f[t] \in [1 .. SECTION -> Cell]
    BY DEF Flashes
<1>3. /\ Overlaid(f, s, o, cells) \in Flashes(Cell)
      /\ \A t \in Sections, i \in 1 .. SECTION :
            Overlaid(f, s, o, cells)[t][i] =
               IF t = s /\ i \in o + 1 .. o + Len(cells) THEN cells[i - o] ELSE f[t][i]
    BY <1>1, <1>2 DEF Overlaid, Flashes
<1> QED BY <1>3, Zenon DEF Overlays

\* Contents with the same cells are the same.
LEMMA SameFlash ==
    ASSUME NEW Cell, NEW f \in Flashes(Cell), NEW g \in Flashes(Cell),
           \A t \in Sections, i \in 1 .. SECTION : f[t][i] = g[t][i]
    PROVE  f = g
<1>1. \A t \in Sections : f[t] \in [1 .. SECTION -> Cell] /\ g[t] \in [1 .. SECTION -> Cell]
    BY DEF Flashes
<1>2. ASSUME NEW t \in Sections PROVE f[t] = g[t]
    <2>1. f[t] \in [1 .. SECTION -> Cell] /\ g[t] \in [1 .. SECTION -> Cell]
        BY <1>1
    <2>2. f[t] = [i \in 1 .. SECTION |-> f[t][i]] /\ g[t] = [i \in 1 .. SECTION |-> g[t][i]]
        BY <2>1
    <2>3. \A i \in 1 .. SECTION : f[t][i] = g[t][i]
        OBVIOUS
    <2> DEFINE x == f[t]
               y == g[t]
    <2> HIDE DEF x, y
    <2>4. x = [i \in 1 .. SECTION |-> x[i]] /\ y = [i \in 1 .. SECTION |-> y[i]]
          /\ \A i \in 1 .. SECTION : x[i] = y[i]
        BY <2>2, <2>3 DEF x, y
    <2>5. x = y
        BY <2>4
    <2> QED BY <2>5 DEF x, y
<1> QED BY <1>2 DEF Flashes

\* The first k of the cells.
LEMMA OverlaidBeginning ==
    ASSUME NEW Cell, NEW f \in Flashes(Cell), NEW s \in Sections, NEW o \in Nat,
           NEW cells \in Seq(Cell), NEW k \in 1 .. Len(cells)
    PROVE  Overlays(Overlaid(f, s, o, SubSeq(cells, 1, k)), Cell, f, s, o, cells, k)
<1> DEFINE q == SubSeq(cells, 1, k)
<1>1. q \in Seq(Cell) /\ Len(q) = k /\ \A i \in 1 .. k : q[i] = cells[i]
    OBVIOUS
<1> HIDE DEF q
<1>5. q \in Seq(Cell)
    BY <1>1
<1>2. /\ Overlaid(f, s, o, q) \in Flashes(Cell)
      /\ \A t \in Sections, i \in 1 .. SECTION :
            Overlaid(f, s, o, q)[t][i] =
               IF t = s /\ i \in o + 1 .. o + Len(q) THEN q[i - o] ELSE f[t][i]
    <2>1. Overlays(Overlaid(f, s, o, q), Cell, f, s, o, q, Len(q))
        BY <1>5, OverlaidIs, Zenon
    <2> QED BY <2>1, Zenon DEF Overlays
<1>3. \A i \in o + 1 .. o + k : i - o \in 1 .. k
    OBVIOUS
<1>4. \A t \in Sections, i \in 1 .. SECTION :
         Overlaid(f, s, o, q)[t][i] =
            IF t = s /\ i \in o + 1 .. o + k THEN cells[i - o] ELSE f[t][i]
    BY <1>1, <1>2, <1>3
<1>6. Overlays(Overlaid(f, s, o, q), Cell, f, s, o, cells, k)
    BY <1>2, <1>4, Zenon DEF Overlays
<1> QED BY <1>6, Zenon DEF q

LEMMA SeenIs ==
    ASSUME NEW Cell, NEW List, NEW m, GoodLog(m, Cell, List)
    PROVE  /\ Seen(m) \in Flashes(Cell)
           /\ \A t \in Sections, i \in 1 .. SECTION :
                 Seen(m)[t][i] =
                    IF t = m.tail /\ i \in From(m) + 1 .. m.avail
                    THEN m.buf[i - From(m)] ELSE m.flash[t][i]
<1>1. /\ m.flash \in Flashes(Cell) /\ m.tail \in Sections /\ m.buf \in Seq(Cell)
      /\ m.avail \in Nat /\ Len(m.buf) \in Nat
    BY DEF GoodLog, Logs
<1>2. From(m) \in Nat /\ From(m) + Len(m.buf) = m.avail
    BY <1>1 DEF GoodLog, From
<1>3. Seen(m) = Overlaid(m.flash, m.tail, From(m), m.buf)
    BY DEF Seen, From
<1>4. Overlays(Seen(m), Cell, m.flash, m.tail, From(m), m.buf, Len(m.buf))
    BY <1>1, <1>2, <1>3, OverlaidIs, Zenon
<1> QED BY <1>2, <1>4, Zenon DEF Overlays

\* Beyond the last cell nothing is seen but erased cells.
LEMMA SeenAhead ==
    ASSUME NEW Cell, NEW List, NEW m, GoodLog(m, Cell, List)
    PROVE  \A i \in m.avail + 1 .. SECTION : Seen(m)[m.tail][i] = Erased
<1>1. /\ m.tail \in Sections /\ m.avail \in Nat /\ Len(m.buf) \in Nat
      /\ From(m) \in Nat /\ From(m) <= m.avail
    BY DEF GoodLog, Logs, From
<1> SUFFICES ASSUME NEW i \in m.avail + 1 .. SECTION PROVE Seen(m)[m.tail][i] = Erased
    OBVIOUS
<1>2. i \in 1 .. SECTION /\ i \in From(m) + 1 .. SECTION /\ i \notin From(m) + 1 .. m.avail
    BY <1>1
<1> QED BY <1>1, <1>2, SeenIs DEF GoodLog

\* What a loss of power may leave: each cell as it was before or as it is after, and
\* those of the sections `gone` perhaps erased.
Left(f, gone, old, new) ==
    \A t \in Sections, i \in 1 .. SECTION :
        \/ f[t][i] = old[t][i]
        \/ f[t][i] = new[t][i]
        \/ t \in gone /\ f[t][i] = Erased

\* A cell goes to the end of the log.
LEMMA PutCellIs ==
    ASSUME NEW Cell, NEW List, NEW m, GoodLog(m, Cell, List), m.avail < SECTION, NEW c \in Cell
    PROVE  LET n == PutCell(m, c) IN
           /\ GoodLog(n, Cell, List)
           /\ n.tail = m.tail /\ n.avail = m.avail + 1 /\ n.count = m.count
           /\ n.head = m.head /\ n.gc = m.gc /\ n.list = m.list /\ n.ok = m.ok
           /\ \A t \in Sections, i \in 1 .. SECTION :
                 Seen(n)[t][i] = IF t = m.tail /\ i = m.avail + 1 THEN c ELSE Seen(m)[t][i]
           /\ \A f \in (n.images \ m.images) \cup {n.flash} : Left(f, {}, m.flash, Seen(n))
<1> DEFINE b == Append(m.buf, c)
           p == [m EXCEPT !.buf = Append(@, c), !.avail = @ + 1]
           n == PutCell(m, c)
           from == From(m)
<1>1. /\ m \in Logs(Cell, List)
      /\ m.flash \in Flashes(Cell) /\ m.tail \in Sections /\ m.buf \in Seq(Cell)
      /\ m.avail \in Nat /\ Len(m.buf) \in Nat /\ m.images \in SUBSET Flashes(Cell)
      /\ m.avail \in 0 .. SECTION
    BY DEF GoodLog, Logs
<1>2. /\ from \in Nat /\ from + Len(m.buf) = m.avail /\ from % PAGE = 0
      /\ \A i \in from + 1 .. SECTION : m.flash[m.tail][i] = Erased
      /\ Len(m.buf) < PAGE /\ PAGE \in Nat \ {0} /\ SECTION \in Nat
    <2>1. /\ from % PAGE = 0 /\ Len(m.buf) < PAGE /\ Len(m.buf) <= m.avail
          /\ \A i \in from + 1 .. SECTION : m.flash[m.tail][i] = Erased
        BY Zenon DEF GoodLog, From
    <2>2. from = m.avail - Len(m.buf)
        BY DEF From
    <2>3. from \in Nat /\ from + Len(m.buf) = m.avail
        BY <1>1, <2>1, <2>2
    <2>4. PAGE \in Nat \ {0} /\ SECTION \in Nat
        BY LogAssumption
    <2> QED BY <2>1, <2>3, <2>4, Zenon
<1>3. /\ b \in Seq(Cell) /\ Len(b) = Len(m.buf) + 1
      /\ \A i \in 1 .. Len(m.buf) : b[i] = m.buf[i]
      /\ b[Len(b)] = c
    BY <1>1
<1>4. /\ p \in Logs(Cell, List) /\ p.buf = b /\ p.avail = m.avail + 1
      /\ p.tail = m.tail /\ p.flash = m.flash /\ p.images = m.images /\ p.count = m.count
      /\ p.head = m.head /\ p.gc = m.gc /\ p.list = m.list /\ p.ok = m.ok
    <2> HIDE DEF b
    <2>1. p = [m EXCEPT !.buf = b, !.avail = m.avail + 1]
        BY <1>1 DEF b, Logs
    <2>2. m.avail + 1 \in 0 .. SECTION
        BY <1>1, <1>2
    <2> HIDE DEF p
    <2> QED BY <1>1, <1>3, <2>1, <2>2 DEF Logs
<1>5. n = IF Len(b) = PAGE THEN Flush(p, p.avail - PAGE) ELSE p
    BY <1>4 DEF PutCell
\* What is seen of p, flushed or not.
<1>6. \A t \in Sections, i \in 1 .. SECTION :
         (IF t = m.tail /\ i \in from + 1 .. from + Len(b) THEN b[i - from] ELSE m.flash[t][i])
            = IF t = m.tail /\ i = m.avail + 1 THEN c ELSE Seen(m)[t][i]
    <2> SUFFICES ASSUME NEW t \in Sections, NEW i \in 1 .. SECTION
                 PROVE  (IF t = m.tail /\ i \in from + 1 .. from + Len(b)
                         THEN b[i - from] ELSE m.flash[t][i])
                           = IF t = m.tail /\ i = m.avail + 1 THEN c ELSE Seen(m)[t][i]
        OBVIOUS
    <2>1. Seen(m)[t][i] = IF t = m.tail /\ i \in from + 1 .. m.avail
                          THEN m.buf[i - from] ELSE m.flash[t][i]
        BY SeenIs
    <2> HIDE DEF b, from
    <2>2. CASE t = m.tail /\ i = m.avail + 1
        <3>1. i \in from + 1 .. from + Len(b) /\ i - from = Len(b)
            <4>1. from \in Nat /\ Len(b) \in Nat /\ Len(b) >= 1 /\ i = from + Len(b)
                BY <1>1, <1>2, <1>3, <2>2
            <4> QED BY <4>1
        <3> QED BY <1>3, <2>2, <3>1
    <2>3. CASE t = m.tail /\ i \in from + 1 .. m.avail
        <3>1. i - from \in 1 .. Len(m.buf) /\ i \in from + 1 .. from + Len(b) /\ i # m.avail + 1
            BY <1>1, <1>2, <1>3, <2>3
        <3> QED BY <1>3, <2>1, <2>3, <3>1
    <2>4. CASE ~(t = m.tail /\ i \in from + 1 .. m.avail + 1)
        <3>1. ~(t = m.tail /\ i \in from + 1 .. from + Len(b))
            BY <1>1, <1>2, <1>3, <2>4
        <3>2. ~(t = m.tail /\ i = m.avail + 1) /\ ~(t = m.tail /\ i \in from + 1 .. m.avail)
            BY <1>1, <1>2, <2>4
        <3> QED BY <2>1, <3>1, <3>2
    <2> QED BY <1>1, <1>2, <2>2, <2>3, <2>4
<1>7. CASE Len(b) < PAGE
    <2>1. n = p
        BY <1>5, <1>7
    <2>2. From(p) = from
        BY <1>1, <1>2, <1>3, <1>4 DEF From
    <2>3. GoodLog(p, Cell, List)
        BY <1>1, <1>2, <1>3, <1>4, <1>7, <2>2 DEF GoodLog
    <2>4. \A t \in Sections, i \in 1 .. SECTION :
             Seen(n)[t][i] = IF t = m.tail /\ i = m.avail + 1 THEN c ELSE Seen(m)[t][i]
        <3>1. p.avail = from + Len(b)
            BY <1>1, <1>2, <1>3, <1>4
        <3>2. \A t \in Sections, i \in 1 .. SECTION :
             Seen(p)[t][i] = IF t = m.tail /\ i \in from + 1 .. from + Len(b)
                             THEN b[i - from] ELSE m.flash[t][i]
            <4> HIDE DEF p, b, from
            <4>1. \A t \in Sections, i \in 1 .. SECTION :
                     Seen(p)[t][i] = IF t = p.tail /\ i \in From(p) + 1 .. p.avail
                                     THEN p.buf[i - From(p)] ELSE p.flash[t][i]
                BY <2>3, SeenIs
            <4> QED BY <1>4, <2>2, <3>1, <4>1
        <3> HIDE DEF p, b, from, n
        <3> QED BY <1>6, <2>1, <3>2
    <2>5. \A f \in (n.images \ m.images) \cup {n.flash} : Left(f, {}, m.flash, Seen(n))
        BY <1>4, <2>1 DEF Left
    <2> QED BY <1>4, <2>1, <2>3, <2>4, <2>5
<1>8. CASE Len(b) = PAGE
    <2> DEFINE Programmed(k) == Overlaid(p.flash, p.tail, from, SubSeq(p.buf, 1, k))
    <2>1. p.avail - PAGE = from
        BY <1>1, <1>2, <1>3, <1>4, <1>8
    <2>2. n = [p EXCEPT !.flash = Programmed(Len(b)), !.buf = <<>>,
                        !.images = @ \cup {Programmed(k) : k \in 1 .. Len(b)}]
        <3>1. n = Flush(p, from)
            BY <1>5, <1>8, <2>1
        <3> HIDE DEF p, b, from, n
        <3>2. Flush(p, from) =
                 [p EXCEPT !.flash = Overlaid(p.flash, p.tail, from, SubSeq(p.buf, 1, Len(p.buf))),
                           !.buf = <<>>,
                           !.images = @ \cup {Overlaid(p.flash, p.tail, from, SubSeq(p.buf, 1, k)) :
                                                  k \in 1 .. Len(p.buf)}]
            BY DEF Flush
        <3>3. p.buf = b
            BY <1>4
        <3> QED BY <3>1, <3>2, <3>3, Zenon DEF Programmed
    <2>3. ASSUME NEW k \in 1 .. Len(b)
          PROVE  /\ Programmed(k) \in Flashes(Cell)
                 /\ \A t \in Sections, i \in 1 .. SECTION :
                       Programmed(k)[t][i] = IF t = m.tail /\ i \in from + 1 .. from + k
                                             THEN b[i - from] ELSE m.flash[t][i]
        <3>1. Programmed(k) = Overlaid(m.flash, m.tail, from, SubSeq(b, 1, k))
            BY <1>4
        <3> HIDE DEF Programmed
        <3>2. from \in Nat /\ b \in Seq(Cell) /\ m.flash \in Flashes(Cell) /\ m.tail \in Sections
            BY <1>1, <1>2, <1>3
        <3> HIDE DEF b, p, n, from
        <3>3. Overlays(Programmed(k), Cell, m.flash, m.tail, from, b, k)
            BY <3>1, <3>2, OverlaidBeginning, Zenon
        <3> QED BY <3>3, Zenon DEF Overlays
    <2> HIDE DEF Programmed
    <2>4. Len(b) \in 1 .. Len(b)
        BY <1>1, <1>3
    <2>5. /\ n \in Logs(Cell, List) /\ n.flash = Programmed(Len(b)) /\ n.buf = <<>>
          /\ n.images = m.images \cup {Programmed(k) : k \in 1 .. Len(b)}
          /\ n.avail = m.avail + 1 /\ n.tail = m.tail /\ n.count = m.count
          /\ n.head = m.head /\ n.gc = m.gc /\ n.list = m.list /\ n.ok = m.ok
        <3>1. <<>> \in Seq(Cell)
            OBVIOUS
        <3>2. {Programmed(k) : k \in 1 .. Len(b)} \in SUBSET Flashes(Cell)
            BY <2>3
        <3>3. Programmed(Len(b)) \in Flashes(Cell)
            BY <2>3, <2>4
        <3> HIDE DEF b, p, n
        <3> QED BY <1>4, <2>2, <3>1, <3>2, <3>3 DEF Logs
    <2>6. From(n) = from + PAGE /\ n.avail = from + PAGE
        BY <1>1, <1>2, <1>3, <1>8, <2>5 DEF From
    <2>7. \A t \in Sections, i \in 1 .. SECTION :
             n.flash[t][i] = IF t = m.tail /\ i = m.avail + 1 THEN c ELSE Seen(m)[t][i]
        <3> HIDE DEF b, from, p, n
        <3>1. \A t \in Sections, i \in 1 .. SECTION :
                 n.flash[t][i] = IF t = m.tail /\ i \in from + 1 .. from + Len(b)
                                 THEN b[i - from] ELSE m.flash[t][i]
            BY <2>3, <2>4, <2>5
        <3> QED BY <1>6, <3>1
    <2>8. \A i \in From(n) + 1 .. SECTION : n.flash[n.tail][i] = Erased
        <3> SUFFICES ASSUME NEW i \in From(n) + 1 .. SECTION PROVE n.flash[n.tail][i] = Erased
            OBVIOUS
        <3>1. i \in 1 .. SECTION /\ i \in from + 1 .. SECTION
              /\ i \notin from + 1 .. from + Len(b)
            BY <1>2, <1>8, <2>6
        <3> HIDE DEF b, from, p, n
        <3>2. n.flash[n.tail][i] = m.flash[m.tail][i]
            BY <1>1, <2>3, <2>4, <2>5, <3>1
        <3> QED BY <1>2, <3>1, <3>2
    <2>9. GoodLog(n, Cell, List)
        <3>1. From(n) % PAGE = 0
            BY <1>2, <2>6, Multiple
        <3>2. Len(n.buf) = 0 /\ n.avail \in Nat
            BY <1>1, <2>5
        <3> HIDE DEF n
        <3> QED BY <1>2, <2>5, <2>8, <3>1, <3>2 DEF GoodLog
    <2>10. \A t \in Sections, i \in 1 .. SECTION : Seen(n)[t][i] = n.flash[t][i]
        <3>1. From(n) = n.avail /\ n.avail \in Nat
            BY <1>1, <2>5, <2>6
        <3>2. \A i \in 1 .. SECTION : i \notin From(n) + 1 .. n.avail
            BY <3>1
        <3> HIDE DEF n
        <3> QED BY <2>9, <3>2, SeenIs
    <2>11. \A f \in (n.images \ m.images) \cup {n.flash} : Left(f, {}, m.flash, Seen(n))
        <3> SUFFICES ASSUME NEW f \in (n.images \ m.images) \cup {n.flash}
                     PROVE  Left(f, {}, m.flash, Seen(n))
            OBVIOUS
        <3>1. PICK k \in 1 .. Len(b) : f = Programmed(k)
            BY <2>4, <2>5
        <3>2. ASSUME NEW t \in Sections, NEW i \in 1 .. SECTION
              PROVE  f[t][i] \in {m.flash[t][i], Seen(n)[t][i]}
            <4>1. Seen(n)[t][i] = IF t = m.tail /\ i \in from + 1 .. from + Len(b)
                                  THEN b[i - from] ELSE m.flash[t][i]
                <5> HIDE DEF b, from, p, n
                <5> QED BY <2>3, <2>4, <2>5, <2>10
            <4>2. f[t][i] = IF t = m.tail /\ i \in from + 1 .. from + k
                            THEN b[i - from] ELSE m.flash[t][i]
                BY <2>3, <3>1
            <4>3. i \in from + 1 .. from + k => i \in from + 1 .. from + Len(b)
                BY <1>1, <1>2, <1>3
            <4> QED BY <4>1, <4>2, <4>3
        <3> QED BY <3>2 DEF Left
    <2> HIDE DEF n, p, b, from
    <2>12. \A t \in Sections, i \in 1 .. SECTION :
             Seen(n)[t][i] = IF t = m.tail /\ i = m.avail + 1 THEN c ELSE Seen(m)[t][i]
        BY <2>7, <2>10
    <2> QED BY <2>5, <2>9, <2>11, <2>12 DEF n
<1>9. Len(b) < PAGE \/ Len(b) = PAGE
    BY <1>1, <1>2, <1>3
<1> HIDE DEF n
<1> QED BY <1>7, <1>8, <1>9 DEF n

\* The tail goes on to the next section.
LEMMA OpenSectionIs ==
    ASSUME NEW Cell, IsCells(Cell), NEW List, NEW m, GoodLog(m, Cell, List),
           m.avail = SECTION, NEW offset \in Nat
    PROVE  LET n == OpenSection(m, offset) IN
           /\ GoodLog(n, Cell, List)
           /\ n.tail = Following(m.tail) /\ n.avail = HEAD /\ n.list = m.list
           /\ n.gc = m.gc /\ (m.list[Following(m.tail)] = <<>> => n.ok = m.ok)
           /\ \A t \in Sections, i \in 1 .. SECTION :
                 Seen(n)[t][i] = IF t # Following(m.tail) THEN Seen(m)[t][i]
                                 ELSE IF i = 1 THEN HeadCell(n.count, offset) ELSE Erased
           /\ \A f \in (n.images \ m.images) \cup {n.flash} :
                 Left(f, {Following(m.tail)}, m.flash, Seen(n))
<1> DEFINE t0 == Following(m.tail)
           erased == Overlaid(m.flash, t0, 0, BlankSection)
           p == [m EXCEPT !.tail = t0, !.avail = 0, !.count = (@ + 1) % LOOPS,
                          !.head = IF @ = t0 THEN Following(t0) ELSE @,
                          !.ok = @ /\ (m.head = t0 => m.list[t0] = <<>>),
                          !.flash = erased, !.images = @ \cup {erased}]
           n == OpenSection(m, offset)
<1>1. /\ m \in Logs(Cell, List)
      /\ m.flash \in Flashes(Cell) /\ m.tail \in Sections /\ m.buf \in Seq(Cell)
      /\ m.images \in SUBSET Flashes(Cell) /\ m.count \in 0 .. LOOPS - 1 /\ m.head \in Sections
      /\ m.ok \in BOOLEAN /\ Len(m.buf) \in Nat
    BY DEF GoodLog, Logs
<1>2. SECTION \in Nat \ {0} /\ PAGE \in Nat \ {0} /\ LOOPS \in Nat \ {0} /\ SECTION % PAGE = 0
    BY LogAssumption
<1>3. t0 \in Sections /\ t0 # m.tail /\ Following(t0) \in Sections
    BY <1>1, NextSection
<1>4. m.buf = <<>>
    <2>1. (SECTION - Len(m.buf)) % PAGE = 0 /\ Len(m.buf) \in 0 .. PAGE - 1
        <3>1. From(m) % PAGE = 0 /\ Len(m.buf) < PAGE
            BY DEF GoodLog
        <3>2. From(m) = SECTION - Len(m.buf)
            BY DEF From
        <3>3. (SECTION - Len(m.buf)) % PAGE = 0
            BY <3>1, <3>2, Zenon
        <3>4. Len(m.buf) \in 0 .. PAGE - 1
            BY <1>1, <1>2, <3>1
        <3> QED BY <3>3, <3>4
    <2>2. Len(m.buf) = 0
        BY <1>2, <2>1, Multiple
    <2> QED BY <1>1, <2>2
<1>5. (m.count + 1) % LOOPS \in 0 .. LOOPS - 1
    BY <1>1, <1>2
<1>6. /\ erased \in Flashes(Cell)
      /\ \A t \in Sections, i \in 1 .. SECTION :
            erased[t][i] = IF t = t0 THEN Erased ELSE m.flash[t][i]
    <2>1. /\ BlankSection \in Seq(Cell) /\ Len(BlankSection) = SECTION
          /\ \A i \in 1 .. SECTION : BlankSection[i] = Erased
        BY <1>2 DEF BlankSection, IsCells
    <2>2. \A i \in 1 .. SECTION : i \in 0 + 1 .. 0 + SECTION /\ i - 0 = i
        BY <1>2
    <2>3. /\ erased \in Flashes(Cell)
          /\ \A t \in Sections, i \in 1 .. SECTION :
                erased[t][i] = IF t = t0 /\ i \in 0 + 1 .. 0 + Len(BlankSection)
                               THEN BlankSection[i - 0] ELSE m.flash[t][i]
        <3> HIDE DEF t0
        <3>1. /\ 0 \in Nat /\ t0 \in Sections /\ m.flash \in Flashes(Cell)
              /\ BlankSection \in Seq(Cell)
            BY <1>1, <1>3, <2>1
        <3>2. Overlays(erased, Cell, m.flash, t0, 0, BlankSection, Len(BlankSection))
            BY <3>1, OverlaidIs, Zenon
        <3> QED BY <3>2, Zenon DEF Overlays
    <2> HIDE DEF erased, t0
    <2> QED BY <2>1, <2>2, <2>3
<1> HIDE DEF erased, t0
<1>7. /\ p \in Logs(Cell, List) /\ p.tail = t0 /\ p.avail = 0 /\ p.buf = <<>>
      /\ p.flash = erased /\ p.images = m.images \cup {erased} /\ p.list = m.list
      /\ p.gc = m.gc /\ (m.list[t0] = <<>> => p.ok = m.ok)
    <2> DEFINE h == IF m.head = t0 THEN Following(t0) ELSE m.head
               k == (m.count + 1) % LOOPS
               o == m.ok /\ (m.head = t0 => m.list[t0] = <<>>)
               g == m.images \cup {erased}
    <2>1. p = [m EXCEPT !.tail = t0, !.avail = 0, !.count = k, !.head = h, !.ok = o,
                        !.flash = erased, !.images = g]
        BY <1>1 DEF Logs
    <2>2. h \in Sections /\ k \in 0 .. LOOPS - 1 /\ g \in SUBSET Flashes(Cell) /\ 0 \in 0 .. SECTION
        BY <1>1, <1>2, <1>3, <1>5, <1>6
    <2>3. o \in BOOLEAN /\ (m.list[t0] = <<>> => o = m.ok)
        <3>1. m.ok = TRUE \/ m.ok = FALSE
            BY <1>1
        <3> QED BY <3>1, Zenon
    <2> HIDE DEF h, k, o, g, p
    <2>4. /\ p \in Logs(Cell, List) /\ p.tail = t0 /\ p.avail = 0 /\ p.buf = m.buf
          /\ p.flash = erased /\ p.images = g /\ p.list = m.list /\ p.gc = m.gc /\ p.ok = o
        BY <1>1, <1>3, <1>6, <2>1, <2>2, <2>3 DEF Logs
    <2>5. m.list[t0] = <<>> => p.ok = m.ok
        BY <2>3, <2>4, Zenon
    <2> QED BY <1>4, <2>4, <2>5 DEF g
<1>8. n = PutCell(p, HeadCell(p.count, offset))
    BY <1>1 DEF OpenSection, t0, erased, Logs
<1> HIDE DEF p, n
<1>9. p.count \in 0 .. LOOPS - 1
    BY <1>7 DEF Logs
<1>10. From(p) = 0 /\ Len(p.buf) = 0
    <2>1. Len(p.buf) = 0 /\ p.avail = 0
        BY <1>7
    <2> QED BY <2>1 DEF From
<1>11. GoodLog(p, Cell, List)
    <2>1. 0 % PAGE = 0
        BY <1>2
    <2>2. \A i \in From(p) + 1 .. SECTION : p.flash[p.tail][i] = Erased
        BY <1>3, <1>6, <1>7, <1>10
    <2> QED BY <1>2, <1>7, <1>10, <2>1, <2>2 DEF GoodLog
<1>12. HeadCell(p.count, offset) \in Cell
    BY <1>9 DEF IsCells
<1>13. /\ GoodLog(n, Cell, List)
       /\ n.tail = p.tail /\ n.avail = p.avail + 1 /\ n.count = p.count /\ n.list = p.list
       /\ n.gc = p.gc /\ n.ok = p.ok
       /\ \A t \in Sections, i \in 1 .. SECTION :
             Seen(n)[t][i] = IF t = p.tail /\ i = p.avail + 1
                             THEN HeadCell(p.count, offset) ELSE Seen(p)[t][i]
       /\ \A f \in (n.images \ p.images) \cup {n.flash} : Left(f, {}, p.flash, Seen(n))
    <2>1. p.avail < SECTION
        BY <1>2, <1>7
    <2> QED BY <1>8, <1>11, <1>12, <2>1, PutCellIs
<1>14. \A t \in Sections, i \in 1 .. SECTION :
          Seen(p)[t][i] = IF t = t0 THEN Erased ELSE Seen(m)[t][i]
    <2> SUFFICES ASSUME NEW t \in Sections, NEW i \in 1 .. SECTION
                 PROVE  Seen(p)[t][i] = IF t = t0 THEN Erased ELSE Seen(m)[t][i]
        OBVIOUS
    <2>1. Seen(p)[t][i] = erased[t][i]
        <3>1. i \notin From(p) + 1 .. p.avail
            BY <1>7, <1>10
        <3> QED BY <1>7, <1>11, <3>1, SeenIs
    <2>2. Seen(m)[t][i] = m.flash[t][i]
        <3>1. From(m) = m.avail
            BY <1>2, <1>4 DEF From
        <3>2. i \notin From(m) + 1 .. m.avail
            BY <1>2, <3>1
        <3> QED BY <3>2, SeenIs
    <2> QED BY <1>6, <2>1, <2>2
<1>15. /\ n.avail = HEAD /\ n.tail = t0 /\ n.list = m.list
       /\ n.gc = m.gc /\ (m.list[t0] = <<>> => n.ok = m.ok)
    BY <1>7, <1>13 DEF HEAD
<1>16. \A t \in Sections, i \in 1 .. SECTION :
          Seen(n)[t][i] = IF t # t0 THEN Seen(m)[t][i]
                          ELSE IF i = 1 THEN HeadCell(n.count, offset) ELSE Erased
    BY <1>7, <1>13, <1>14
<1>17. ASSUME NEW f \in (n.images \ m.images) \cup {n.flash}
       PROVE  Left(f, {t0}, m.flash, Seen(n))
    <2>1. f = erased \/ Left(f, {}, erased, Seen(n))
        BY <1>7, <1>13, <1>17
    <2> QED BY <1>6, <2>1 DEF Left
<1> QED BY <1>13, <1>15, <1>16, <1>17 DEF n, t0

--------------------------------------------------------------------------------
(* Induction, and the loop of node_write.                                   *)

\* Every set of numbers has a least one.
LEMMA Least ==
    ASSUME NEW S \in SUBSET Nat, S # {}
    PROVE  \E m \in S : \A k \in S : m <= k
<1> DEFINE R == OpToRel(<, Nat)
<1>1. IsWellFoundedOn(R, Nat)
    BY NatLessThanWellFounded, Zenon
<1>2. \A x, y \in Nat : x < y => <<x, y>> \in R
    BY Zenon DEF OpToRel
<1> HIDE DEF R
<1>3. PICK m \in S : \A y \in S : ~(<<y, m>> \in R)
    BY <1>1, WFMin, Zenon
<1>4. \A y \in S : ~(y < m)
    BY <1>2, <1>3
<1>5. \A y \in S : y \in Nat
    OBVIOUS
<1> QED BY <1>4, <1>5

\* A set with 0 and, with each number below N, the next one has all up to N.
LEMMA Upward ==
    ASSUME NEW N \in Nat, NEW T, 0 \in T, \A k \in 0 .. N - 1 : k \in T => k + 1 \in T
    PROVE  \A k \in 0 .. N : k \in T
<1> DEFINE S == {k \in 0 .. N : k \notin T}
<1> SUFFICES ASSUME S # {} PROVE FALSE
    OBVIOUS
<1>1. S \in SUBSET Nat
    OBVIOUS
<1>2. PICK k \in S : \A j \in S : k <= j
    BY <1>1, Least
<1>3. k \in 1 .. N /\ k \notin T
    BY <1>2
<1>4. k - 1 \in 0 .. N - 1 /\ k - 1 \notin S /\ (k - 1) + 1 = k
    BY <1>2, <1>3
<1>5. k - 1 \in T
    BY <1>4
<1> QED BY <1>3, <1>4, <1>5

\* The log after each of the cells.
LEMMA CellByCell ==
    ASSUME NEW m, NEW Cell, NEW cells \in Seq(Cell)
    PROVE  \E w : /\ w[0] = m
                  /\ \A k \in 1 .. Len(cells) :
                        w[k] = WriteCell(w[k - 1], cells[k], k, Len(cells))
                  /\ WriteCells(m, cells) = w[Len(cells)]
<1> DEFINE N == Len(cells)
           Is(g, k) == g = [i \in 0 .. k |-> IF i = 0 THEN m
                                             ELSE WriteCell(g[i - 1], cells[i], i, N)]
           T == {k \in 0 .. N : \E g : Is(g, k)}
<1>1. N \in Nat
    OBVIOUS
<1>2. 0 \in T
    <2> DEFINE g == [i \in 0 .. 0 |-> m]
    <2>1. g = [i \in 0 .. 0 |-> IF i = 0 THEN m ELSE WriteCell(g[i - 1], cells[i], i, N)]
        <3>1. \A i \in 0 .. 0 : i = 0
            OBVIOUS
        <3> QED BY <3>1, Zenon
    <2>2. 0 \in 0 .. N
        BY <1>1
    <2> HIDE DEF g, N
    <2> QED BY <2>1, <2>2
<1>3. ASSUME NEW k \in 0 .. N - 1, k \in T
      PROVE  k + 1 \in T
    <2>1. PICK g : Is(g, k)
        BY <1>3
    <2> DEFINE h == [i \in 0 .. k + 1 |-> IF i = k + 1
                                          THEN WriteCell(g[k], cells[k + 1], k + 1, N)
                                          ELSE g[i]]
               hh == [i \in 0 .. k + 1 |-> IF i = 0 THEN m
                                           ELSE WriteCell(h[i - 1], cells[i], i, N)]
    <2> HIDE DEF N
    <2>2. k \in Nat /\ k + 1 \in 0 .. N
        BY <1>1
    <2>3. ASSUME NEW i \in 0 .. k + 1 PROVE h[i] = hh[i]
        <3>1. CASE i = k + 1
            <4>1. h[i - 1] = g[k] /\ i # 0 /\ i - 1 = k
                BY <2>2, <3>1
            <4> QED BY <3>1, <4>1
        <3>2. CASE i # k + 1
            <4>1. i \in 0 .. k /\ h[i] = g[i]
                BY <2>2, <3>2
            <4>2. g[i] = IF i = 0 THEN m ELSE WriteCell(g[i - 1], cells[i], i, N)
                BY <2>1, <4>1, Zenon
            <4>3. i # 0 => h[i - 1] = g[i - 1]
                BY <2>2, <4>1
            <4> QED BY <4>1, <4>2, <4>3
        <3> QED BY <3>1, <3>2
    <2>4. h = hh
        BY <2>3, Zenon
    <2>5. Is(h, k + 1)
        BY <2>4, Zenon
    <2> HIDE DEF h, hh, Is
    <2> QED BY <2>2, <2>5
<1> HIDE DEF T
<1>4. N \in T
    <2> HIDE DEF N
    <2>1. \A k \in 0 .. N - 1 : k \in T => k + 1 \in T
        BY <1>3
    <2>2. \A k \in 0 .. N : k \in T
        BY <1>1, <1>2, <2>1, Upward
    <2> QED BY <1>1, <2>2
<1>5. PICK g : Is(g, N)
    BY <1>4 DEF T
<1> DEFINE w == CHOOSE x : Is(x, N)
<1>6. Is(w, N)
    BY <1>5, Zenon
<1>7. WriteCells(m, cells) = w[N]
    BY Zenon DEF WriteCells
<1> HIDE DEF w, N
<1>8. w[0] = m
    BY <1>1, <1>6
<1>9. ASSUME NEW k \in 1 .. N PROVE w[k] = WriteCell(w[k - 1], cells[k], k, N)
    BY <1>1, <1>6
<1> QED BY <1>7, <1>8, <1>9 DEF N

--------------------------------------------------------------------------------
(* Appending.                                                               *)

\* Cell j of what is appended to m: its section and its number there.
Place(m, j) ==
    IF m.avail + j <= SECTION THEN <<m.tail, m.avail + j>>
    ELSE <<Following(m.tail), HEAD + m.avail + j - SECTION>>

\* The sections that k more cells open.
Opened(m, k) == IF m.avail + k > SECTION THEN {Following(m.tail)} ELSE {}

\* n is m with the first k cells appended.
Wrote(m, n, cells, k, Cell, List) ==
    /\ GoodLog(n, Cell, List)
    /\ n.list = m.list
    /\ m.gc # INVALID => n.gc = m.gc
    /\ m.avail + k <= SECTION \/ m.list[Following(m.tail)] = <<>> => n.ok = m.ok
    /\ m.avail + k <= SECTION => n.tail = m.tail /\ n.avail = m.avail + k
    /\ m.avail + k > SECTION =>
          n.tail = Following(m.tail) /\ n.avail = HEAD + m.avail + k - SECTION
    /\ \A j \in 1 .. k : Seen(n)[Place(m, j)[1]][Place(m, j)[2]] = cells[j]
    /\ \A t \in Sections, i \in 1 .. SECTION :
          (t = m.tail => i <= m.avail) /\ t \notin Opened(m, k) => Seen(n)[t][i] = Seen(m)[t][i]
    /\ \A f \in (n.images \ m.images) \cup {n.flash} :
          Left(f, Opened(m, k), m.flash, Seen(n))

\* One cell more.
LEMMA WriteOneCell ==
    ASSUME NEW Cell, IsCells(Cell), NEW List, NEW m, GoodLog(m, Cell, List),
           NEW cells \in Seq(Cell), HEAD + Len(cells) <= SECTION,
           NEW k \in 1 .. Len(cells), NEW w, Wrote(m, w, cells, k - 1, Cell, List)
    PROVE  Wrote(m, WriteCell(w, cells[k], k, Len(cells)), cells, k, Cell, List)
<1> DEFINE N == Len(cells)
           t0 == Following(m.tail)
           n == WriteCell(w, cells[k], k, N)
           offset == IF k = 1 THEN HEAD ELSE HEAD + N - k + 1
           v == IF w.avail = SECTION THEN OpenSection(w, offset) ELSE w
<1>1. /\ m.tail \in Sections /\ m.avail \in 0 .. SECTION /\ SECTION \in Nat \ {0}
      /\ t0 \in Sections /\ t0 # m.tail /\ N \in Nat /\ k \in 1 .. N /\ HEAD + N <= SECTION
      /\ cells[k] \in Cell /\ HEAD = 1
    BY LogAssumption, NextSection DEF GoodLog, Logs, HEAD
<1>2. /\ GoodLog(w, Cell, List) /\ w.list = m.list
      /\ m.gc # INVALID => w.gc = m.gc
      /\ m.avail + k <= SECTION + 1 \/ m.list[t0] = <<>> => w.ok = m.ok
      /\ m.avail + k <= SECTION + 1 => w.tail = m.tail /\ w.avail = m.avail + k - 1
      /\ m.avail + k > SECTION + 1 => w.tail = t0 /\ w.avail = m.avail + k - SECTION
    BY <1>1 DEF Wrote
<1>3. n = PutCell(v, cells[k])
    BY DEF WriteCell
<1>4. w.avail = SECTION <=> m.avail + k = SECTION + 1
    <2>1. /\ w.avail = m.avail + k - 1 \/ w.avail = m.avail + k - SECTION
          /\ m.avail + k <= SECTION + 1 => w.avail = m.avail + k - 1
          /\ m.avail + k > SECTION + 1 => w.avail = m.avail + k - SECTION
        BY <1>1, <1>2
    <2>2. m.avail \in 0 .. SECTION /\ SECTION \in Nat /\ k \in 1 .. N /\ N \in Nat /\ N < SECTION
        BY <1>1
    <2> HIDE DEF N
    <2> QED BY <2>1, <2>2
<1>5. offset \in Nat
    <2> HIDE DEF N
    <2> QED BY <1>1
<1> HIDE DEF t0, offset, n, N
\* The section that a head opens.
<1>6. /\ GoodLog(v, Cell, List) /\ v.list = m.list /\ v.gc = w.gc
      /\ m.avail + k <= SECTION \/ m.list[t0] = <<>> => v.ok = m.ok
      /\ v.tail = Place(m, k)[1] /\ v.avail + 1 = Place(m, k)[2] /\ v.avail < SECTION
      /\ \A t \in Sections, i \in 1 .. SECTION :
            Seen(v)[t][i] = Seen(w)[t][i] \/ (m.avail + k = SECTION + 1 /\ t = t0)
      /\ \A f \in (v.images \ w.images) \cup {v.flash} :
            f = w.flash \/ (m.avail + k = SECTION + 1 /\ Left(f, {t0}, w.flash, Seen(v)))
    <2>1. CASE w.avail = SECTION
        <3>1. m.avail + k = SECTION + 1 /\ w.tail = m.tail
            BY <1>1, <1>2, <1>4, <2>1
        <3>2. v = OpenSection(w, offset)
            BY <2>1
        <3> HIDE DEF v
        <3>3. /\ GoodLog(v, Cell, List)
              /\ v.tail = Following(w.tail) /\ v.avail = HEAD /\ v.list = w.list
              /\ v.gc = w.gc /\ (w.list[Following(w.tail)] = <<>> => v.ok = w.ok)
              /\ \A t \in Sections, i \in 1 .. SECTION :
                    Seen(v)[t][i] = IF t # Following(w.tail) THEN Seen(w)[t][i]
                                    ELSE IF i = 1 THEN HeadCell(v.count, offset) ELSE Erased
              /\ \A f \in (v.images \ w.images) \cup {v.flash} :
                    Left(f, {Following(w.tail)}, w.flash, Seen(v))
            <4>1. GoodLog(w, Cell, List) /\ IsCells(Cell) /\ w.avail = SECTION /\ offset \in Nat
                BY <1>2, <1>5, <2>1
            <4> DEFINE x == OpenSection(w, offset)
            <4>2. /\ GoodLog(x, Cell, List)
                  /\ x.tail = Following(w.tail) /\ x.avail = HEAD /\ x.list = w.list
                  /\ x.gc = w.gc /\ (w.list[Following(w.tail)] = <<>> => x.ok = w.ok)
                  /\ \A t \in Sections, i \in 1 .. SECTION :
                        Seen(x)[t][i] = IF t # Following(w.tail) THEN Seen(w)[t][i]
                                        ELSE IF i = 1 THEN HeadCell(x.count, offset) ELSE Erased
                  /\ \A f \in (x.images \ w.images) \cup {x.flash} :
                        Left(f, {Following(w.tail)}, w.flash, Seen(x))
                BY <4>1, OpenSectionIs
            <4>3. v = x
                BY <3>2
            <4> HIDE DEF x
            <4> QED BY <4>2, <4>3, Zenon
        <3>4. Following(w.tail) = t0
            BY <3>1 DEF t0
        <3>5. Place(m, k) = <<t0, 2>>
            <4>1. HEAD + m.avail + k - SECTION = 2 /\ ~(m.avail + k <= SECTION)
                BY <1>1, <3>1
            <4> QED BY <4>1, Zenon DEF Place, t0
        <3>6. v.tail = t0 /\ v.avail = 1
            BY <1>1, <3>3, <3>4
        <3>7. 1 < SECTION
            BY <1>1
        <3>8. Place(m, k)[1] = t0 /\ Place(m, k)[2] = 2
            BY <3>5
        <3>9. \A t \in Sections, i \in 1 .. SECTION :
                 Seen(v)[t][i] = Seen(w)[t][i] \/ (m.avail + k = SECTION + 1 /\ t = t0)
            BY <3>1, <3>3, <3>4
        <3>10. \A f \in (v.images \ w.images) \cup {v.flash} : Left(f, {t0}, w.flash, Seen(v))
            BY <3>3, <3>4
        <3>11. v.tail = Place(m, k)[1] /\ v.avail + 1 = Place(m, k)[2] /\ v.avail < SECTION
            BY <3>6, <3>7, <3>8
        <3>12. v.list = m.list /\ v.gc = w.gc /\ GoodLog(v, Cell, List)
            BY <1>2, <3>3
        <3>13. m.avail + k <= SECTION \/ m.list[t0] = <<>> => v.ok = m.ok
            <4>1. ~(m.avail + k <= SECTION) /\ m.avail + k <= SECTION + 1
                BY <1>1, <3>1
            <4> QED BY <1>2, <3>3, <3>4, <4>1
        <3> QED BY <3>1, <3>9, <3>10, <3>11, <3>12, <3>13, Zenon
    <2>2. CASE w.avail # SECTION
        <3>1. v = w
            BY <2>2
        <3>2. w.tail = Place(m, k)[1] /\ w.avail + 1 = Place(m, k)[2] /\ w.avail < SECTION
            <4>1. CASE m.avail + k <= SECTION
                BY <1>1, <1>2, <4>1 DEF Place
            <4>2. CASE m.avail + k > SECTION + 1
                BY <1>1, <1>2, <4>2 DEF Place, t0
            <4> QED BY <1>1, <1>4, <2>2, <4>1, <4>2
        <3> HIDE DEF v
        <3>3. \A f \in (v.images \ w.images) \cup {v.flash} : f = w.flash
            BY <3>1
        <3>4. Seen(v) = Seen(w)
            BY <3>1
        <3>5. m.avail + k <= SECTION \/ m.list[t0] = <<>> => v.ok = m.ok
            <4>1. m.avail + k <= SECTION => m.avail + k <= SECTION + 1
                BY <1>1
            <4> QED BY <1>2, <3>1, <4>1
        <3> QED BY <1>2, <3>1, <3>2, <3>3, <3>4, <3>5
    <2> HIDE DEF v
    <2> QED BY <2>1, <2>2
<1> HIDE DEF v
<1>7. /\ GoodLog(n, Cell, List)
      /\ n.tail = v.tail /\ n.avail = v.avail + 1 /\ n.list = v.list
      /\ n.gc = v.gc /\ n.ok = v.ok
      /\ \A t \in Sections, i \in 1 .. SECTION :
            Seen(n)[t][i] = IF t = v.tail /\ i = v.avail + 1 THEN cells[k] ELSE Seen(v)[t][i]
      /\ \A f \in (n.images \ v.images) \cup {n.flash} : Left(f, {}, v.flash, Seen(n))
    <2>1. cells[k] \in Cell /\ v.avail < SECTION
        BY <1>1, <1>6
    <2> QED BY <1>3, <1>6, <2>1, PutCellIs
<1> DEFINE at == Place(m, k)
           opens == m.avail + k = SECTION + 1
           gone == Opened(m, k)
<1>8. /\ at[1] = IF m.avail + k <= SECTION THEN m.tail ELSE t0
      /\ at[2] = IF m.avail + k <= SECTION THEN m.avail + k ELSE m.avail + k - SECTION + 1
      /\ gone = IF m.avail + k > SECTION THEN {t0} ELSE {}
      /\ Opened(m, k - 1) = IF m.avail + k > SECTION + 1 THEN {t0} ELSE {}
    <2>1. m.avail + (k - 1) > SECTION <=> m.avail + k > SECTION + 1
        BY <1>1
    <2>2. HEAD + m.avail + k - SECTION = m.avail + k - SECTION + 1
        BY <1>1
    <2>3. m.avail + k > SECTION <=> ~(m.avail + k <= SECTION)
        BY <1>1
    <2> QED BY <2>1, <2>2, <2>3 DEF Place, Opened, t0
<1>9. \A t \in Sections, i \in 1 .. SECTION :
         Seen(n)[t][i] = IF t = at[1] /\ i = at[2] THEN cells[k] ELSE Seen(v)[t][i]
    BY <1>6, <1>7
<1>10. \A t \in Sections, i \in 1 .. SECTION :
         \/ Seen(n)[t][i] = Seen(w)[t][i]
         \/ t = at[1] /\ i = at[2]
         \/ opens /\ t = t0
    BY <1>6, <1>9
<1>11. /\ n.list = m.list /\ n.tail = at[1] /\ n.avail = at[2]
       /\ m.gc # INVALID => n.gc = m.gc
       /\ m.avail + k <= SECTION \/ m.list[t0] = <<>> => n.ok = m.ok
    BY <1>2, <1>6, <1>7
<1>12. ASSUME NEW j \in 1 .. k
       PROVE  Seen(n)[Place(m, j)[1]][Place(m, j)[2]] = cells[j]
    <2> DEFINE s == Place(m, j)[1]
               i == Place(m, j)[2]
    <2>1. /\ s = IF m.avail + j <= SECTION THEN m.tail ELSE t0
          /\ i = IF m.avail + j <= SECTION THEN m.avail + j ELSE m.avail + j - SECTION + 1
        <3>1. HEAD + m.avail + j - SECTION = m.avail + j - SECTION + 1
            BY <1>1
        <3> QED BY <3>1 DEF Place, t0
    <2> HIDE DEF s, i
    <2>2. s \in Sections /\ i \in 1 .. SECTION
        BY <1>1, <2>1
    <2>3. CASE j = k
        BY <1>9, <2>2, <2>3 DEF s, i
    <2>4. CASE j # k
        <3>1. j \in 1 .. k - 1
            BY <1>1, <2>4
        <3>2. Seen(w)[s][i] = cells[j]
            BY <3>1 DEF Wrote, s, i
        <3>3. ~(s = at[1] /\ i = at[2]) /\ ~(opens /\ s = t0)
            <4> HIDE DEF at
            <4>1. CASE m.avail + k <= SECTION
                <5>1. m.avail + j <= SECTION /\ m.avail + j # m.avail + k /\ ~opens
                    BY <1>1, <3>1, <4>1
                <5> QED BY <1>8, <2>1, <4>1, <5>1
            <4>2. CASE ~(m.avail + k <= SECTION) /\ m.avail + j <= SECTION
                BY <1>1, <1>8, <2>1, <4>2
            <4>3. CASE ~(m.avail + k <= SECTION) /\ ~(m.avail + j <= SECTION)
                <5>1. m.avail + j - SECTION + 1 # m.avail + k - SECTION + 1 /\ ~opens
                    BY <1>1, <3>1, <4>3
                <5> QED BY <1>8, <2>1, <4>3, <5>1
            <4> QED BY <4>1, <4>2, <4>3
        <3> QED BY <1>10, <2>2, <3>2, <3>3 DEF s, i
    <2> QED BY <2>3, <2>4
<1>13. ASSUME NEW t \in Sections, NEW i \in 1 .. SECTION, t = m.tail => i <= m.avail, t \notin gone
       PROVE  Seen(n)[t][i] = Seen(m)[t][i]
    <2>1. ~(t = at[1] /\ i = at[2]) /\ ~(opens /\ t = t0) /\ t \notin Opened(m, k - 1)
        <3> HIDE DEF at, gone
        <3> QED BY <1>1, <1>8, <1>13
    <2>2. Seen(w)[t][i] = Seen(m)[t][i]
        BY <1>13, <2>1 DEF Wrote
    <2> QED BY <1>10, <2>1, <2>2
\* A cell that is written was erased, or is in a section that is.
<1>14. ASSUME NEW t \in Sections, NEW i \in 1 .. SECTION
       PROVE  \/ Seen(n)[t][i] = Seen(w)[t][i]
              \/ Seen(w)[t][i] = m.flash[t][i]
              \/ t \in gone /\ Seen(w)[t][i] = Erased
    <2>1. CASE opens /\ t = t0
        <3>1. t # m.tail /\ t \notin Opened(m, k - 1)
            BY <1>1, <1>8, <2>1
        <3>2. Seen(w)[t][i] = Seen(m)[t][i]
            BY <3>1 DEF Wrote
        <3>3. Seen(m)[t][i] = m.flash[t][i]
            BY <3>1, SeenIs
        <3> QED BY <3>2, <3>3
    <2>2. CASE ~opens /\ t = at[1] /\ i = at[2]
        <3>1. t = w.tail /\ i \in w.avail + 1 .. SECTION
            <4> HIDE DEF at, t0, gone
            <4>1. CASE m.avail + k <= SECTION
                <5>1. w.tail = m.tail /\ w.avail = m.avail + k - 1 /\ t = m.tail /\ i = m.avail + k
                    BY <1>1, <1>2, <1>8, <2>2, <4>1
                <5> QED BY <1>1, <4>1, <5>1
            <4>2. CASE m.avail + k > SECTION + 1
                <5>1. /\ w.tail = t0 /\ w.avail = m.avail + k - SECTION
                      /\ t = t0 /\ i = m.avail + k - SECTION + 1
                    BY <1>1, <1>2, <1>8, <2>2, <4>2
                <5> QED BY <1>1, <4>2, <5>1
            <4> QED BY <1>1, <2>2, <4>1, <4>2
        <3>2. Seen(w)[t][i] = Erased
            BY <1>2, <3>1, SeenAhead
        <3>3. CASE m.avail + k <= SECTION
            <4>1. From(m) \in Nat /\ From(m) <= m.avail
                BY <1>1 DEF GoodLog, Logs, From
            <4>2. t = m.tail /\ i \in From(m) + 1 .. SECTION
                <5> HIDE DEF at
                <5> QED BY <1>1, <1>8, <2>2, <3>3, <4>1
            <4>3. m.flash[t][i] = Erased
                BY <4>2 DEF GoodLog
            <4> QED BY <3>2, <4>3
        <3>4. CASE ~(m.avail + k <= SECTION)
            <4>1. t \in gone
                <5> HIDE DEF at, gone
                <5> QED BY <1>1, <1>8, <2>2, <3>4
            <4> QED BY <3>2, <4>1
        <3> QED BY <3>3, <3>4
    <2>3. \/ Seen(n)[t][i] = Seen(w)[t][i]
          \/ t = at[1] /\ i = at[2]
          \/ opens /\ t = t0
        BY <1>10, Zenon
    <2>4. opens => at[1] = t0
        <3> HIDE DEF at
        <3> QED BY <1>1, <1>8
    <2> HIDE DEF at, gone, opens
    <2> QED BY <2>1, <2>2, <2>3, <2>4
<1>15. Left(w.flash, Opened(m, k - 1), m.flash, Seen(w)) /\ Opened(m, k - 1) \subseteq gone
    <2>1. Opened(m, k - 1) \subseteq gone
        <3> HIDE DEF gone
        <3> QED BY <1>1, <1>8
    <2> QED BY <2>1 DEF Wrote
<1>16. \A f : Left(f, Opened(m, k - 1), m.flash, Seen(w)) => Left(f, gone, m.flash, Seen(n))
    <2> HIDE DEF gone
    <2> QED BY <1>14, <1>15 DEF Left
<1>17. \A f \in (v.images \ w.images) \cup {v.flash} : Left(f, gone, m.flash, Seen(n))
    <2> SUFFICES ASSUME NEW f \in (v.images \ w.images) \cup {v.flash}, f # w.flash
                 PROVE  Left(f, gone, m.flash, Seen(n))
        BY <1>15, <1>16
    <2>1. opens /\ Left(f, {t0}, w.flash, Seen(v))
        BY <1>6
    <2>2. gone = {t0} /\ at[1] = t0
        <3> HIDE DEF gone, at
        <3> QED BY <1>1, <1>8, <2>1
    <2>3. Seen(v)[at[1]][at[2]] = Erased
        <3>1. at[1] = v.tail /\ at[2] \in v.avail + 1 .. SECTION
            <4>1. v.avail \in Nat
                BY <1>6 DEF GoodLog, Logs
            <4> QED BY <1>1, <1>6, <4>1
        <3> QED BY <1>6, <3>1, SeenAhead
    <2>4. Left(f, gone, w.flash, Seen(n))
        <3> HIDE DEF gone, at
        <3> QED BY <1>9, <2>1, <2>2, <2>3 DEF Left
    <2>5. Left(w.flash, gone, m.flash, Seen(n))
        BY <1>15, <1>16
    <2> HIDE DEF gone
    <2> QED BY <2>4, <2>5 DEF Left
<1>18. \A f \in (n.images \ v.images) \cup {n.flash} : Left(f, gone, m.flash, Seen(n))
    <2> SUFFICES ASSUME NEW f \in (n.images \ v.images) \cup {n.flash}
                 PROVE  Left(f, gone, m.flash, Seen(n))
        OBVIOUS
    <2>1. Left(f, {}, v.flash, Seen(n)) /\ Left(v.flash, gone, m.flash, Seen(n))
        BY <1>7, <1>17
    <2> HIDE DEF gone
    <2> QED BY <2>1 DEF Left
<1>19. \A f \in (n.images \ m.images) \cup {n.flash} : Left(f, gone, m.flash, Seen(n))
    <2> SUFFICES ASSUME NEW f \in n.images \ m.images
                 PROVE  Left(f, gone, m.flash, Seen(n))
        BY <1>18
    <2>1. CASE f \in w.images
        <3>1. Left(f, Opened(m, k - 1), m.flash, Seen(w))
            BY <2>1 DEF Wrote
        <3> QED BY <1>16, <3>1
    <2>2. CASE f \notin w.images
        BY <1>17, <1>18, <2>2
    <2> QED BY <2>1, <2>2
<1>20. /\ m.avail + k <= SECTION => n.tail = m.tail /\ n.avail = m.avail + k
       /\ m.avail + k > SECTION => n.tail = t0 /\ n.avail = HEAD + m.avail + k - SECTION
    <2> HIDE DEF at
    <2> QED BY <1>1, <1>8, <1>11
<1> QED BY <1>7, <1>11, <1>12, <1>13, <1>19, <1>20 DEF Wrote, t0, n, N

\* The loop of node_write, after each of its cells.
LEMMA WritesEach ==
    ASSUME NEW Cell, IsCells(Cell), NEW List, NEW m, GoodLog(m, Cell, List),
           NEW cells \in Seq(Cell), HEAD + Len(cells) <= SECTION, NEW w, w[0] = m,
           \A k \in 1 .. Len(cells) : w[k] = WriteCell(w[k - 1], cells[k], k, Len(cells))
    PROVE  \A k \in 0 .. Len(cells) : Wrote(m, w[k], cells, k, Cell, List)
<1> DEFINE N == Len(cells)
<1>1. /\ w[0] = m
      /\ \A k \in 1 .. N : w[k] = WriteCell(w[k - 1], cells[k], k, N)
    OBVIOUS
<1> DEFINE T == {k \in 0 .. N : Wrote(m, w[k], cells, k, Cell, List)}
<1>2. N \in Nat /\ m.avail \in 0 .. SECTION /\ SECTION \in Nat
    BY LogAssumption DEF GoodLog, Logs
<1>3. 0 \in T
    <2>1. Opened(m, 0) = {} /\ ~(m.avail + 0 > SECTION) /\ m.avail = m.avail + 0
        BY <1>2 DEF Opened
    <2>2. Left(m.flash, {}, m.flash, Seen(m))
        BY DEF Left
    <2>3. Wrote(m, m, cells, 0, Cell, List)
        <3>1. \A f \in (m.images \ m.images) \cup {m.flash} : f = m.flash
            OBVIOUS
        <3>2. \A j \in 1 .. 0 : FALSE
            OBVIOUS
        <3>3. \A j \in 1 .. 0 : Seen(m)[Place(m, j)[1]][Place(m, j)[2]] = cells[j]
            BY <3>2, Zenon
        <3>4. \A f \in (m.images \ m.images) \cup {m.flash} :
                 Left(f, Opened(m, 0), m.flash, Seen(m))
            BY <2>1, <2>2, <3>1
        <3> QED BY <2>1, <3>3, <3>4 DEF Wrote
    <2> HIDE DEF N
    <2> QED BY <1>1, <1>2, <2>3
<1>4. ASSUME NEW k \in 0 .. N - 1, k \in T PROVE k + 1 \in T
    <2>1. k + 1 \in 1 .. N /\ k + 1 \in 0 .. N /\ (k + 1) - 1 = k
        BY <1>2
    <2>2. Wrote(m, w[k], cells, (k + 1) - 1, Cell, List)
        BY <1>4, <2>1
    <2>3. Wrote(m, WriteCell(w[k], cells[k + 1], k + 1, N), cells, k + 1, Cell, List)
        BY <2>1, <2>2, WriteOneCell
    <2>4. w[k + 1] = WriteCell(w[k], cells[k + 1], k + 1, N)
        BY <1>1, <2>1
    <2> QED BY <2>1, <2>3, <2>4
<1>5. \A k \in 0 .. N : k \in T
    <2> HIDE DEF N, T
    <2>1. \A k \in 0 .. N - 1 : k \in T => k + 1 \in T
        BY <1>4
    <2> QED BY <1>2, <1>3, <2>1, Upward
<1> QED BY <1>5

\* The whole loop.
LEMMA WritesAll ==
    ASSUME NEW Cell, IsCells(Cell), NEW List, NEW m, GoodLog(m, Cell, List),
           NEW cells \in Seq(Cell), HEAD + Len(cells) <= SECTION
    PROVE  Wrote(m, WriteCells(m, cells), cells, Len(cells), Cell, List)
<1> DEFINE N == Len(cells)
<1>1. PICK w : /\ w[0] = m
               /\ \A k \in 1 .. N : w[k] = WriteCell(w[k - 1], cells[k], k, N)
               /\ WriteCells(m, cells) = w[N]
    BY CellByCell
<1>2. \A k \in 0 .. N : Wrote(m, w[k], cells, k, Cell, List)
    BY <1>1, WritesEach
<1>3. N \in 0 .. N
    OBVIOUS
<1> QED BY <1>1, <1>2, <1>3

\* node_write starts a collection's round and writes the cells.
LEMMA AppendsAll ==
    ASSUME NEW Cell, IsCells(Cell), NEW List, NEW m, GoodLog(m, Cell, List),
           NEW cells \in Seq(Cell), HEAD + Len(cells) <= SECTION
    PROVE  Wrote(m, AppendNode(m, cells), cells, Len(cells), Cell, List)
<1> DEFINE p == WithGc(m)
           n == AppendNode(m, cells)
<1>1. /\ p \in Logs(Cell, List) /\ p.flash = m.flash /\ p.tail = m.tail /\ p.avail = m.avail
      /\ p.buf = m.buf /\ p.list = m.list /\ p.images = m.images
      /\ p.ok = m.ok /\ (m.gc # INVALID => p.gc = m.gc)
    <2> DEFINE g == IF m.gc = INVALID THEN m.head ELSE m.gc
    <2>1. g \in Sections \cup {INVALID}
        BY DEF GoodLog, Logs
    <2>2. p = [m EXCEPT !.gc = g]
        BY DEF WithGc, GoodLog, Logs
    <2>3. m.gc # INVALID => g = m.gc
        OBVIOUS
    <2> HIDE DEF g, p
    <2> QED BY <2>1, <2>2, <2>3 DEF GoodLog, Logs
<1>2. n = WriteCells(p, cells)
    BY DEF AppendNode
<1> HIDE DEF p, n
<1>3. From(p) = From(m) /\ Seen(p) = Seen(m) /\ Opened(p, Len(cells)) = Opened(m, Len(cells))
    BY <1>1 DEF From, Seen, Opened
<1>4. \A j : Place(p, j) = Place(m, j)
    BY <1>1 DEF Place
<1>5. GoodLog(p, Cell, List)
    BY <1>1, <1>3 DEF GoodLog
<1>6. Wrote(p, n, cells, Len(cells), Cell, List)
    BY <1>2, <1>5, WritesAll
<1>7. Wrote(m, n, cells, Len(cells), Cell, List)
    BY <1>1, <1>3, <1>4, <1>6 DEF Wrote
<1> QED BY <1>7 DEF n

\* An append leaves the log as an append needs it: the cache stands for the page
\* behind the log, all of which is erased (tinyfs.c:840-901).
THEOREM AppendKeepsLog ==
    ASSUME NEW Cell, IsCells(Cell), NEW List, NEW m, GoodLog(m, Cell, List),
           NEW cells \in Seq(Cell), HEAD + Len(cells) <= SECTION
    PROVE  GoodLog(AppendNode(m, cells), Cell, List)
BY AppendsAll DEF Wrote

\* Where cell j of a node lies, as node_write goes and as it is read.
LEMMA PlaceIs ==
    ASSUME NEW m, m.avail \in 0 .. SECTION, NEW N \in Nat, HEAD + N <= SECTION, NEW j \in 1 .. N
    PROVE  LET at == Moved(NextAddr(m)[1], NextAddr(m)[2], j - 1)
           IN at[1] = Place(m, j)[1] /\ at[2] + 1 = Place(m, j)[2]
<1> DEFINE s == NextAddr(m)[1]
           o == NextAddr(m)[2]
           t0 == Following(m.tail)
<1>1. SECTION \in Nat \ {0} /\ HEAD = 1
    BY LogAssumption DEF HEAD
<1>2. Place(m, j) = IF m.avail + j <= SECTION THEN <<m.tail, m.avail + j>>
                    ELSE <<t0, HEAD + m.avail + j - SECTION>>
    BY DEF Place
<1>3. Moved(s, o, j - 1) = IF o + (j - 1) >= SECTION
                           THEN <<Following(s), o + (j - 1) - SECTION + HEAD>>
                           ELSE <<s, o + (j - 1)>>
    BY DEF Moved
<1>4. CASE m.avail = SECTION
    <2>1. s = t0 /\ o = HEAD
        BY <1>4 DEF NextAddr
    <2> HIDE DEF s, o, t0
    <2>2. ~(o + (j - 1) >= SECTION) /\ ~(m.avail + j <= SECTION)
        BY <1>1, <1>4, <2>1
    <2>3. Moved(s, o, j - 1) = <<s, o + (j - 1)>>
          /\ Place(m, j) = <<t0, HEAD + m.avail + j - SECTION>>
        BY <1>2, <1>3, <2>2
    <2>4. o + (j - 1) + 1 = HEAD + m.avail + j - SECTION
        BY <1>1, <1>4, <2>1
    <2> QED BY <2>1, <2>3, <2>4 DEF s, o
<1>5. CASE m.avail # SECTION
    <2>1. s = m.tail /\ o = m.avail
        BY <1>5 DEF NextAddr
    <2>2. Following(s) = t0
        BY <2>1
    <2> HIDE DEF s, o, t0
    <2>3. CASE m.avail + j <= SECTION
        <3>1. ~(o + (j - 1) >= SECTION)
            BY <1>1, <2>1, <2>3
        <3>2. Moved(s, o, j - 1) = <<s, o + (j - 1)>> /\ Place(m, j) = <<m.tail, m.avail + j>>
            BY <1>2, <1>3, <2>3, <3>1
        <3>3. o + (j - 1) + 1 = m.avail + j
            BY <1>1, <2>1
        <3> QED BY <2>1, <3>2, <3>3 DEF s, o
    <2>4. CASE ~(m.avail + j <= SECTION)
        <3>1. o + (j - 1) >= SECTION
            BY <1>1, <2>1, <2>4
        <3>2. /\ Moved(s, o, j - 1) = <<t0, o + (j - 1) - SECTION + HEAD>>
              /\ Place(m, j) = <<t0, HEAD + m.avail + j - SECTION>>
            BY <1>2, <1>3, <2>2, <2>4, <3>1
        <3>3. o + (j - 1) - SECTION + HEAD + 1 = HEAD + m.avail + j - SECTION
            BY <1>1, <2>1
        <3> QED BY <3>2, <3>3 DEF s, o
    <2> QED BY <2>3, <2>4
<1> QED BY <1>4, <1>5

\* What is appended is read back where node_write said it would go, also when it
\* goes on behind the head of the next section, and in part from the cache.
THEOREM AppendReadsBack ==
    ASSUME NEW Cell, IsCells(Cell), NEW List, NEW m, GoodLog(m, Cell, List),
           NEW cells \in Seq(Cell), HEAD + Len(cells) <= SECTION
    PROVE  Read(Seen(AppendNode(m, cells)), NextAddr(m)[1], NextAddr(m)[2], Len(cells)) = cells
<1> DEFINE N == Len(cells)
           s == NextAddr(m)[1]
           o == NextAddr(m)[2]
           f == Seen(AppendNode(m, cells))
           read == Read(f, s, o, N)
<1>1. /\ m.avail \in 0 .. SECTION /\ SECTION \in Nat /\ HEAD = 1 /\ N \in Nat
      /\ HEAD + N <= SECTION
    BY LogAssumption DEF GoodLog, Logs, HEAD
<1>2. \A j \in 1 .. N : f[Place(m, j)[1]][Place(m, j)[2]] = cells[j]
    BY AppendsAll DEF Wrote
<1>3. read = [j \in 1 .. N |-> f[Moved(s, o, j - 1)[1]][Moved(s, o, j - 1)[2] + 1]]
    BY DEF Read
<1>4. ASSUME NEW j \in 1 .. N
      PROVE  Moved(s, o, j - 1)[1] = Place(m, j)[1] /\ Moved(s, o, j - 1)[2] + 1 = Place(m, j)[2]
    BY <1>1, PlaceIs
<1> HIDE DEF read, s, o, f
<1>5. \A j \in 1 .. N : read[j] = cells[j]
    BY <1>2, <1>3, <1>4
<1>6. cells = [j \in 1 .. N |-> cells[j]] /\ read = [j \in 1 .. N |-> read[j]]
    BY <1>3
<1>7. read = cells
    BY <1>5, <1>6
<1> QED BY <1>7 DEF read, s, o, f

\* What was appended before stays what it was, but for the section that the tail
\* goes on to: no cell is written twice.
THEOREM OlderNodesStay ==
    ASSUME NEW Cell, IsCells(Cell), NEW List, NEW m, GoodLog(m, Cell, List),
           NEW cells \in Seq(Cell), HEAD + Len(cells) <= SECTION,
           NEW s, NEW o, NEW n \in Nat,
           \A i \in 1 .. n : LET at == Moved(s, o, i - 1) IN
              /\ at[1] \in Sections /\ at[2] \in 0 .. SECTION - 1
              /\ at[1] = m.tail => at[2] < m.avail
              /\ m.avail + Len(cells) > SECTION => at[1] # Following(m.tail)
    PROVE  Read(Seen(AppendNode(m, cells)), s, o, n) = Read(Seen(m), s, o, n)
<1> DEFINE f == Seen(AppendNode(m, cells))
<1>1. m.avail \in 0 .. SECTION /\ SECTION \in Nat
    BY LogAssumption DEF GoodLog, Logs
<1>2. \A t \in Sections, i \in 1 .. SECTION :
         (t = m.tail => i <= m.avail) /\ t \notin Opened(m, Len(cells)) => f[t][i] = Seen(m)[t][i]
    BY AppendsAll DEF Wrote
<1> HIDE DEF f
<1>3. ASSUME NEW i \in 1 .. n
      PROVE  f[Moved(s, o, i - 1)[1]][Moved(s, o, i - 1)[2] + 1]
                = Seen(m)[Moved(s, o, i - 1)[1]][Moved(s, o, i - 1)[2] + 1]
    <2> DEFINE t == Moved(s, o, i - 1)[1]
               j == Moved(s, o, i - 1)[2]
    <2>1. /\ t \in Sections /\ j \in 0 .. SECTION - 1
          /\ t = m.tail => j < m.avail
          /\ m.avail + Len(cells) > SECTION => t # Following(m.tail)
        OBVIOUS
    <2> HIDE DEF t, j
    <2>2. j + 1 \in 1 .. SECTION /\ (t = m.tail => j + 1 <= m.avail)
        BY <1>1, <2>1
    <2>3. t \notin Opened(m, Len(cells))
        BY <2>1 DEF Opened
    <2>4. f[t][j + 1] = Seen(m)[t][j + 1]
        BY <1>2, <2>1, <2>2, <2>3
    <2> QED BY <2>4 DEF t, j
<1> QED BY <1>3 DEF Read, f

\* A loss of power during an append, at any cell programmed, leaves everything that
\* was in flash, but for the section that the tail goes on to, which it erases.
THEOREM LossKeepsFlash ==
    ASSUME NEW Cell, IsCells(Cell), NEW List, NEW m, GoodLog(m, Cell, List),
           NEW cells \in Seq(Cell), HEAD + Len(cells) <= SECTION,
           NEW f \in AppendNode(m, cells).images \ m.images,
           NEW t \in Sections, NEW i \in 1 .. SECTION, m.flash[t][i] # Erased,
           m.avail + Len(cells) > SECTION => t # Following(m.tail)
    PROVE  f[t][i] = m.flash[t][i]
<1> DEFINE n == AppendNode(m, cells)
<1>1. /\ m.avail \in 0 .. SECTION /\ SECTION \in Nat /\ From(m) \in Nat /\ From(m) <= m.avail
      /\ \A j \in From(m) + 1 .. SECTION : m.flash[m.tail][j] = Erased
    BY LogAssumption DEF GoodLog, Logs, From
<1>2. t = m.tail => i <= From(m)
    BY <1>1
<1>3. t \notin Opened(m, Len(cells))
    BY DEF Opened
<1>4. Seen(m)[t][i] = m.flash[t][i]
    <2>1. ~(t = m.tail /\ i \in From(m) + 1 .. m.avail)
        BY <1>1, <1>2
    <2> QED BY <2>1, SeenIs
<1>5. Wrote(m, n, cells, Len(cells), Cell, List)
    BY AppendsAll
<1>6. Seen(n)[t][i] = Seen(m)[t][i]
    <2>1. t = m.tail => i <= m.avail
        BY <1>1, <1>2
    <2> HIDE DEF n
    <2> QED BY <1>3, <1>5, <2>1 DEF Wrote
<1>7. Left(f, Opened(m, Len(cells)), m.flash, Seen(n))
    <2>1. f \in n.images \ m.images
        OBVIOUS
    <2> HIDE DEF n
    <2> QED BY <1>5, <2>1 DEF Wrote
<1> HIDE DEF n
<1> QED BY <1>3, <1>4, <1>6, <1>7 DEF Left

\* A write-through puts the cache into flash and takes the log on to the next page:
\* what is seen is then in flash (tinyfs_write_cache.c).
THEOREM WriteOutKeepsLog ==
    ASSUME NEW Cell, IsCells(Cell), NEW List, NEW m, GoodLog(m, Cell, List),
           m.avail % PAGE # 0
    PROVE  LET n == WriteOut(m) IN
           /\ GoodLog(n, Cell, List)
           /\ n.flash = Seen(m) /\ Seen(n) = Seen(m) /\ n.buf = <<>> /\ n.tail = m.tail
           /\ n.list = m.list /\ n.gc = m.gc /\ n.ok = m.ok /\ m.avail <= n.avail
           /\ \A f \in n.images \ m.images : Left(f, {}, m.flash, Seen(n))
<1> DEFINE from == From(m)
           Programmed(k) == Overlaid(m.flash, m.tail, from, SubSeq(m.buf, 1, k))
           q == Flush(m, from)
           n == WriteOut(m)
<1>1. /\ m \in Logs(Cell, List)
      /\ m.flash \in Flashes(Cell) /\ m.tail \in Sections /\ m.buf \in Seq(Cell)
      /\ m.avail \in 0 .. SECTION /\ Len(m.buf) \in Nat /\ m.images \in SUBSET Flashes(Cell)
      /\ from \in Nat /\ from + Len(m.buf) = m.avail /\ from % PAGE = 0 /\ Len(m.buf) < PAGE
      /\ \A i \in from + 1 .. SECTION : m.flash[m.tail][i] = Erased
      /\ PAGE \in Nat \ {0} /\ SECTION \in Nat \ {0} /\ SECTION % PAGE = 0
    <2>1. /\ m \in Logs(Cell, List)
          /\ m.flash \in Flashes(Cell) /\ m.tail \in Sections /\ m.buf \in Seq(Cell)
          /\ m.avail \in 0 .. SECTION /\ Len(m.buf) \in Nat /\ m.images \in SUBSET Flashes(Cell)
          /\ PAGE \in Nat \ {0} /\ SECTION \in Nat \ {0} /\ SECTION % PAGE = 0
        BY LogAssumption DEF GoodLog, Logs
    <2>2. /\ Len(m.buf) < PAGE /\ Len(m.buf) <= m.avail /\ from % PAGE = 0
          /\ \A i \in from + 1 .. SECTION : m.flash[m.tail][i] = Erased
        BY DEF GoodLog
    <2>3. from \in Nat /\ from + Len(m.buf) = m.avail
        BY <2>1, <2>2 DEF From
    <2> QED BY <2>1, <2>2, <2>3
<1>2. Len(m.buf) \in 1 .. PAGE - 1
    <2>1. Len(m.buf) # 0
        <3> SUFFICES ASSUME Len(m.buf) = 0 PROVE FALSE
            OBVIOUS
        <3>1. from = m.avail
            <4> HIDE DEF from
            <4> QED BY <1>1
        <3> QED BY <1>1, <3>1, Zenon
    <2> HIDE DEF from
    <2> QED BY <1>1, <2>1
<1>3. PageUp(m.avail) = from + PAGE /\ from + PAGE <= SECTION
    <2> HIDE DEF from
    <2>1. ((from + Len(m.buf)) \div PAGE + 1) * PAGE = from + PAGE
        BY <1>1, <1>2, PageEnds
    <2>2. PageUp(m.avail) = from + PAGE
        BY <1>1, <2>1, Zenon DEF PageUp
    <2>3. from < SECTION
        BY <1>1, <1>2
    <2> QED BY <1>1, <2>2, <2>3, PageEnds
<1>4. n = [q EXCEPT !.avail = PageUp(@)]
    <2>1. m.buf # <<>>
        BY <1>1, <1>2
    <2>2. m.avail - Len(m.buf) = from
        BY DEF From
    <2> QED BY <2>1, <2>2 DEF WriteOut
<1>5. q = [m EXCEPT !.flash = Programmed(Len(m.buf)), !.buf = <<>>,
                    !.images = @ \cup {Programmed(k) : k \in 1 .. Len(m.buf)}]
    BY DEF Flush
<1>6. ASSUME NEW k \in 1 .. Len(m.buf)
      PROVE  /\ Programmed(k) \in Flashes(Cell)
             /\ \A t \in Sections, i \in 1 .. SECTION :
                   Programmed(k)[t][i] = IF t = m.tail /\ i \in from + 1 .. from + k
                                         THEN m.buf[i - from] ELSE m.flash[t][i]
    <2> HIDE DEF from
    <2>1. /\ m.flash \in Flashes(Cell) /\ m.tail \in Sections /\ from \in Nat /\ m.buf \in Seq(Cell)
        BY <1>1
    <2>2. Overlays(Programmed(k), Cell, m.flash, m.tail, from, m.buf, k)
        BY <2>1, OverlaidBeginning, Zenon
    <2> QED BY <2>2, Zenon DEF Overlays
<1> HIDE DEF Programmed, q, n
<1>7. Len(m.buf) \in 1 .. Len(m.buf)
    BY <1>2
<1>8. /\ q \in Logs(Cell, List) /\ q.avail = m.avail /\ q.buf = <<>> /\ q.tail = m.tail
      /\ q.list = m.list /\ q.gc = m.gc /\ q.ok = m.ok
      /\ q.flash = Programmed(Len(m.buf))
      /\ q.images = m.images \cup {Programmed(k) : k \in 1 .. Len(m.buf)}
    <2>1. <<>> \in Seq(Cell)
        OBVIOUS
    <2>2. {Programmed(k) : k \in 1 .. Len(m.buf)} \in SUBSET Flashes(Cell)
        BY <1>6
    <2>3. Programmed(Len(m.buf)) \in Flashes(Cell)
        BY <1>6, <1>7
    <2> QED BY <1>1, <1>5, <2>1, <2>2, <2>3 DEF Logs
<1>9. /\ n \in Logs(Cell, List) /\ n.avail = from + PAGE /\ n.buf = <<>> /\ n.tail = m.tail
      /\ n.list = m.list /\ n.gc = m.gc /\ n.ok = m.ok
      /\ n.flash = Programmed(Len(m.buf))
      /\ n.images = m.images \cup {Programmed(k) : k \in 1 .. Len(m.buf)}
    <2> HIDE DEF from
    <2>1. n = [q EXCEPT !.avail = from + PAGE]
        BY <1>3, <1>4, <1>8 DEF Logs
    <2>2. from + PAGE \in 0 .. SECTION
        BY <1>1, <1>3
    <2> QED BY <1>8, <2>1, <2>2 DEF Logs
<1> HIDE DEF from
<1>10. From(n) = from + PAGE /\ Len(n.buf) = 0
    <2>1. Len(n.buf) = 0
        BY <1>9
    <2> QED BY <1>1, <1>9, <2>1 DEF From
<1>11. \A t \in Sections, i \in 1 .. SECTION :
          n.flash[t][i] = IF t = m.tail /\ i \in from + 1 .. m.avail
                          THEN m.buf[i - from] ELSE m.flash[t][i]
    <2>1. \A t \in Sections, i \in 1 .. SECTION :
             Programmed(Len(m.buf))[t][i] =
                IF t = m.tail /\ i \in from + 1 .. from + Len(m.buf)
                THEN m.buf[i - from] ELSE m.flash[t][i]
        BY <1>6, <1>7
    <2>2. from + Len(m.buf) = m.avail
        BY <1>1
    <2> QED BY <1>9, <2>1, <2>2, Zenon
<1>12. GoodLog(n, Cell, List)
    <2>1. From(n) % PAGE = 0
        BY <1>1, <1>10, Multiple
    <2>2. \A i \in From(n) + 1 .. SECTION : n.flash[n.tail][i] = Erased
        <3> SUFFICES ASSUME NEW i \in From(n) + 1 .. SECTION
                     PROVE  n.flash[n.tail][i] = Erased
            OBVIOUS
        <3>1. i \in 1 .. SECTION /\ i \in from + 1 .. SECTION /\ i \notin from + 1 .. m.avail
            BY <1>1, <1>10
        <3> QED BY <1>1, <1>9, <1>11, <3>1
    <2> QED BY <1>1, <1>9, <1>10, <2>1, <2>2 DEF GoodLog
<1>13. Seen(m) \in Flashes(Cell) /\ Seen(n) \in Flashes(Cell)
    BY <1>12, SeenIs
<1>14. \A t \in Sections, i \in 1 .. SECTION :
          n.flash[t][i] = Seen(m)[t][i] /\ Seen(n)[t][i] = Seen(m)[t][i]
    <2> SUFFICES ASSUME NEW t \in Sections, NEW i \in 1 .. SECTION
                 PROVE  n.flash[t][i] = Seen(m)[t][i] /\ Seen(n)[t][i] = Seen(m)[t][i]
        OBVIOUS
    <2>1. Seen(m)[t][i] = IF t = m.tail /\ i \in from + 1 .. m.avail
                          THEN m.buf[i - from] ELSE m.flash[t][i]
        BY SeenIs DEF from
    <2>2. Seen(n)[t][i] = n.flash[t][i]
        <3>1. i \notin From(n) + 1 .. n.avail
            BY <1>1, <1>9, <1>10
        <3> QED BY <1>12, <3>1, SeenIs
    <2> QED BY <1>11, <2>1, <2>2
<1>15. n.flash = Seen(m) /\ Seen(n) = Seen(m)
    <2>1. n.flash \in Flashes(Cell)
        BY <1>6, <1>7, <1>9
    <2> QED BY <1>13, <1>14, <2>1, SameFlash
<1>16. ASSUME NEW f \in n.images \ m.images PROVE Left(f, {}, m.flash, Seen(n))
    <2>1. PICK k \in 1 .. Len(m.buf) : f = Programmed(k)
        BY <1>9
    <2>2. ASSUME NEW t \in Sections, NEW i \in 1 .. SECTION
          PROVE  f[t][i] = m.flash[t][i] \/ f[t][i] = Seen(n)[t][i]
        <3>1. f[t][i] = IF t = m.tail /\ i \in from + 1 .. from + k
                        THEN m.buf[i - from] ELSE m.flash[t][i]
            BY <1>6, <2>1
        <3>2. i \in from + 1 .. from + k => i \in from + 1 .. m.avail
            BY <1>1
        <3> QED BY <1>11, <1>14, <3>1, <3>2
    <2> QED BY <2>2 DEF Left
<1>17. m.avail <= n.avail
    BY <1>1, <1>9
<1> QED BY <1>9, <1>12, <1>15, <1>16, <1>17 DEF n

--------------------------------------------------------------------------------
(* The ring, and the nodes that are alive in it.                             *)

\* The section behind, without a remainder.
LEMMA FollowingIs ==
    ASSUME NEW s \in Sections
    PROVE  Following(s) = IF s + 1 = SECTIONS THEN 0 ELSE s + 1
<1>1. CASE s + 1 < SECTIONS
    <2>1. (s + 1) % SECTIONS = s + 1
        BY <1>1, LogAssumption DEF Sections
    <2> QED BY <1>1, <2>1, LogAssumption DEF Following, Sections
<1>2. CASE s + 1 = SECTIONS
    <2>1. (s + 1) % SECTIONS = 0
        BY <1>2, LogAssumption DEF Sections
    <2> QED BY <1>2, <2>1 DEF Following
<1> QED BY <1>1, <1>2, LogAssumption DEF Sections

\* The section before, without a remainder.
LEMMA PrecedingIs ==
    ASSUME NEW s \in Sections
    PROVE  Preceding(s) = IF s = 0 THEN SECTIONS - 1 ELSE s - 1
<1>1. CASE s = 0
    <2>1. (s + SECTIONS - 1) % SECTIONS = SECTIONS - 1
        BY <1>1, LogAssumption DEF Sections
    <2> QED BY <1>1, <2>1 DEF Preceding
<1>2. CASE s # 0
    <2> DEFINE x == s - 1
    <2>1. x \in 0 .. SECTIONS - 1 /\ s + SECTIONS - 1 = SECTIONS + x
        BY <1>2, LogAssumption DEF Sections
    <2> HIDE DEF x
    <2>2. (SECTIONS + x) % SECTIONS = x
        <3> DEFINE q == (SECTIONS + x) \div SECTIONS
                   r == (SECTIONS + x) % SECTIONS
        <3>1. q \in Int /\ SECTIONS + x = SECTIONS * q + r /\ r \in 0 .. SECTIONS - 1
            BY <2>1, LogAssumption
        <3> HIDE DEF q, r
        <3>2. 1 - q \in Int /\ SECTIONS * (1 - q) = r - x
            BY <2>1, <3>1, LogAssumption
        <3>3. SECTIONS * (1 - q) = 0
            BY <2>1, <3>1, <3>2, NoMultiple, LogAssumption
        <3> QED BY <2>1, <3>1, <3>2, <3>3 DEF r
    <2> QED BY <1>2, <2>1, <2>2 DEF Preceding, x
<1> QED BY <1>1, <1>2

\* What lies between two sections when the second, or the first, goes on by one.
LEMMA Arcs ==
    ASSUME NEW a \in Sections, NEW b \in Sections, NEW s \in Sections
    PROVE  /\ Following(s) \in Sections /\ Following(s) # s
           /\ Following(s) = Following(a) => s = a
           /\ Following(Following(s)) # s
           /\ Following(s) = Preceding(a) => Following(Following(s)) = a
           /\ InArc(a, a, b) /\ InArc(a, b, b)
           /\ Following(b) # a => /\ ~InArc(a, Following(b), b)
                                  /\ InArc(a, s, b) => InArc(a, s, Following(b))
           /\ a # b /\ InArc(a, s, b) /\ s # a => InArc(Following(a), s, b)
<1>1. /\ Following(s) = IF s + 1 = SECTIONS THEN 0 ELSE s + 1
      /\ Following(a) = IF a + 1 = SECTIONS THEN 0 ELSE a + 1
      /\ Following(b) = IF b + 1 = SECTIONS THEN 0 ELSE b + 1
      /\ Preceding(a) = IF a = 0 THEN SECTIONS - 1 ELSE a - 1
      /\ SECTIONS \in Nat /\ SECTIONS >= 3
    BY FollowingIs, PrecedingIs, LogAssumption, StoreAssumption
<1>2. Following(s) \in Sections /\ Following(s) # s
    BY <1>1 DEF Sections
<1>3. Following(Following(s)) = IF Following(s) + 1 = SECTIONS THEN 0 ELSE Following(s) + 1
    BY <1>2, FollowingIs
<1>4. s \in 0 .. SECTIONS - 1 /\ a \in 0 .. SECTIONS - 1 /\ b \in 0 .. SECTIONS - 1
    BY DEF Sections
<1>5. Following(s) = Following(a) => s = a
    BY <1>1, <1>4
<1>6. Following(Following(s)) # s
    BY <1>1, <1>3, <1>4
<1>7. Following(s) = Preceding(a) => Following(Following(s)) = a
    BY <1>1, <1>3, <1>4
<1>8. InArc(a, a, b) /\ InArc(a, b, b)
    BY <1>4 DEF InArc
<1>9. Following(b) # a => ~InArc(a, Following(b), b)
    BY <1>1, <1>4 DEF InArc
<1>10. Following(b) # a /\ InArc(a, s, b) => InArc(a, s, Following(b))
    BY <1>1, <1>4 DEF InArc
<1>11. a # b /\ InArc(a, s, b) /\ s # a => InArc(Following(a), s, b)
    BY <1>1, <1>4 DEF InArc
<1> QED BY <1>2, <1>5, <1>6, <1>7, <1>8, <1>9, <1>10, <1>11

\* A node that fits into a section crosses one end of a section at most.
LEMMA MovedIs ==
    ASSUME NEW s \in Sections, NEW o \in 0 .. SECTION - 1, NEW a \in Nat, NEW b \in Nat,
           HEAD + a + b <= SECTION
    PROVE  /\ Moved(s, o, a)[1] \in Sections /\ Moved(s, o, a)[2] \in 0 .. SECTION - 1
           /\ Moved(Moved(s, o, a)[1], Moved(s, o, a)[2], b) = Moved(s, o, a + b)
<1>1. SECTION \in Nat \ {0} /\ HEAD = 1 /\ Following(s) \in Sections
    BY LogAssumption, NextSection DEF HEAD
<1>2. CASE o + a >= SECTION
    <2>1. Moved(s, o, a) = <<Following(s), o + a - SECTION + HEAD>>
        BY <1>2 DEF Moved
    <2>2. o + a - SECTION + HEAD \in 0 .. SECTION - 1
        BY <1>1, <1>2
    <2>3. ~(o + a - SECTION + HEAD + b >= SECTION) /\ o + (a + b) >= SECTION
        BY <1>1, <1>2
    <2>4. Moved(Following(s), o + a - SECTION + HEAD, b)
             = <<Following(s), o + a - SECTION + HEAD + b>>
        BY <2>3 DEF Moved
    <2>5. Moved(s, o, a + b) = <<Following(s), o + (a + b) - SECTION + HEAD>>
        BY <2>3 DEF Moved
    <2>6. o + a - SECTION + HEAD + b = o + (a + b) - SECTION + HEAD
        BY <1>1
    <2> QED BY <1>1, <2>1, <2>2, <2>4, <2>5, <2>6
<1>3. CASE ~(o + a >= SECTION)
    <2>1. Moved(s, o, a) = <<s, o + a>>
        BY <1>3 DEF Moved
    <2>2. o + a \in 0 .. SECTION - 1 /\ o + a + b = o + (a + b)
        BY <1>1, <1>3
    <2>3. Moved(s, o + a, b) = Moved(s, o, a + b)
        BY <1>1, <2>2 DEF Moved
    <2> QED BY <2>1, <2>2, <2>3
<1> QED BY <1>2, <1>3

\* A node's place and length.
LEMMA NodeTypes ==
    ASSUME NEW node \in Node
    PROVE  /\ node.key \in Keys /\ node.length \in Nat
           /\ node.at[1] \in Sections /\ node.at[2] \in 0 .. SECTION - 1
           /\ RecordLen(node.length) = META + (node.length + 2 * CRC)
           /\ RecordLen(node.length) \in Nat \ {0}
           /\ META + (node.length + CRC) <= RecordLen(node.length)
           /\ META \in Nat \ {0} /\ CRC \in Nat \ {0}
BY StoreAssumption DEF Node, RecordLen

\* The cells that the data of a node are read from.
LEMMA DataIs ==
    ASSUME NEW m, NEW node \in Node, HEAD + RecordLen(node.length) <= SECTION
    PROVE  DataOf(m, node) = [j \in 1 .. node.length + CRC |-> CellAt(Seen(m), node, META + j)]
<1> DEFINE at == Moved(node.at[1], node.at[2], META)
           f == Seen(m)
           n == node.length + CRC
<1>1. DataOf(m, node) = [j \in 1 .. n |-> f[Moved(at[1], at[2], j - 1)[1]][Moved(at[1], at[2], j - 1)[2] + 1]]
    BY DEF DataOf, Read
<1> HIDE DEF f
<1>2. ASSUME NEW j \in 1 .. n
      PROVE  f[Moved(at[1], at[2], j - 1)[1]][Moved(at[1], at[2], j - 1)[2] + 1] = CellAt(f, node, META + j)
    <2>1. /\ META \in Nat /\ j - 1 \in Nat /\ HEAD + META + (j - 1) <= SECTION
          /\ META + (j - 1) = META + j - 1
          /\ node.at[1] \in Sections /\ node.at[2] \in 0 .. SECTION - 1
        BY NodeTypes, LogAssumption DEF HEAD
    <2>2. Moved(at[1], at[2], j - 1) = Moved(node.at[1], node.at[2], META + (j - 1))
        BY <2>1, MovedIs
    <2>3. Moved(at[1], at[2], j - 1) = Moved(node.at[1], node.at[2], META + j - 1)
        BY <2>1, <2>2, Zenon
    <2> DEFINE a == Moved(at[1], at[2], j - 1)
    <2> HIDE DEF a
    <2>4. a = Moved(node.at[1], node.at[2], META + j - 1)
        BY <2>3 DEF a
    <2>5. f[a[1]][a[2] + 1] = CellAt(f, node, META + j)
        BY <2>1, <2>4 DEF CellAt
    <2> QED BY <2>5 DEF a
<1> HIDE DEF n, at
<1> QED BY <1>1, <1>2 DEF f, n

\* A list without its member number i.
LEMMA RemovedAt ==
    ASSUME NEW S, NEW l \in Seq(S), NEW i \in 1 .. Len(l)
    PROVE  /\ RemoveAt(l, i) \in Seq(S) /\ Len(RemoveAt(l, i)) = Len(l) - 1
           /\ \A j \in 1 .. Len(l) - 1 : RemoveAt(l, i)[j] = IF j < i THEN l[j] ELSE l[j + 1]
           /\ i = 1 => RemoveAt(l, i) = Tail(l)
<1> DEFINE p == SubSeq(l, 1, i - 1)
           q == SubSeq(l, i + 1, Len(l))
           r == RemoveAt(l, i)
<1>1. /\ p \in Seq(S) /\ Len(p) = i - 1 /\ \A j \in 1 .. i - 1 : p[j] = l[j]
      /\ q \in Seq(S) /\ Len(q) = Len(l) - i /\ \A j \in 1 .. Len(l) - i : q[j] = l[i + j]
      /\ Len(l) \in Nat
    OBVIOUS
<1>2. r = p \o q
    BY DEF RemoveAt
<1> HIDE DEF p, q, r
<1>3. /\ r \in Seq(S) /\ Len(r) = Len(l) - 1
      /\ \A j \in 1 .. Len(r) : r[j] = IF j <= Len(p) THEN p[j] ELSE q[j - Len(p)]
    <2>1. p \o q \in Seq(S) /\ Len(p \o q) = Len(p) + Len(q)
          /\ \A j \in 1 .. Len(p) + Len(q) :
                (p \o q)[j] = IF j <= Len(p) THEN p[j] ELSE q[j - Len(p)]
        BY <1>1, ConcatProperties
    <2>2. Len(p) + Len(q) = Len(l) - 1
        BY <1>1
    <2> QED BY <1>2, <2>1, <2>2
<1>4. ASSUME NEW j \in 1 .. Len(l) - 1
      PROVE  r[j] = IF j < i THEN l[j] ELSE l[j + 1]
    <2>1. CASE j < i
        BY <1>1, <1>3, <2>1
    <2>2. CASE ~(j < i)
        <3>1. j - Len(p) \in 1 .. Len(l) - i /\ i + (j - Len(p)) = j + 1 /\ ~(j <= Len(p))
            BY <1>1, <2>2
        <3> QED BY <1>1, <1>3, <2>2, <3>1
    <2> QED BY <2>1, <2>2
<1>5. ASSUME i = 1 PROVE r = Tail(l)
    <2>1. Tail(l) \in Seq(S) /\ Len(Tail(l)) = Len(l) - 1
          /\ \A j \in 1 .. Len(l) - 1 : Tail(l)[j] = l[j + 1]
        BY <1>1
    <2>2. \A j \in 1 .. Len(l) - 1 : r[j] = Tail(l)[j]
        BY <1>1, <1>4, <1>5, <2>1
    <2> DEFINE t == Tail(l)
    <2> HIDE DEF t
    <2>3. t \in Seq(S) /\ Len(t) = Len(r)
        BY <1>3, <2>1 DEF t
    <2>4. t = [j \in 1 .. Len(t) |-> t[j]] /\ r = [j \in 1 .. Len(r) |-> r[j]]
        BY <1>3, <2>3
    <2>5. \A j \in 1 .. Len(r) : r[j] = t[j]
        BY <1>3, <2>2 DEF t
    <2> QED BY <2>3, <2>4, <2>5 DEF t
<1> QED BY <1>3, <1>4, <1>5 DEF r

\* A list without the one node of a key; `Gone` is where it was.
LEMMA WithoutIs ==
    ASSUME NEW S, NEW l \in Seq(S), NEW k,
           \A i, j \in DOMAIN l : l[i].key = l[j].key => i = j
    PROVE  /\ Without(l, k) \in Seq(S)
           /\ \A j \in DOMAIN Without(l, k) : Without(l, k)[j].key # k
           /\ \A j \in DOMAIN Without(l, k) : \E i \in DOMAIN l : Without(l, k)[j] = l[i]
           /\ \A i \in DOMAIN l : l[i].key # k => \E j \in DOMAIN Without(l, k) : Without(l, k)[j] = l[i]
           /\ \A i, j \in DOMAIN Without(l, k) :
                 Without(l, k)[i].key = Without(l, k)[j].key => i = j
           /\ (\A i \in DOMAIN l : l[i].key # k) => Without(l, k) = l
           /\ l # <<>> /\ Head(l).key = k => Without(l, k) = Tail(l)
<1> DEFINE w == Without(l, k)
           d == CHOOSE i \in DOMAIN l : l[i].key = k
<1>1. DOMAIN l = 1 .. Len(l) /\ Len(l) \in Nat
    OBVIOUS
<1>2. CASE \A i \in DOMAIN l : l[i].key # k
    <2>1. w = l
        BY <1>2 DEF Without
    <2>2. l # <<>> => Head(l) = l[1] /\ 1 \in DOMAIN l
        BY <1>1
    <2> HIDE DEF w
    <2> QED BY <1>2, <2>1, <2>2 DEF w
<1>3. CASE \E i \in DOMAIN l : l[i].key = k
    <2>1. d \in DOMAIN l /\ l[d].key = k
        BY <1>3
    <2>2. w = RemoveAt(l, d)
        BY <1>3 DEF Without
    <2> HIDE DEF d, w
    <2>3. d \in 1 .. Len(l)
        BY <1>1, <2>1
    <2>4. /\ w \in Seq(S) /\ Len(w) = Len(l) - 1
          /\ \A j \in 1 .. Len(l) - 1 : w[j] = IF j < d THEN l[j] ELSE l[j + 1]
          /\ d = 1 => w = Tail(l)
        BY <2>2, <2>3, RemovedAt
    <2>5. DOMAIN w = 1 .. Len(l) - 1
        BY <2>4
    <2> DEFINE at(j) == IF j < d THEN j ELSE j + 1
    <2>6. ASSUME NEW j \in DOMAIN w
          PROVE  at(j) \in DOMAIN l /\ w[j] = l[at(j)] /\ at(j) # d
        BY <1>1, <2>3, <2>4, <2>5
    <2>7. ASSUME NEW i \in DOMAIN l, i # d
          PROVE  \E j \in DOMAIN w : w[j] = l[i]
        <3>1. CASE i < d
            <4>1. i \in 1 .. Len(l) - 1
                BY <1>1, <2>3, <3>1
            <4> QED BY <2>4, <2>5, <3>1, <4>1
        <3>2. CASE ~(i < d)
            <4>1. i - 1 \in 1 .. Len(l) - 1 /\ ~(i - 1 < d) /\ (i - 1) + 1 = i
                BY <1>1, <2>3, <2>7, <3>2
            <4> QED BY <2>4, <2>5, <4>1
        <3> QED BY <3>1, <3>2
    <2>8. \A i, j \in DOMAIN w : at(i) = at(j) => i = j
        BY <2>3, <2>5
    <2> HIDE DEF at
    <2>9. \A j \in DOMAIN w : w[j].key # k
        BY <2>1, <2>6
    <2>10. \A i, j \in DOMAIN w : w[i].key = w[j].key => i = j
        BY <2>6, <2>8
    <2>11. l # <<>> /\ Head(l).key = k => w = Tail(l)
        <3>1. l # <<>> => Head(l) = l[1] /\ 1 \in DOMAIN l
            BY <1>1
        <3> QED BY <2>1, <2>4, <3>1
    <2>12. \A i \in DOMAIN l : l[i].key # k => \E j \in DOMAIN w : w[j] = l[i]
        BY <2>1, <2>7
    <2>13. \A j \in DOMAIN w : \E i \in DOMAIN l : w[j] = l[i]
        BY <2>6
    <2> QED BY <1>3, <2>4, <2>9, <2>10, <2>11, <2>12, <2>13 DEF w
<1> QED BY <1>2, <1>3

\* The log n is m but for the lists of its nodes.
OnlyLists(m, n, l, CellS, List) ==
    /\ GoodLog(n, CellS, List) /\ Seen(n) = Seen(m) /\ n.list = l
    /\ n.tail = m.tail /\ n.avail = m.avail /\ n.gc = m.gc /\ n.ok = m.ok
    /\ n.flash = m.flash /\ n.images = m.images

\* The lists are nothing to the log.
LEMMA OtherLists ==
    ASSUME NEW CellS, NEW List, NEW m, GoodLog(m, CellS, List), NEW l \in [Sections -> List]
    PROVE  OnlyLists(m, [m EXCEPT !.list = l], l, CellS, List)
<1> DEFINE n == [m EXCEPT !.list = l]
<1>1. /\ n \in Logs(CellS, List) /\ n.list = l /\ n.buf = m.buf
      /\ n.tail = m.tail /\ n.avail = m.avail /\ n.gc = m.gc /\ n.ok = m.ok
      /\ n.flash = m.flash /\ n.images = m.images
    BY DEF GoodLog, Logs
<1> HIDE DEF n
<1>2. From(n) = From(m) /\ Seen(n) = Seen(m)
    BY <1>1 DEF From, Seen
<1>3. GoodLog(n, CellS, List)
    BY <1>1, <1>2 DEF GoodLog
<1>4. OnlyLists(m, n, l, CellS, List)
    BY <1>1, <1>2, <1>3, Zenon DEF OnlyLists
<1> QED BY <1>4, Zenon DEF n

--------------------------------------------------------------------------------
(* What is said of a record.                                                *)

\* What is said of one record is the same in m and n.
SameRecord(m, n, k) ==
    /\ Nodes(m, k) = {} <=> Nodes(n, k) = {}
    /\ \A x \in Nodes(m, k), y \in Nodes(n, k) :
          x.length = y.length /\ DataOf(m, x) = DataOf(n, y)

\* So it is in two steps.
LEMMA SameTwice ==
    ASSUME NEW m, NEW n, NEW p, NEW k, SameRecord(m, n, k), SameRecord(n, p, k)
    PROVE  SameRecord(m, p, k)
<1>1. Nodes(m, k) = {} <=> Nodes(p, k) = {}
    BY DEF SameRecord
<1>2. ASSUME NEW x \in Nodes(m, k), NEW y \in Nodes(p, k)
      PROVE  x.length = y.length /\ DataOf(m, x) = DataOf(p, y)
    <2>1. PICK z \in Nodes(n, k) : TRUE
        BY DEF SameRecord
    <2>2. x.length = z.length /\ DataOf(m, x) = DataOf(n, z)
        BY DEF SameRecord
    <2>3. z.length = y.length /\ DataOf(n, z) = DataOf(p, y)
        BY DEF SameRecord
    <2> QED BY <2>2, <2>3
<1> QED BY <1>1, <1>2 DEF SameRecord

\* Then the same is read.
LEMMA ReadsSame ==
    ASSUME NEW m, NEW n, NEW k, SameRecord(m, n, k)
    PROVE  ReadBack(m, k) = ReadBack(n, k)
<1>1. CASE Nodes(m, k) = {}
    <2>1. Nodes(n, k) = {}
        BY <1>1 DEF SameRecord
    <2> QED BY <1>1, <2>1 DEF ReadBack
<1>2. CASE Nodes(m, k) # {}
    <2> DEFINE x == CHOOSE z \in Nodes(m, k) : TRUE
               y == CHOOSE z \in Nodes(n, k) : TRUE
    <2>1. Nodes(n, k) # {}
        BY <1>2 DEF SameRecord
    <2>2. x \in Nodes(m, k) /\ y \in Nodes(n, k)
        BY <1>2, <2>1
    <2>3. x.length = y.length /\ DataOf(m, x) = DataOf(n, y)
        <3> HIDE DEF x, y
        <3> QED BY <2>2 DEF SameRecord
    <2> DEFINE vx == {v \in Values : /\ DataLen(v) = x.length
                                     /\ DataOf(m, x) = Cells("data", k, v, x.length)
                                                          \o Cells("dataCrc", k, v, CRC)}
               vy == {v \in Values : /\ DataLen(v) = y.length
                                     /\ DataOf(n, y) = Cells("data", k, v, y.length)
                                                          \o Cells("dataCrc", k, v, CRC)}
    <2>4. /\ ReadBack(m, k) = IF vx = {} THEN Corrupted ELSE CHOOSE v \in vx : TRUE
          /\ ReadBack(n, k) = IF vy = {} THEN Corrupted ELSE CHOOSE v \in vy : TRUE
        BY <1>2, <2>1, Zenon DEF ReadBack
    <2>5. vx = vy
        <3> HIDE DEF x, y
        <3> QED BY <2>3, Zenon
    <2> HIDE DEF vx, vy
    <2> QED BY <2>4, <2>5
<1> QED BY <1>1, <1>2

\* The node number i of the list of section s.
LEMMA LiveNode ==
    ASSUME NEW m, Live(m), NEW s \in Sections, NEW i \in DOMAIN m.list[s]
    PROVE  /\ m.list[s] \in Seq(Node) /\ m.list[s][i] \in Node /\ InLog(m, s, m.list[s][i])
           /\ m.list[s][i].at[1] = s /\ m.list[s] # <<>> /\ InArc(m.gc, s, m.tail)
           /\ HEAD + RecordLen(m.list[s][i].length) <= SECTION
           /\ m.list[s][i] \in Nodes(m, m.list[s][i].key)
<1>1. m.list[s] \in Seq(Node)
    BY DEF Live, GoodLog, Logs
<1>2. m.list[s][i] \in Node /\ m.list[s] # <<>>
    BY <1>1
<1>3. InLog(m, s, m.list[s][i]) /\ InArc(m.gc, s, m.tail)
    BY <1>2 DEF Live
<1>4. m.list[s][i] \in Nodes(m, m.list[s][i].key)
    BY DEF Nodes, Lists
<1> QED BY <1>1, <1>2, <1>3, <1>4 DEF InLog

\* What Live says of the log itself.
LEMMA LiveLog ==
    ASSUME NEW m, Live(m)
    PROVE  /\ GoodLog(m, StoreCell, Seq(Node))
           /\ m.gc \in Sections /\ m.tail \in Sections /\ m.avail \in 0 .. SECTION
           /\ m.gc # INVALID /\ m.list \in [Sections -> Seq(Node)]
           /\ SECTION \in Nat \ {0} /\ PAGE \in Nat \ {0} /\ HEAD = 1
           /\ Following(m.tail) # m.gc => m.list[Following(m.tail)] = <<>>
<1>1. /\ GoodLog(m, StoreCell, Seq(Node))
      /\ m.gc \in Sections /\ m.tail \in Sections /\ m.avail \in 0 .. SECTION
      /\ m.list \in [Sections -> Seq(Node)]
    BY DEF Live, GoodLog, Logs
<1>2. m.gc # INVALID
    BY <1>1, LogAssumption DEF Sections, INVALID
<1>3. SECTION \in Nat \ {0} /\ PAGE \in Nat \ {0} /\ HEAD = 1
    BY LogAssumption DEF HEAD
<1>4. ASSUME Following(m.tail) # m.gc PROVE m.list[Following(m.tail)] = <<>>
    <2>1. Following(m.tail) \in Sections /\ ~InArc(m.gc, Following(m.tail), m.tail)
        BY <1>1, <1>4, Arcs
    <2> QED BY <2>1 DEF Live
<1> QED BY <1>1, <1>2, <1>3, <1>4

\* The contents f keep what is seen of m up to the end of its log, in every section but
\* those of gone, and gone is at most the section that the log goes on to.
Keeps(m, f, gone) ==
    /\ gone = {} \/ (gone = {Following(m.tail)} /\ Following(m.tail) # m.gc)
    /\ \A t \in Sections, i \in 1 .. SECTION :
          (t = m.tail => i <= m.avail) /\ t \notin gone => f[t][i] = Seen(m)[t][i]

\* Where a node of m is the cells are the same in such contents.
LEMMA CellsStay ==
    ASSUME NEW m, Live(m), NEW f, NEW gone, Keeps(m, f, gone),
           NEW s \in Sections, NEW i \in DOMAIN m.list[s],
           NEW j \in 1 .. RecordLen(m.list[s][i].length)
    PROVE  CellAt(f, m.list[s][i], j) = CellAt(Seen(m), m.list[s][i], j)
<1> DEFINE node == m.list[s][i]
           o == node.at[2]
           n == RecordLen(node.length)
           F == Following(m.tail)
<1>1. /\ m.gc \in Sections /\ m.tail \in Sections /\ m.avail \in 0 .. SECTION
      /\ SECTION \in Nat \ {0} /\ HEAD = 1
    BY LiveLog
<1>2. /\ node \in Node /\ InLog(m, s, node) /\ node.at[1] = s /\ HEAD + n <= SECTION
      /\ InArc(m.gc, s, m.tail)
    BY LiveNode
<1>3. o \in 0 .. SECTION - 1 /\ n \in Nat \ {0} /\ j \in 1 .. n
    BY <1>2, NodeTypes
<1>4. /\ s = m.tail => o + n <= m.avail
      /\ s # m.tail /\ Following(s) = m.tail /\ o + n > SECTION => HEAD + (o + n) - SECTION <= m.avail
    BY <1>2 DEF InLog
<1>k. /\ gone = {} \/ (gone = {F} /\ F # m.gc)
      /\ \A t \in Sections, a \in 1 .. SECTION :
            (t = m.tail => a <= m.avail) /\ t \notin gone => f[t][a] = Seen(m)[t][a]
    BY DEF Keeps
<1> HIDE DEF node, o, n
<1>5. /\ Following(s) \in Sections /\ Following(s) # s
      /\ Following(s) = F => s = m.tail
      /\ F # m.gc => s # F
    BY <1>1, <1>2, Arcs
<1>6. s \notin gone /\ (s # m.tail => Following(s) \notin gone)
    BY <1>5, <1>k
<1> HIDE DEF F
<1> DEFINE at == Moved(s, o, j - 1)
<1>7. CellAt(f, node, j) = f[at[1]][at[2] + 1] /\ CellAt(Seen(m), node, j) = Seen(m)[at[1]][at[2] + 1]
    BY <1>2 DEF CellAt, o
<1>8. CASE o + (j - 1) >= SECTION
    <2>1. at = <<Following(s), o + (j - 1) - SECTION + HEAD>>
        BY <1>8 DEF Moved
    <2>2. s # m.tail
        BY <1>1, <1>3, <1>4, <1>8
    <2>3. o + (j - 1) - SECTION + HEAD + 1 \in 1 .. SECTION
        BY <1>1, <1>2, <1>3, <1>8 DEF n
    <2>4. Following(s) = m.tail => o + (j - 1) - SECTION + HEAD + 1 <= m.avail
        BY <1>1, <1>3, <1>4, <1>8, <2>2
    <2> HIDE DEF at
    <2>5. f[at[1]][at[2] + 1] = Seen(m)[at[1]][at[2] + 1]
        BY <1>5, <1>6, <1>k, <2>1, <2>2, <2>3, <2>4
    <2> QED BY <1>7, <2>5 DEF node
<1>9. CASE ~(o + (j - 1) >= SECTION)
    <2>1. at = <<s, o + (j - 1)>>
        BY <1>9 DEF Moved
    <2>2. o + (j - 1) + 1 \in 1 .. SECTION /\ (s = m.tail => o + (j - 1) + 1 <= m.avail)
        BY <1>1, <1>3, <1>4, <1>9
    <2> HIDE DEF at
    <2>3. f[at[1]][at[2] + 1] = Seen(m)[at[1]][at[2] + 1]
        BY <1>6, <1>k, <2>1, <2>2
    <2> QED BY <1>7, <2>3 DEF node
<1> QED BY <1>8, <1>9

\* A record has one live node.
LEMMA OneNode ==
    ASSUME NEW m, Live(m), NEW k, NEW x \in Nodes(m, k), NEW y \in Nodes(m, k)
    PROVE  x = y
<1>1. PICK s \in Sections : \E i \in DOMAIN m.list[s] : x = m.list[s][i]
    BY DEF Nodes, Lists
<1>2. PICK i \in DOMAIN m.list[s] : x = m.list[s][i]
    BY <1>1
<1>3. PICK t \in Sections : \E j \in DOMAIN m.list[t] : y = m.list[t][j]
    BY DEF Nodes, Lists
<1>4. PICK j \in DOMAIN m.list[t] : y = m.list[t][j]
    BY <1>3
<1>5. x.key = k /\ y.key = k
    BY DEF Nodes
<1>6. s = t /\ i = j
    BY <1>2, <1>4, <1>5 DEF Live, KeysOnce
<1> QED BY <1>2, <1>4, <1>6

\* Membership of the nodes of a record, spelled out.
LEMMA NodesAre ==
    ASSUME NEW m, NEW k, NEW x
    PROVE  x \in Nodes(m, k) <=>
              x.key = k /\ \E s \in Sections : \E i \in DOMAIN m.list[s] : x = m.list[s][i]
BY DEF Nodes, Lists

\* The same nodes, seen alike.
LEMMA SameNodes ==
    ASSUME NEW m, Live(m), NEW n, NEW k, Nodes(n, k) = Nodes(m, k),
           \A x \in Nodes(m, k) : DataOf(n, x) = DataOf(m, x)
    PROVE  SameRecord(m, n, k)
BY OneNode DEF SameRecord

\* The node of a record leaves the list of its section, and nothing else changes.
LEMMA UnlistedIs ==
    ASSUME NEW m, Live(m), NEW k
    PROVE  LET u == Unlisted(m, k) IN
           /\ Live(u) /\ Seen(u) = Seen(m)
           /\ u.tail = m.tail /\ u.avail = m.avail /\ u.gc = m.gc /\ u.ok = m.ok
           /\ u.flash = m.flash /\ u.images = m.images
           /\ Nodes(u, k) = {}
           /\ \A k2 \in Keys : k2 # k => SameRecord(m, u, k2)
           /\ \A s \in Sections : u.list[s] = Without(m.list[s], k)
           /\ Nodes(m, k) = {} => u.list = m.list
<1> DEFINE l == [s \in Sections |-> Without(m.list[s], k)]
           u == Unlisted(m, k)
<1>1. /\ GoodLog(m, StoreCell, Seq(Node)) /\ m.gc \in Sections
      /\ m.list \in [Sections -> Seq(Node)]
    BY LiveLog
<1>2. ASSUME NEW s \in Sections
      PROVE  /\ l[s] \in Seq(Node)
             /\ \A j \in DOMAIN l[s] : l[s][j].key # k
             /\ \A j \in DOMAIN l[s] : \E i \in DOMAIN m.list[s] : l[s][j] = m.list[s][i]
             /\ \A i \in DOMAIN m.list[s] :
                   m.list[s][i].key # k => \E j \in DOMAIN l[s] : l[s][j] = m.list[s][i]
             /\ \A i, j \in DOMAIN l[s] : l[s][i].key = l[s][j].key => i = j
             /\ (\A i \in DOMAIN m.list[s] : m.list[s][i].key # k) => l[s] = m.list[s]
    <2>1. m.list[s] \in Seq(Node)
        BY <1>1
    <2>2. \A i, j \in DOMAIN m.list[s] : m.list[s][i].key = m.list[s][j].key => i = j
        BY DEF Live, KeysOnce
    <2> DEFINE q == m.list[s]
    <2>3. l[s] = Without(q, k)
        OBVIOUS
    <2> HIDE DEF q, l
    <2> QED BY <2>1, <2>2, <2>3, WithoutIs DEF q
<1>3. u = [m EXCEPT !.list = l] /\ l \in [Sections -> Seq(Node)]
    BY <1>2 DEF Unlisted
<1>4. \A s \in Sections : l[s] = Without(m.list[s], k)
    OBVIOUS
<1> HIDE DEF u, l
<1>5. /\ GoodLog(u, StoreCell, Seq(Node)) /\ Seen(u) = Seen(m) /\ u.list = l
      /\ u.tail = m.tail /\ u.avail = m.avail /\ u.gc = m.gc /\ u.ok = m.ok
      /\ u.flash = m.flash /\ u.images = m.images
    <2> DEFINE v == [m EXCEPT !.list = l]
    <2>1. /\ GoodLog(v, StoreCell, Seq(Node)) /\ Seen(v) = Seen(m) /\ v.list = l
          /\ v.tail = m.tail /\ v.avail = m.avail /\ v.gc = m.gc /\ v.ok = m.ok
          /\ v.flash = m.flash /\ v.images = m.images
        <3>1. OnlyLists(m, v, l, StoreCell, Seq(Node))
            BY <1>1, <1>3, OtherLists, Zenon
        <3> QED BY <3>1, Zenon DEF OnlyLists
    <2> HIDE DEF v
    <2> QED BY <1>3, <2>1 DEF v
<1>6. Nodes(u, k) = {}
    <2> SUFFICES ASSUME NEW x \in Nodes(u, k) PROVE FALSE
        OBVIOUS
    <2>1. x.key = k /\ \E s \in Sections : \E i \in DOMAIN l[s] : x = l[s][i]
        BY <1>5, NodesAre
    <2> QED BY <1>2, <2>1
<1>7. ASSUME NEW k2, k2 # k PROVE Nodes(u, k2) = Nodes(m, k2)
    <2>1. ASSUME NEW x \in Nodes(u, k2) PROVE x \in Nodes(m, k2)
        <3>1. x.key = k2 /\ \E s \in Sections : \E i \in DOMAIN l[s] : x = l[s][i]
            BY <1>5, NodesAre
        <3>2. x.key = k2 /\ \E s \in Sections : \E i \in DOMAIN m.list[s] : x = m.list[s][i]
            BY <1>2, <3>1
        <3> QED BY <3>2, NodesAre
    <2>2. ASSUME NEW x \in Nodes(m, k2) PROVE x \in Nodes(u, k2)
        <3>1. x.key = k2 /\ \E s \in Sections : \E i \in DOMAIN m.list[s] : x = m.list[s][i]
            BY NodesAre
        <3>2. x.key = k2 /\ \E s \in Sections : \E i \in DOMAIN u.list[s] : x = u.list[s][i]
            BY <1>2, <1>5, <1>7, <3>1
        <3> QED BY <3>2, NodesAre
    <2> QED BY <2>1, <2>2
<1>8. \A k2 \in Keys : k2 # k => SameRecord(m, u, k2)
    <2>1. \A x : DataOf(u, x) = DataOf(m, x)
        BY <1>5 DEF DataOf
    <2> QED BY <1>7, <2>1, SameNodes
<1>9. KeysOnce(u)
    <2> SUFFICES ASSUME NEW s \in Sections, NEW t \in Sections,
                        NEW i \in DOMAIN l[s], NEW j \in DOMAIN l[t], l[s][i].key = l[t][j].key
                 PROVE  s = t /\ i = j
        BY <1>5 DEF KeysOnce
    <2>1. PICK i2 \in DOMAIN m.list[s] : l[s][i] = m.list[s][i2]
        BY <1>2
    <2>2. PICK j2 \in DOMAIN m.list[t] : l[t][j] = m.list[t][j2]
        BY <1>2
    <2>3. s = t
        BY <2>1, <2>2 DEF Live, KeysOnce
    <2> QED BY <1>2, <2>3
<1>10. \A s \in Sections : \A i \in DOMAIN u.list[s] : InLog(u, s, u.list[s][i])
    <2> SUFFICES ASSUME NEW s \in Sections, NEW j \in DOMAIN l[s] PROVE InLog(u, s, l[s][j])
        BY <1>5
    <2>1. PICK i \in DOMAIN m.list[s] : l[s][j] = m.list[s][i]
        BY <1>2
    <2>2. InLog(m, s, m.list[s][i])
        BY LiveNode
    <2> QED BY <1>5, <2>1, <2>2 DEF InLog
<1>11. ASSUME NEW s \in Sections, u.list[s] # <<>> PROVE InArc(u.gc, s, u.tail)
    <2>1. l[s] \in Seq(Node) /\ l[s] # <<>>
        BY <1>2, <1>5, <1>11
    <2>2. 1 \in DOMAIN l[s]
        BY <2>1
    <2>3. PICK i \in DOMAIN m.list[s] : l[s][1] = m.list[s][i]
        BY <1>2, <2>2
    <2> QED BY <1>5, <2>3, LiveNode
<1>12. Nodes(m, k) = {} => u.list = m.list
    <2> SUFFICES ASSUME Nodes(m, k) = {} PROVE l = m.list
        BY <1>5
    <2>1. \A s \in Sections : \A i \in DOMAIN m.list[s] : m.list[s][i].key # k
        BY NodesAre
    <2>2. \A s \in Sections : l[s] = m.list[s]
        BY <1>2, <2>1
    <2> QED BY <1>1, <1>3, <2>2
<1>13. Live(u)
    BY <1>1, <1>5, <1>9, <1>10, <1>11 DEF Live
<1> QED BY <1>4, <1>5, <1>6, <1>8, <1>12, <1>13 DEF u

--------------------------------------------------------------------------------
(* Appending a node.                                                       *)

\* Data are the same where the cells are.
LEMMA SameData ==
    ASSUME NEW m, NEW n, NEW x \in Node, NEW y \in Node, x.length = y.length,
           HEAD + RecordLen(x.length) <= SECTION,
           \A j \in META + 1 .. META + (x.length + CRC) :
              CellAt(Seen(n), y, j) = CellAt(Seen(m), x, j)
    PROVE  DataOf(n, y) = DataOf(m, x)
<1>1. META \in Nat /\ CRC \in Nat /\ x.length \in Nat
    BY NodeTypes
<1>2. /\ DataOf(m, x) = [j \in 1 .. x.length + CRC |-> CellAt(Seen(m), x, META + j)]
      /\ DataOf(n, y) = [j \in 1 .. x.length + CRC |-> CellAt(Seen(n), y, META + j)]
    BY DataIs
<1>3. ASSUME NEW j \in 1 .. x.length + CRC
      PROVE  CellAt(Seen(n), y, META + j) = CellAt(Seen(m), x, META + j)
    <2>1. META + j \in META + 1 .. META + (x.length + CRC)
        BY <1>1
    <2> QED BY <2>1
<1> QED BY <1>2, <1>3

\* The log n goes on from m: the same nodes are listed, with the same cells.
Continues(m, n) ==
    /\ Live(n) /\ n.ok = m.ok /\ n.gc = m.gc /\ n.list = m.list
    /\ \A s \in Sections : \A i \in DOMAIN m.list[s] :
          \A j \in 1 .. RecordLen(m.list[s][i].length) :
             CellAt(Seen(n), m.list[s][i], j) = CellAt(Seen(m), m.list[s][i], j)
    /\ \A key \in Keys : SameRecord(m, n, key)

\* An append leaves the nodes that are listed as they were.
LEMMA WroteLive ==
    ASSUME NEW m, Live(m), NEW cells, NEW k \in Nat, HEAD + k <= SECTION, NEW n,
           Wrote(m, n, cells, k, StoreCell, Seq(Node)),
           m.avail + k <= SECTION \/ Following(m.tail) # m.gc
    PROVE  Continues(m, n)
<1> DEFINE F == Following(m.tail)
<1>1. /\ m.gc \in Sections /\ m.tail \in Sections /\ m.avail \in 0 .. SECTION
      /\ SECTION \in Nat \ {0} /\ HEAD = 1 /\ m.gc # INVALID
      /\ F # m.gc => m.list[F] = <<>>
    BY LiveLog
<1>2. GoodLog(n, StoreCell, Seq(Node)) /\ n.list = m.list /\ n.gc = m.gc
    BY <1>1 DEF Wrote
<1>3. n.ok = m.ok
    BY <1>1 DEF Wrote
<1>4. Opened(m, k) = {} \/ (Opened(m, k) = {F} /\ F # m.gc)
    BY <1>1 DEF Opened
<1>5. \A s \in Sections : \A i \in DOMAIN m.list[s] :
         \A j \in 1 .. RecordLen(m.list[s][i].length) :
            CellAt(Seen(n), m.list[s][i], j) = CellAt(Seen(m), m.list[s][i], j)
    <2>1. \A t \in Sections, i \in 1 .. SECTION :
             (t = m.tail => i <= m.avail) /\ t \notin Opened(m, k) => Seen(n)[t][i] = Seen(m)[t][i]
        BY DEF Wrote
    <2> DEFINE f == Seen(n)
               gone == Opened(m, k)
    <2> HIDE DEF f, gone
    <2>2. \A t \in Sections, i \in 1 .. SECTION :
             (t = m.tail => i <= m.avail) /\ t \notin gone => f[t][i] = Seen(m)[t][i]
        BY <2>1 DEF f, gone
    <2>3. gone = {} \/ (gone = {F} /\ F # m.gc)
        BY <1>4 DEF gone
    <2>4. \A s \in Sections : \A i \in DOMAIN m.list[s] :
             \A j \in 1 .. RecordLen(m.list[s][i].length) :
                CellAt(f, m.list[s][i], j) = CellAt(Seen(m), m.list[s][i], j)
        <3>1. Keeps(m, f, gone)
            BY <2>2, <2>3 DEF Keeps
        <3> QED BY <3>1, CellsStay, Zenon
    <2> QED BY <2>4 DEF f
<1>6. ASSUME NEW key \in Keys PROVE SameRecord(m, n, key)
    <2>1. Nodes(n, key) = Nodes(m, key)
        BY <1>2 DEF Nodes, Lists
    <2>2. ASSUME NEW x \in Nodes(m, key) PROVE DataOf(n, x) = DataOf(m, x)
        <3>1. PICK s \in Sections : \E i \in DOMAIN m.list[s] : x = m.list[s][i]
            BY NodesAre
        <3>2. PICK i \in DOMAIN m.list[s] : x = m.list[s][i]
            BY <3>1
        <3>3. x \in Node /\ HEAD + RecordLen(x.length) <= SECTION
            BY <3>2, LiveNode
        <3>4. \A j \in 1 .. RecordLen(x.length) : CellAt(Seen(n), x, j) = CellAt(Seen(m), x, j)
            BY <1>5, <3>2
        <3>5. ASSUME NEW j \in META + 1 .. META + (x.length + CRC)
              PROVE  j \in 1 .. RecordLen(x.length)
            BY <3>3, NodeTypes
        <3> QED BY <3>3, <3>4, <3>5, SameData
    <2> QED BY <2>1, <2>2, SameNodes
<1>7. /\ m.avail + k <= SECTION => n.tail = m.tail /\ n.avail = m.avail + k
      /\ m.avail + k > SECTION => n.tail = F /\ F # m.gc
    BY <1>1 DEF Wrote
<1>8. F \in Sections /\ F # m.tail
    BY <1>1, Arcs
<1>9. ASSUME NEW s \in Sections, m.list[s] # <<>>
      PROVE  InArc(n.gc, s, n.tail) /\ (m.avail + k > SECTION => s # F)
    <2>1. InArc(m.gc, s, m.tail)
        BY <1>9 DEF Live
    <2>2. F # m.gc => s # F /\ InArc(m.gc, s, F)
        BY <1>1, <2>1, Arcs
    <2> QED BY <1>1, <1>2, <1>7, <2>1, <2>2
<1>10. ASSUME NEW s \in Sections, NEW i \in DOMAIN m.list[s]
       PROVE  InLog(n, s, m.list[s][i])
    <2>1. InLog(m, s, m.list[s][i]) /\ m.list[s] # <<>> /\ m.list[s][i] \in Node
        BY LiveNode
    <2> DEFINE node == m.list[s][i]
               end == node.at[2] + RecordLen(node.length)
    <2>2. end \in Nat
        <3>1. node.at[2] \in 0 .. SECTION - 1 /\ RecordLen(node.length) \in Nat
            BY <2>1, NodeTypes
        <3> HIDE DEF node
        <3> QED BY <1>1, <3>1
    <2>3. /\ node.at[1] = s /\ HEAD + RecordLen(node.length) <= SECTION
          /\ s = m.tail => end <= m.avail
          /\ s # m.tail /\ Following(s) = m.tail /\ end > SECTION => HEAD + end - SECTION <= m.avail
        BY <2>1 DEF InLog
    <2> HIDE DEF end, node
    <2>4. CASE m.avail + k <= SECTION
        <3>1. /\ s = n.tail => end <= n.avail
              /\ s # n.tail /\ Following(s) = n.tail /\ end > SECTION => HEAD + end - SECTION <= n.avail
            BY <1>1, <1>7, <2>2, <2>3, <2>4
        <3> QED BY <2>3, <3>1 DEF InLog, end, node
    <2>5. CASE ~(m.avail + k <= SECTION)
        <3>1. n.tail = F /\ s # F
            BY <1>1, <1>7, <1>9, <2>1, <2>5
        <3>2. Following(s) = n.tail => s = m.tail
            BY <1>1, <3>1, Arcs
        <3>3. Following(s) = n.tail => ~(end > SECTION)
            BY <1>1, <2>2, <2>3, <3>2
        <3> QED BY <2>3, <3>1, <3>3 DEF InLog, end, node
    <2> QED BY <2>4, <2>5
<1>11. KeysOnce(n)
    BY <1>2 DEF Live, KeysOnce
<1>12. Live(n)
    BY <1>1, <1>2, <1>9, <1>10, <1>11 DEF Live
<1> QED BY <1>2, <1>3, <1>5, <1>6, <1>12, Zenon DEF Continues

\* A list with one member more.
LEMMA AppendAt ==
    ASSUME NEW S, NEW q \in Seq(S), NEW x \in S
    PROVE  /\ Append(q, x) \in Seq(S) /\ DOMAIN Append(q, x) = DOMAIN q \cup {Len(q) + 1}
           /\ Append(q, x)[Len(q) + 1] = x /\ Len(q) + 1 \notin DOMAIN q
           /\ \A i \in DOMAIN q : Append(q, x)[i] = q[i]
<1>1. Append(q, x) \in Seq(S) /\ Len(Append(q, x)) = Len(q) + 1 /\ Len(q) \in Nat
    OBVIOUS
<1>2. DOMAIN Append(q, x) = 1 .. Len(q) + 1 /\ DOMAIN q = 1 .. Len(q)
    BY <1>1
<1>3. 1 .. Len(q) + 1 = (1 .. Len(q)) \cup {Len(q) + 1}
    BY <1>1
<1>4. Append(q, x)[Len(q) + 1] = x /\ \A i \in 1 .. Len(q) : Append(q, x)[i] = q[i]
    BY <1>1
<1> QED BY <1>1, <1>2, <1>3, <1>4

\* A new node joins the list of its section.
LEMMA ListedIs ==
    ASSUME NEW m, Live(m), NEW k \in Keys, NEW length, NEW at, NEW node \in Node,
           node = [key |-> k, length |-> length, at |-> at], Nodes(m, k) = {},
           InLog(m, at[1], node), InArc(m.gc, at[1], m.tail)
    PROVE  LET n == Listed(m, k, length, at) IN
           /\ Live(n) /\ Seen(n) = Seen(m)
           /\ n.tail = m.tail /\ n.avail = m.avail /\ n.gc = m.gc /\ n.ok = m.ok
           /\ n.flash = m.flash /\ n.images = m.images
           /\ Nodes(n, k) = {node}
           /\ \A k2 \in Keys : k2 # k => SameRecord(m, n, k2)
           /\ \A s \in Sections : s # at[1] => n.list[s] = m.list[s]
<1> DEFINE a == at[1]
           l == [m.list EXCEPT ![a] = Append(@, node)]
           n == Listed(m, k, length, at)
<1>1. /\ GoodLog(m, StoreCell, Seq(Node)) /\ m.gc \in Sections
      /\ m.list \in [Sections -> Seq(Node)]
    BY LiveLog
<1>2. a \in Sections /\ node.key = k
    <2>1. node.at = at /\ node.at[1] \in Sections /\ node.key = k
        BY NodeTypes
    <2> QED BY <2>1
<1>3. n = [m EXCEPT !.list = l]
    <2> DEFINE g == m.list
    <2>1. n = [m EXCEPT !.list = [g EXCEPT ![a] = Append(@, node)]]
        BY DEF Listed
    <2> QED BY <2>1
<1>4. /\ m.list[a] \in Seq(Node)
      /\ l = [s \in Sections |-> IF s = a THEN Append(m.list[a], node) ELSE m.list[s]]
    BY <1>1, <1>2
<1>5. /\ Append(m.list[a], node) \in Seq(Node)
      /\ DOMAIN Append(m.list[a], node) = DOMAIN m.list[a] \cup {Len(m.list[a]) + 1}
      /\ Append(m.list[a], node)[Len(m.list[a]) + 1] = node
      /\ Len(m.list[a]) + 1 \notin DOMAIN m.list[a]
      /\ \A i \in DOMAIN m.list[a] : Append(m.list[a], node)[i] = m.list[a][i]
    <2> DEFINE q == m.list[a]
    <2>1. q \in Seq(Node)
        BY <1>4
    <2> HIDE DEF q
    <2> QED BY <2>1, AppendAt DEF q
<1> HIDE DEF n, a
<1>6. l \in [Sections -> Seq(Node)]
    BY <1>1, <1>4, <1>5
\* A place in a list of n is one of m, or the new one.
<1> DEFINE last == Len(m.list[a]) + 1
<1>7. ASSUME NEW s \in Sections, NEW i \in DOMAIN l[s]
      PROVE  \/ s = a /\ i = last /\ l[s][i] = node
             \/ i \in DOMAIN m.list[s] /\ l[s][i] = m.list[s][i]
    <2>1. CASE s = a
        <3>1. l[s] = Append(m.list[a], node)
            BY <1>2, <1>4, <2>1
        <3> QED BY <1>5, <2>1, <3>1
    <2>2. CASE s # a
        BY <1>4, <2>2
    <2> QED BY <2>1, <2>2
<1>8. ASSUME NEW s \in Sections, NEW i \in DOMAIN m.list[s]
      PROVE  i \in DOMAIN l[s] /\ l[s][i] = m.list[s][i]
    BY <1>4, <1>5
<1>9. last \in DOMAIN l[a] /\ l[a][last] = node
    BY <1>2, <1>4, <1>5
<1>10. \A s \in Sections : s # a => l[s] = m.list[s]
    BY <1>4
<1> HIDE DEF l, last
<1>11. /\ GoodLog(n, StoreCell, Seq(Node)) /\ Seen(n) = Seen(m) /\ n.list = l
       /\ n.tail = m.tail /\ n.avail = m.avail /\ n.gc = m.gc /\ n.ok = m.ok
       /\ n.flash = m.flash /\ n.images = m.images
    <2> DEFINE v == [m EXCEPT !.list = l]
    <2>1. /\ GoodLog(v, StoreCell, Seq(Node)) /\ Seen(v) = Seen(m) /\ v.list = l
          /\ v.tail = m.tail /\ v.avail = m.avail /\ v.gc = m.gc /\ v.ok = m.ok
          /\ v.flash = m.flash /\ v.images = m.images
        <3>1. OnlyLists(m, v, l, StoreCell, Seq(Node))
            BY <1>1, <1>6, OtherLists, Zenon
        <3> QED BY <3>1, Zenon DEF OnlyLists
    <2> HIDE DEF v
    <2> QED BY <1>3, <2>1 DEF v
<1>12. \A s \in Sections : \A i \in DOMAIN m.list[s] : m.list[s][i].key # k
    BY NodesAre
<1>13. Nodes(n, k) = {node}
    <2>1. ASSUME NEW x \in Nodes(n, k) PROVE x = node
        <3>1. x.key = k /\ \E s \in Sections : \E i \in DOMAIN l[s] : x = l[s][i]
            BY <1>11, NodesAre
        <3> QED BY <1>7, <1>12, <3>1
    <2>2. node \in Nodes(n, k)
        <3>1. node.key = k /\ \E s \in Sections : \E i \in DOMAIN n.list[s] : node = n.list[s][i]
            BY <1>2, <1>9, <1>11
        <3> QED BY <3>1, NodesAre
    <2> QED BY <2>1, <2>2
<1>14. ASSUME NEW k2 \in Keys, k2 # k PROVE SameRecord(m, n, k2)
    <2>1. ASSUME NEW x \in Nodes(n, k2) PROVE x \in Nodes(m, k2)
        <3>1. x.key = k2 /\ \E s \in Sections : \E i \in DOMAIN l[s] : x = l[s][i]
            BY <1>11, NodesAre
        <3>2. x.key = k2 /\ \E s \in Sections : \E i \in DOMAIN m.list[s] : x = m.list[s][i]
            BY <1>2, <1>7, <1>14, <3>1
        <3> QED BY <3>2, NodesAre
    <2>2. ASSUME NEW x \in Nodes(m, k2) PROVE x \in Nodes(n, k2)
        <3>1. x.key = k2 /\ \E s \in Sections : \E i \in DOMAIN m.list[s] : x = m.list[s][i]
            BY NodesAre
        <3>2. x.key = k2 /\ \E s \in Sections : \E i \in DOMAIN n.list[s] : x = n.list[s][i]
            BY <1>8, <1>11, <3>1
        <3> QED BY <3>2, NodesAre
    <2>3. Nodes(n, k2) = Nodes(m, k2)
        BY <2>1, <2>2
    <2>4. \A x : DataOf(n, x) = DataOf(m, x)
        BY <1>11 DEF DataOf
    <2> QED BY <2>3, <2>4, SameNodes
<1>15. KeysOnce(n)
    <2> SUFFICES ASSUME NEW s \in Sections, NEW t \in Sections,
                        NEW i \in DOMAIN l[s], NEW j \in DOMAIN l[t], l[s][i].key = l[t][j].key
                 PROVE  s = t /\ i = j
        BY <1>11 DEF KeysOnce
    <2>1. CASE i \in DOMAIN m.list[s] /\ l[s][i] = m.list[s][i]
        <3>1. l[t][j] # node
            BY <1>2, <1>12, <2>1
        <3>2. j \in DOMAIN m.list[t] /\ l[t][j] = m.list[t][j]
            BY <1>7, <3>1
        <3> QED BY <2>1, <3>2 DEF Live, KeysOnce
    <2>2. CASE s = a /\ i = last /\ l[s][i] = node
        <3>1. ~(j \in DOMAIN m.list[t] /\ l[t][j] = m.list[t][j])
            BY <1>2, <1>12, <2>2
        <3> QED BY <1>7, <2>2, <3>1
    <2> QED BY <1>7, <2>1, <2>2
<1>16. ASSUME NEW s \in Sections, NEW i \in DOMAIN l[s] PROVE InLog(n, s, l[s][i])
    <2>1. InLog(m, s, l[s][i])
        <3>1. CASE s = a /\ i = last /\ l[s][i] = node
            BY <3>1 DEF a
        <3>2. CASE i \in DOMAIN m.list[s] /\ l[s][i] = m.list[s][i]
            BY <3>2, LiveNode
        <3> QED BY <1>7, <3>1, <3>2
    <2> QED BY <1>11, <2>1 DEF InLog
<1>17. ASSUME NEW s \in Sections, l[s] # <<>> PROVE InArc(n.gc, s, n.tail)
    <2>1. CASE s = a
        BY <1>11, <2>1 DEF a
    <2>2. CASE s # a
        <3>1. m.list[s] # <<>>
            BY <1>10, <1>17, <2>2
        <3> QED BY <1>11, <3>1 DEF Live
    <2> QED BY <2>1, <2>2
<1>18. Live(n)
    BY <1>1, <1>11, <1>15, <1>16, <1>17 DEF Live
<1> QED BY <1>10, <1>11, <1>13, <1>14, <1>18 DEF n, a

\* n is m with a new record of these cells.
Appended(m, n, k, length, cells) ==
    LET end == m.avail + RecordLen(length) IN
    /\ Live(n) /\ n.ok = m.ok /\ n.gc = m.gc
    /\ end <= SECTION => n.tail = m.tail /\ n.avail = end
    /\ end > SECTION => n.tail = Following(m.tail) /\ n.avail = HEAD + end - SECTION
    /\ \A k2 \in Keys : k2 # k => SameRecord(m, n, k2)
    /\ \A s \in Sections : s # NextAddr(m)[1] => n.list[s] = m.list[s]
    /\ \E x \in Node : /\ Nodes(n, k) = {x} /\ x.length = length
                       /\ \A i \in 1 .. RecordLen(length) : CellAt(Seen(n), x, i) = cells[i]

\* The cells of a record are in the log, and its node goes to the list.
LEMMA WrittenIsAppended ==
    ASSUME NEW m, Live(m), NEW k \in Keys, NEW length \in Nat, Nodes(m, k) = {},
           NEW cells, HEAD + RecordLen(length) <= SECTION, NEW w,
           Wrote(m, w, cells, RecordLen(length), StoreCell, Seq(Node)),
           Live(w), w.ok = m.ok, w.gc = m.gc, w.list = m.list,
           \A key \in Keys : SameRecord(m, w, key),
           \/ m.avail + RecordLen(length) <= SECTION
           \/ m.avail = SECTION
           \/ Following(m.tail) # m.gc
    PROVE  Appended(m, Listed(w, k, length, NextAddr(m)), k, length, cells)
<1> DEFINE L == RecordLen(length)
           F == Following(m.tail)
           at == NextAddr(m)
           node == [key |-> k, length |-> length, at |-> at]
           n == Listed(w, k, length, at)
<1>1. /\ m.gc \in Sections /\ m.tail \in Sections /\ m.avail \in 0 .. SECTION
      /\ SECTION \in Nat \ {0} /\ HEAD = 1
    BY LiveLog
<1>2. L \in Nat \ {0}
    BY StoreAssumption DEF RecordLen
<1>3. HEAD + L <= SECTION
    OBVIOUS
<1>4. m.avail + L <= SECTION \/ m.avail = SECTION \/ F # m.gc
    OBVIOUS
<1>5. Wrote(m, w, cells, L, StoreCell, Seq(Node))
    OBVIOUS
<1> HIDE DEF L
<1>6. /\ Live(w) /\ w.ok = m.ok /\ w.gc = m.gc /\ w.list = m.list
      /\ \A key \in Keys : SameRecord(m, w, key)
    OBVIOUS
<1>7. /\ m.avail + L <= SECTION => w.tail = m.tail /\ w.avail = m.avail + L
      /\ m.avail + L > SECTION => w.tail = F /\ w.avail = HEAD + m.avail + L - SECTION
      /\ \A j \in 1 .. L : Seen(w)[Place(m, j)[1]][Place(m, j)[2]] = cells[j]
    BY <1>5 DEF Wrote
<1>8. F \in Sections /\ F # m.tail
    BY <1>1, Arcs
<1> DEFINE s == at[1]
           o == at[2]
<1>9. /\ m.avail = SECTION => s = F /\ o = HEAD
      /\ m.avail # SECTION => s = m.tail /\ o = m.avail
      /\ at = <<s, o>>
    BY DEF NextAddr
<1> HIDE DEF at, F
<1>10. s \in Sections /\ o \in 0 .. SECTION - 1
    BY <1>1, <1>2, <1>3, <1>8, <1>9
<1>11. node \in Node
    BY <1>9, <1>10 DEF Node
<1>12. InArc(w.gc, s, w.tail)
    <2>1. CASE m.avail = SECTION
        <3>1. s = F /\ w.tail = F
            BY <1>1, <1>2, <1>7, <1>9, <2>1
        <3> QED BY <1>1, <1>6, <1>8, <3>1, Arcs
    <2>2. CASE m.avail # SECTION
        <3>1. s = m.tail /\ (w.tail = m.tail \/ (w.tail = F /\ F # m.gc))
            BY <1>1, <1>2, <1>4, <1>7, <1>9, <2>2
        <3>2. InArc(m.gc, m.tail, m.tail) /\ (F # m.gc => InArc(m.gc, m.tail, F))
            BY <1>1, Arcs DEF F
        <3> QED BY <1>6, <3>1, <3>2
    <2> QED BY <2>1, <2>2
<1>13. InLog(w, s, node)
    <2>1. /\ s = w.tail => o + L <= w.avail
          /\ s # w.tail /\ Following(s) = w.tail /\ o + L > SECTION => HEAD + (o + L) - SECTION <= w.avail
        <3>1. CASE m.avail = SECTION
            BY <1>1, <1>2, <1>7, <1>9, <3>1
        <3>2. CASE m.avail # SECTION /\ m.avail + L <= SECTION
            BY <1>1, <1>2, <1>7, <1>9, <3>2
        <3>3. CASE m.avail # SECTION /\ ~(m.avail + L <= SECTION)
            BY <1>1, <1>2, <1>7, <1>8, <1>9, <3>3
        <3> QED BY <3>1, <3>2, <3>3
    <2>2. node.at[1] = s /\ node.at[2] = o /\ node.length = length
        OBVIOUS
    <2> HIDE DEF node, s, o
    <2> QED BY <1>3, <2>1, <2>2 DEF InLog, L
<1>14. Nodes(w, k) = {}
    BY <1>6 DEF SameRecord
<1> HIDE DEF n
<1>15. /\ Live(n) /\ Seen(n) = Seen(w)
       /\ n.tail = w.tail /\ n.avail = w.avail /\ n.gc = w.gc /\ n.ok = w.ok
       /\ Nodes(n, k) = {node}
       /\ \A k2 \in Keys : k2 # k => SameRecord(w, n, k2)
       /\ \A t \in Sections : t # s => n.list[t] = w.list[t]
    <2> DEFINE x == node
    <2>1. x \in Node /\ x = [key |-> k, length |-> length, at |-> at] /\ InLog(w, at[1], x)
          /\ InArc(w.gc, at[1], w.tail)
        BY <1>11, <1>12, <1>13
    <2> HIDE DEF x
    <2> DEFINE y == Listed(w, k, length, at)
    <2>2. /\ Live(y) /\ Seen(y) = Seen(w)
          /\ y.tail = w.tail /\ y.avail = w.avail /\ y.gc = w.gc /\ y.ok = w.ok
          /\ Nodes(y, k) = {x}
          /\ \A k2 \in Keys : k2 # k => SameRecord(w, y, k2)
          /\ \A t \in Sections : t # at[1] => y.list[t] = w.list[t]
        BY <1>6, <1>14, <2>1, ListedIs
    <2>3. n = y
        BY DEF n
    <2> HIDE DEF y
    <2> QED BY <2>2, <2>3 DEF x
<1>16. ASSUME NEW k2 \in Keys, k2 # k PROVE SameRecord(m, n, k2)
    BY <1>6, <1>15, <1>16, SameTwice
<1>17. ASSUME NEW i \in 1 .. L PROVE CellAt(Seen(n), node, i) = cells[i]
    <2> DEFINE p == Moved(s, o, i - 1)
    <2>1. CellAt(Seen(n), node, i) = Seen(w)[p[1]][p[2] + 1]
        BY <1>15 DEF CellAt
    <2>2. p[1] = Place(m, i)[1] /\ p[2] + 1 = Place(m, i)[2]
        BY <1>1, <1>2, <1>3, PlaceIs DEF at
    <2> HIDE DEF p
    <2> QED BY <1>7, <2>1, <2>2
<1>18. \E x \in Node : /\ Nodes(n, k) = {x} /\ x.length = length
                       /\ \A i \in 1 .. L : CellAt(Seen(n), x, i) = cells[i]
    <2>1. node.length = length
        OBVIOUS
    <2> HIDE DEF node
    <2> QED BY <1>11, <1>15, <1>17, <2>1
<1>19. \A t \in Sections : t # s => n.list[t] = m.list[t]
    BY <1>6, <1>15
<1>20. HEAD + m.avail + L - SECTION = HEAD + (m.avail + L) - SECTION
    BY <1>1, <1>2
<1> QED BY <1>6, <1>7, <1>15, <1>16, <1>18, <1>19, <1>20 DEF Appended, n, L, F, at

\* A record is appended to a log with room for it.
LEMMA AppendedIs ==
    ASSUME NEW m, Live(m), NEW k \in Keys, NEW length \in Nat, Nodes(m, k) = {},
           NEW cells, HEAD + RecordLen(length) <= SECTION, NEW w,
           Wrote(m, w, cells, RecordLen(length), StoreCell, Seq(Node)),
           m.avail + RecordLen(length) <= SECTION \/ Following(m.tail) # m.gc
    PROVE  Appended(m, Listed(w, k, length, NextAddr(m)), k, length, cells)
<1> DEFINE L == RecordLen(length)
<1>1. L \in Nat
    BY StoreAssumption DEF RecordLen
<1>2. /\ HEAD + L <= SECTION /\ Wrote(m, w, cells, L, StoreCell, Seq(Node))
      /\ m.avail + L <= SECTION \/ Following(m.tail) # m.gc
    OBVIOUS
<1> HIDE DEF L
<1>3. /\ Live(w) /\ w.ok = m.ok /\ w.gc = m.gc /\ w.list = m.list
      /\ \A key \in Keys : SameRecord(m, w, key)
    <2>1. Continues(m, w)
        BY <1>1, <1>2, WroteLive, Zenon
    <2> QED BY <2>1, Zenon DEF Continues
<1> QED BY <1>2, <1>3, WrittenIsAppended DEF L

--------------------------------------------------------------------------------
(* Copying a node.                                                         *)

\* The cells of a node's copy.
CopyOf(m, node) == [i \in 1 .. RecordLen(node.length) |-> CellOf(m, node, i)]

\* Heads and the cells of nodes are what the sections hold.
LEMMA HeadsAreCells == IsCells(StoreCell)
<1>1. Erased \in StoreCell
    BY DEF StoreCell
<1>2. ASSUME NEW n \in 0 .. LOOPS - 1, NEW o \in Nat PROVE HeadCell(n, o) \in StoreCell
    <2>1. n \in Nat
        BY LogAssumption
    <2> QED BY <2>1 DEF HeadCell, StoreCell
<1> QED BY <1>1, <1>2 DEF IsCells

\* The copy is made of cells as they are in flash.
LEMMA CopyIsCells ==
    ASSUME NEW m, Live(m), NEW node \in Node, HEAD + RecordLen(node.length) <= SECTION
    PROVE  CopyOf(m, node) \in Seq(StoreCell) /\ Len(CopyOf(m, node)) = RecordLen(node.length)
<1> DEFINE N == RecordLen(node.length)
<1>1. /\ node.key \in Keys /\ node.length \in Nat
      /\ node.at[1] \in Sections /\ node.at[2] \in 0 .. SECTION - 1 /\ N \in Nat \ {0}
    BY NodeTypes
<1>2. HEAD + N <= SECTION /\ SECTION \in Nat /\ HEAD = 1
    BY LogAssumption DEF HEAD
<1> HIDE DEF N
<1>3. ASSUME NEW i \in 1 .. N PROVE CellOf(m, node, i) \in StoreCell
    <2>1. <<"add", node.key, node.length, i>> \in StoreCell
        <3>1. "add" \in Kinds /\ i \in Nat
            BY <1>1 DEF Kinds
        <3> QED BY <1>1, <3>1 DEF StoreCell
    <2>2. CellAt(Seen(m), node, i) \in StoreCell
        <3> DEFINE at == Moved(node.at[1], node.at[2], i - 1)
        <3>1. at[1] \in Sections /\ at[2] \in 0 .. SECTION - 1
            <4>1. i - 1 \in Nat /\ HEAD + (i - 1) + 0 <= SECTION
                BY <1>1, <1>2
            <4> QED BY <1>1, <4>1, MovedIs
        <3>2. Seen(m) \in Flashes(StoreCell)
            BY SeenIs, LiveLog
        <3> HIDE DEF at
        <3>3. at[2] + 1 \in 1 .. SECTION
            BY <1>2, <3>1
        <3>4. Seen(m)[at[1]][at[2] + 1] \in StoreCell
            BY <3>1, <3>2, <3>3 DEF Flashes
        <3> QED BY <3>4 DEF CellAt, at
    <2> QED BY <2>1, <2>2 DEF CellOf
<1>4. CopyOf(m, node) = [i \in 1 .. N |-> CellOf(m, node, i)]
    BY DEF CopyOf, N
<1>5. CopyOf(m, node) \in Seq(StoreCell) /\ Len(CopyOf(m, node)) = N
    BY <1>1, <1>3, <1>4
<1> QED BY <1>5 DEF N

\* The loop of node_copy writes the cells that the node had before it began.
LEMMA CopyWrites ==
    ASSUME NEW m, Live(m), NEW s \in Sections, NEW i \in DOMAIN m.list[s],
           m.avail + RecordLen(m.list[s][i].length) <= SECTION \/ Following(m.tail) # m.gc
    PROVE  LET node == m.list[s][i]
               u == Unlisted(m, node.key) IN
           \E w : /\ Wrote(u, w, CopyOf(m, node), RecordLen(node.length), StoreCell, Seq(Node))
                  /\ CopyNode(m, node) = Listed(w, node.key, node.length, NextAddr(m))
<1> DEFINE node == m.list[s][i]
           u == Unlisted(m, node.key)
           N == RecordLen(node.length)
           cells == CopyOf(m, node)
           Is(g) == g = [j \in 0 .. N |-> IF j = 0 THEN u ELSE CopyCell(g[j - 1], node, j)]
           g == CHOOSE x : Is(x)
<1>1. node \in Node /\ HEAD + N <= SECTION
    BY LiveNode
<1>2. cells \in Seq(StoreCell) /\ Len(cells) = N /\ \A j \in 1 .. N : cells[j] = CellOf(m, node, j)
    <2>1. cells \in Seq(StoreCell) /\ Len(cells) = N
        BY <1>1, CopyIsCells
    <2>2. \A j \in 1 .. N : cells[j] = CellOf(m, node, j)
        BY DEF CopyOf
    <2> QED BY <2>1, <2>2
<1>3. N \in Nat \ {0}
    BY <1>1, NodeTypes
<1>4. /\ Live(u) /\ Seen(u) = Seen(m) /\ u.tail = m.tail /\ u.avail = m.avail
    BY UnlistedIs
<1>5. CopyNode(m, node) = Listed(g[N], node.key, node.length, NextAddr(m))
    BY Zenon DEF CopyNode
<1>6. /\ GoodLog(u, StoreCell, Seq(Node)) /\ IsCells(StoreCell)
      /\ SECTION \in Nat \ {0} /\ m.avail \in 0 .. SECTION /\ m.tail \in Sections
    BY <1>4, LiveLog, HeadsAreCells
<1> HIDE DEF u, cells
<1>7. PICK w : /\ w[0] = u
               /\ \A k \in 1 .. Len(cells) : w[k] = WriteCell(w[k - 1], cells[k], k, Len(cells))
               /\ WriteCells(u, cells) = w[Len(cells)]
    BY <1>2, CellByCell
<1>8. \A k \in 0 .. Len(cells) : Wrote(u, w[k], cells, k, StoreCell, Seq(Node))
    <2>1. HEAD + Len(cells) <= SECTION
        BY <1>1, <1>2
    <2> QED BY <1>2, <1>6, <1>7, <2>1, WritesEach
<1>9. ASSUME NEW k \in 1 .. N PROVE w[k] = CopyCell(w[k - 1], node, k)
    <2>1. k - 1 \in 0 .. N
        BY <1>3
    <2>2. Wrote(u, w[k - 1], cells, k - 1, StoreCell, Seq(Node))
        BY <1>2, <1>8, <2>1
    <2> DEFINE f == Seen(w[k - 1])
               gone == Opened(u, k - 1)
    <2>3. \A t \in Sections, j \in 1 .. SECTION :
             (t = m.tail => j <= m.avail) /\ t \notin gone => f[t][j] = Seen(m)[t][j]
        BY <1>4, <2>2 DEF Wrote
    <2>4. gone = {} \/ (gone = {Following(m.tail)} /\ Following(m.tail) # m.gc)
        <3>1. m.avail + (k - 1) > SECTION => ~(m.avail + N <= SECTION)
            <4> HIDE DEF N
            <4> QED BY <1>3, <1>6
        <3> QED BY <1>4, <3>1 DEF Opened
    <2> HIDE DEF f, gone
    <2>5. CellAt(f, node, k) = CellAt(Seen(m), node, k)
        <3>1. Keeps(m, f, gone)
            BY <2>3, <2>4 DEF Keeps
        <3> QED BY <3>1, CellsStay, Zenon
    <2>6. CellOf(w[k - 1], node, k) = CellOf(m, node, k)
        BY <2>5 DEF CellOf, f
    <2>7. w[k] = WriteCell(w[k - 1], cells[k], k, N)
        BY <1>2, <1>7
    <2> QED BY <1>2, <2>6, <2>7 DEF CopyCell
<1> HIDE DEF node, N
<1>10. \E x : Is(x)
    <2> DEFINE h == [j \in 0 .. N |-> w[j]]
    <2>1. ASSUME NEW j \in 0 .. N
          PROVE  w[j] = IF j = 0 THEN u ELSE CopyCell(h[j - 1], node, j)
        <3>1. CASE j = 0
            BY <1>7, <3>1
        <3>2. CASE j # 0
            <4>1. j \in 1 .. N /\ j - 1 \in 0 .. N
                BY <1>3, <3>2
            <4>2. h[j - 1] = w[j - 1]
                BY <4>1
            <4> QED BY <1>9, <3>2, <4>1, <4>2
        <3> QED BY <3>1, <3>2
    <2>2. h = [j \in 0 .. N |-> IF j = 0 THEN u ELSE CopyCell(h[j - 1], node, j)]
        BY <2>1, Zenon
    <2>3. Is(h)
        BY <2>2
    <2> HIDE DEF h, Is
    <2> QED BY <2>3
<1>11. Is(g)
    <2> HIDE DEF Is
    <2> QED BY <1>10
<1> HIDE DEF g
<1>12. /\ g[0] = u
       /\ \A k \in 1 .. N : g[k] = CopyCell(g[k - 1], node, k)
    <2>1. ASSUME NEW j \in 0 .. N PROVE g[j] = IF j = 0 THEN u ELSE CopyCell(g[j - 1], node, j)
        BY <1>11, Zenon
    <2>2. 0 \in 0 .. N /\ \A k \in 1 .. N : k \in 0 .. N /\ k # 0
        BY <1>3
    <2> QED BY <2>1, <2>2
<1>13. g[N] = w[N]
    <2> DEFINE T == {k \in 0 .. N : g[k] = w[k]}
    <2>1. 0 \in T
        BY <1>3, <1>7, <1>12
    <2>2. ASSUME NEW k \in 0 .. N - 1, k \in T PROVE k + 1 \in T
        <3>1. k + 1 \in 1 .. N /\ (k + 1) - 1 = k /\ k + 1 \in 0 .. N
            BY <1>3
        <3>2. g[k + 1] = CopyCell(g[k], node, k + 1) /\ w[k + 1] = CopyCell(w[k], node, k + 1)
            BY <1>9, <1>12, <3>1
        <3> QED BY <2>2, <3>1, <3>2
    <2> HIDE DEF T
    <2>3. \A k \in 0 .. N : k \in T
        BY <1>3, <2>1, <2>2, Upward
    <2>4. N \in T
        BY <1>3, <2>3
    <2> QED BY <2>4 DEF T
<1>14. Wrote(u, w[N], cells, N, StoreCell, Seq(Node))
    BY <1>2, <1>3, <1>8
<1> QED BY <1>5, <1>13, <1>14 DEF node, u, N, cells

\* The first node of the oldest section is copied to the tail: its record is the same.
LEMMA CopyNodeIs ==
    ASSUME NEW m, Live(m), m.gc # m.tail, m.list[m.gc] # <<>>,
           \/ m.avail + RecordLen(Head(m.list[m.gc]).length) <= SECTION
           \/ Following(m.tail) # m.gc
    PROVE  LET node == Head(m.list[m.gc])
               n == CopyNode(m, node)
               end == m.avail + RecordLen(node.length) IN
           /\ Live(n) /\ n.ok = m.ok /\ n.gc = m.gc
           /\ end <= SECTION => n.tail = m.tail /\ n.avail = end
           /\ end > SECTION => n.tail = Following(m.tail) /\ n.avail = HEAD + end - SECTION
           /\ n.list[m.gc] = Tail(m.list[m.gc])
           /\ \A key \in Keys : SameRecord(m, n, key)
<1> DEFINE s == m.gc
           l == m.list[s]
           node == Head(l)
           k == node.key
           u == Unlisted(m, k)
           N == RecordLen(node.length)
           n == CopyNode(m, node)
<1>1. /\ s \in Sections /\ m.tail \in Sections /\ m.avail \in 0 .. SECTION
      /\ SECTION \in Nat \ {0} /\ HEAD = 1 /\ l \in Seq(Node)
    BY LiveLog
<1>2. l # <<>>
    OBVIOUS
<1>3. 1 \in DOMAIN l /\ node = l[1]
    <2> HIDE DEF l
    <2> QED BY <1>1, <1>2
<1>4. node \in Node /\ node.at[1] = s /\ HEAD + N <= SECTION /\ node \in Nodes(m, k)
    BY <1>1, <1>3, LiveNode
<1>5. k \in Keys /\ node.length \in Nat /\ N \in Nat \ {0} /\ META + (node.length + CRC) <= N
      /\ META \in Nat /\ CRC \in Nat
    BY <1>4, NodeTypes
<1>6. m.avail + N <= SECTION \/ Following(m.tail) # m.gc
    OBVIOUS
<1>7. PICK w : /\ Wrote(u, w, CopyOf(m, node), N, StoreCell, Seq(Node))
               /\ n = Listed(w, k, node.length, NextAddr(m))
    <2>1. m.avail + RecordLen(m.list[s][1].length) <= SECTION \/ Following(m.tail) # m.gc
        BY <1>3, <1>6
    <2> DEFINE nd == m.list[s][1]
    <2>2. \E w : /\ Wrote(Unlisted(m, nd.key), w, CopyOf(m, nd), RecordLen(nd.length), StoreCell, Seq(Node))
                 /\ CopyNode(m, nd) = Listed(w, nd.key, nd.length, NextAddr(m))
        BY <1>1, <1>3, <2>1, CopyWrites
    <2>3. nd = node
        BY <1>3
    <2> HIDE DEF nd, node
    <2> QED BY <2>2, <2>3
<1>8. /\ Live(u) /\ Seen(u) = Seen(m) /\ u.tail = m.tail /\ u.avail = m.avail
      /\ u.gc = m.gc /\ u.ok = m.ok /\ Nodes(u, k) = {}
      /\ \A k2 \in Keys : k2 # k => SameRecord(m, u, k2)
      /\ u.list[s] = Without(l, k)
    BY <1>1, UnlistedIs
<1>9. u.list[s] = Tail(l)
    <2>1. \A i, j \in DOMAIN l : l[i].key = l[j].key => i = j
        BY <1>1 DEF Live, KeysOnce
    <2> HIDE DEF l
    <2>2. l # <<>> /\ Head(l).key = k
        BY <1>2
    <2>3. Without(l, k) = Tail(l)
        BY <1>1, <2>1, <2>2, WithoutIs
    <2> QED BY <1>8, <2>3
<1>10. NextAddr(u) = NextAddr(m) /\ NextAddr(m)[1] # s
    <2>1. NextAddr(u) = NextAddr(m)
        BY <1>8 DEF NextAddr
    <2>2. NextAddr(m)[1] = IF m.avail = SECTION THEN Following(m.tail) ELSE m.tail
        BY DEF NextAddr
    <2>3. m.avail = SECTION => Following(m.tail) # m.gc
        <3> HIDE DEF N
        <3> QED BY <1>1, <1>5, <1>6
    <2> QED BY <2>1, <2>2, <2>3
<1> HIDE DEF u, node, n, l, N, k
<1>11. Appended(u, n, k, node.length, CopyOf(m, node))
    <2>1. HEAD + RecordLen(node.length) <= SECTION /\ N = RecordLen(node.length)
        BY <1>4 DEF N
    <2>2. /\ Wrote(u, w, CopyOf(m, node), RecordLen(node.length), StoreCell, Seq(Node))
          /\ u.avail + RecordLen(node.length) <= SECTION \/ Following(u.tail) # u.gc
        BY <1>6, <1>7, <1>8, <2>1
    <2>3. Appended(u, Listed(w, k, node.length, NextAddr(u)), k, node.length, CopyOf(m, node))
        BY <1>5, <1>8, <2>1, <2>2, AppendedIs
    <2> QED BY <1>7, <1>10, <2>3
<1>12. SameRecord(m, n, k)
    <2>1. PICK x \in Node : /\ Nodes(n, k) = {x} /\ x.length = node.length
                            /\ \A i \in 1 .. N : CellAt(Seen(n), x, i) = CopyOf(m, node)[i]
        BY <1>11 DEF Appended, N
    <2>2. Nodes(m, k) = {node}
        BY <1>4, OneNode
    <2>3. ASSUME NEW j \in META + 1 .. META + (node.length + CRC)
          PROVE  CellAt(Seen(n), x, j) = CellAt(Seen(m), node, j)
        <3>1. j \in 1 .. N /\ ~(j <= META)
            BY <1>5
        <3>2. CopyOf(m, node)[j] = CellOf(m, node, j)
            BY <3>1 DEF CopyOf, N
        <3>3. CellOf(m, node, j) = CellAt(Seen(m), node, j)
            BY <3>1 DEF CellOf
        <3> QED BY <2>1, <3>1, <3>2, <3>3
    <2>4. HEAD + RecordLen(node.length) <= SECTION
        BY <1>4 DEF N
    <2>5. DataOf(n, x) = DataOf(m, node)
        BY <1>4, <2>1, <2>3, <2>4, SameData
    <2> QED BY <2>1, <2>2, <2>5 DEF SameRecord
<1>13. ASSUME NEW key \in Keys PROVE SameRecord(m, n, key)
    <2>1. CASE key = k
        BY <1>12, <2>1
    <2>2. CASE key # k
        BY <1>8, <1>11, <2>2, SameTwice DEF Appended
    <2> QED BY <2>1, <2>2
<1>14. n.list[s] = Tail(l)
    BY <1>1, <1>9, <1>10, <1>11 DEF Appended
<1>15. /\ m.avail + N <= SECTION => n.tail = m.tail /\ n.avail = m.avail + N
       /\ m.avail + N > SECTION => n.tail = Following(m.tail) /\ n.avail = HEAD + (m.avail + N) - SECTION
    BY <1>8, <1>11 DEF Appended, N
<1>16. Live(n) /\ n.ok = m.ok /\ n.gc = m.gc
    BY <1>8, <1>11 DEF Appended
<1> QED BY <1>13, <1>14, <1>15, <1>16 DEF n, node, l, N

--------------------------------------------------------------------------------
(* Collecting a section.                                                   *)

\* The sums that ListLen goes through.
LEMMA Sums ==
    ASSUME NEW l \in Seq(Node)
    PROVE  \E f : /\ f[0] = 0 /\ ListLen(l) = f[Len(l)]
                  /\ \A i \in 1 .. Len(l) : f[i] = f[i - 1] + RecordLen(l[i].length)
                  /\ \A i \in 0 .. Len(l) : f[i] \in Nat
<1> DEFINE N == Len(l)
           Is(g, k) == g = [i \in 0 .. k |-> IF i = 0 THEN 0
                                             ELSE g[i - 1] + RecordLen(l[i].length)]
           T == {k \in 0 .. N : \E g : Is(g, k)}
<1>1. N \in Nat
    OBVIOUS
<1>2. 0 \in T
    <2> DEFINE g == [i \in 0 .. 0 |-> 0]
    <2>1. g = [i \in 0 .. 0 |-> IF i = 0 THEN 0 ELSE g[i - 1] + RecordLen(l[i].length)]
        <3>1. \A i \in 0 .. 0 : i = 0
            OBVIOUS
        <3> QED BY <3>1, Zenon
    <2>2. 0 \in 0 .. N
        BY <1>1
    <2> HIDE DEF g, N
    <2> QED BY <2>1, <2>2
<1>3. ASSUME NEW k \in 0 .. N - 1, k \in T
      PROVE  k + 1 \in T
    <2>1. PICK g : Is(g, k)
        BY <1>3
    <2> DEFINE h == [i \in 0 .. k + 1 |-> IF i = k + 1
                                          THEN g[k] + RecordLen(l[k + 1].length)
                                          ELSE g[i]]
               hh == [i \in 0 .. k + 1 |-> IF i = 0 THEN 0
                                           ELSE h[i - 1] + RecordLen(l[i].length)]
    <2> HIDE DEF N
    <2>2. k \in Nat /\ k + 1 \in 0 .. N
        BY <1>1
    <2>3. ASSUME NEW i \in 0 .. k + 1 PROVE h[i] = hh[i]
        <3>1. CASE i = k + 1
            <4>1. h[i - 1] = g[k] /\ i # 0 /\ i - 1 = k
                BY <2>2, <3>1
            <4> QED BY <3>1, <4>1
        <3>2. CASE i # k + 1
            <4>1. i \in 0 .. k /\ h[i] = g[i]
                BY <2>2, <3>2
            <4>2. g[i] = IF i = 0 THEN 0 ELSE g[i - 1] + RecordLen(l[i].length)
                BY <2>1, <4>1, Zenon
            <4>3. i # 0 => h[i - 1] = g[i - 1]
                BY <2>2, <4>1
            <4> QED BY <4>1, <4>2, <4>3
        <3> QED BY <3>1, <3>2
    <2>4. h = hh
        BY <2>3, Zenon
    <2>5. Is(h, k + 1)
        BY <2>4, Zenon
    <2> HIDE DEF h, hh, Is
    <2> QED BY <2>2, <2>5
<1> HIDE DEF T
<1>4. N \in T
    <2> HIDE DEF N
    <2>1. \A k \in 0 .. N - 1 : k \in T => k + 1 \in T
        BY <1>3
    <2>2. \A k \in 0 .. N : k \in T
        BY <1>1, <1>2, <2>1, Upward
    <2> QED BY <1>1, <2>2
<1>5. PICK g : Is(g, N)
    BY <1>4 DEF T
<1> DEFINE f == CHOOSE x : Is(x, N)
<1>6. Is(f, N)
    BY <1>5, Zenon
<1>7. ListLen(l) = f[N]
    BY Zenon DEF ListLen
<1>8. ASSUME NEW i \in 1 .. N PROVE RecordLen(l[i].length) \in Nat
    <2>1. l[i] \in Node
        OBVIOUS
    <2> QED BY <2>1, NodeTypes
<1> HIDE DEF f, N
<1>9. f[0] = 0
    BY <1>1, <1>6
<1>10. ASSUME NEW k \in 1 .. N PROVE f[k] = f[k - 1] + RecordLen(l[k].length)
    BY <1>1, <1>6
<1>11. \A k \in 0 .. N : f[k] \in Nat
    <2> DEFINE U == {k \in 0 .. N : f[k] \in Nat}
    <2>1. 0 \in U
        BY <1>1, <1>9
    <2>2. ASSUME NEW k \in 0 .. N - 1, k \in U PROVE k + 1 \in U
        <3>1. k + 1 \in 1 .. N /\ (k + 1) - 1 = k /\ k + 1 \in 0 .. N
            BY <1>1
        <3>2. f[k + 1] = f[k] + RecordLen(l[k + 1].length)
            BY <1>10, <3>1
        <3>3. RecordLen(l[k + 1].length) \in Nat
            BY <1>8, <3>1
        <3> QED BY <2>2, <3>1, <3>2, <3>3
    <2> HIDE DEF U
    <2>3. \A k \in 0 .. N : k \in U
        BY <1>1, <2>1, <2>2, Upward
    <2> QED BY <2>3 DEF U
<1> QED BY <1>7, <1>9, <1>10, <1>11 DEF N

\* The length of a list is that of its first node and of the others.
LEMMA ListLenIs ==
    ASSUME NEW l \in Seq(Node)
    PROVE  /\ ListLen(l) \in Nat
           /\ l # <<>> => ListLen(l) = RecordLen(Head(l).length) + ListLen(Tail(l))
<1> DEFINE N == Len(l)
<1>1. PICK f : /\ f[0] = 0 /\ ListLen(l) = f[N]
               /\ \A i \in 1 .. N : f[i] = f[i - 1] + RecordLen(l[i].length)
               /\ \A i \in 0 .. N : f[i] \in Nat
    BY Sums
<1>2. N \in Nat /\ N \in 0 .. N
    OBVIOUS
<1>3. ASSUME l # <<>> PROVE ListLen(l) = RecordLen(Head(l).length) + ListLen(Tail(l))
    <2> DEFINE t == Tail(l)
    <2>1. /\ t \in Seq(Node) /\ Len(t) = N - 1 /\ N >= 1 /\ Head(l) = l[1]
          /\ \A i \in 1 .. N - 1 : t[i] = l[i + 1]
        BY <1>3
    <2> HIDE DEF t
    <2>2. PICK g : /\ g[0] = 0 /\ ListLen(t) = g[Len(t)]
                   /\ \A i \in 1 .. Len(t) : g[i] = g[i - 1] + RecordLen(t[i].length)
                   /\ \A i \in 0 .. Len(t) : g[i] \in Nat
        BY <2>1, Sums
    <2> HIDE DEF N
    <2> DEFINE R == RecordLen(l[1].length)
               T == {k \in 0 .. N - 1 : f[k + 1] = R + g[k]}
    <2>3. R \in Nat
        <3>1. l[1] \in Node
            BY <2>1 DEF N
        <3> QED BY <3>1, NodeTypes
    <2>4. 0 \in T
        <3>1. 1 \in 1 .. N /\ 1 - 1 = 0 /\ 0 \in 0 .. N - 1 /\ 0 + 1 = 1
            BY <1>2, <2>1
        <3>2. f[1] = f[0] + R
            BY <1>1, <3>1
        <3> HIDE DEF R
        <3> QED BY <1>1, <2>2, <2>3, <3>1, <3>2
    <2>5. ASSUME NEW k \in 0 .. (N - 1) - 1, k \in T PROVE k + 1 \in T
        <3>1. /\ k + 2 \in 1 .. N /\ (k + 2) - 1 = k + 1 /\ k + 1 \in 1 .. N - 1 /\ (k + 1) - 1 = k
              /\ k + 1 \in 0 .. N - 1 /\ (k + 1) + 1 = k + 2 /\ k \in 0 .. N - 1
            BY <1>2
        <3>2. f[k + 2] = f[k + 1] + RecordLen(l[k + 2].length)
            BY <1>1, <3>1
        <3>3. g[k + 1] = g[k] + RecordLen(l[k + 2].length) /\ g[k] \in Nat
            BY <2>1, <2>2, <3>1
        <3>4. RecordLen(l[k + 2].length) \in Nat
            <4>1. l[k + 2] \in Node
                BY <3>1 DEF N
            <4> QED BY <4>1, NodeTypes
        <3>5. f[k + 1] = R + g[k]
            BY <2>5
        <3> HIDE DEF R
        <3>6. f[(k + 1) + 1] = R + g[k + 1]
            BY <2>3, <3>1, <3>2, <3>3, <3>4, <3>5
        <3> QED BY <3>1, <3>6
    <2>6. N - 1 \in T
        <3> HIDE DEF T
        <3>1. N - 1 \in Nat /\ N - 1 \in 0 .. N - 1
            BY <1>2, <2>1
        <3> DEFINE M == N - 1
        <3>2. \A k \in 0 .. M - 1 : k \in T => k + 1 \in T
            BY <2>5
        <3> HIDE DEF M
        <3>3. \A k \in 0 .. M : k \in T
            <4>1. M \in Nat
                BY <3>1 DEF M
            <4> QED BY <2>4, <3>2, <4>1, Upward
        <3> QED BY <3>1, <3>3 DEF M
    <2>7. f[N] = R + g[N - 1]
        <3>1. (N - 1) + 1 = N
            BY <1>2
        <3> QED BY <2>6, <3>1
    <2> QED BY <1>1, <2>1, <2>2, <2>7 DEF t
<1> QED BY <1>1, <1>2, <1>3

\* In a live log a record says one thing.
LEMMA SameItself ==
    ASSUME NEW m, Live(m), NEW k
    PROVE  SameRecord(m, m, k)
BY SameNodes

\* The tail of n is k cells further on than that of m.
WentOn(m, n, k) ==
    LET end == m.avail + k IN
    /\ end <= SECTION => n.tail = m.tail /\ n.avail = end
    /\ end > SECTION => n.tail = Following(m.tail) /\ n.avail = HEAD + end - SECTION

\* n is m with every node of the oldest section copied to the tail but the last r.
CopiedBut(m, n, r) ==
    /\ Live(n) /\ n.ok = m.ok /\ n.gc = m.gc /\ n.tail # m.gc /\ Room(n)
    /\ Len(n.list[m.gc]) = r
    /\ WentOn(m, n, ListLen(m.list[m.gc]) - ListLen(n.list[m.gc]))
    /\ \A k \in Keys : SameRecord(m, n, k)

\* One node more.
LEMMA CopyOne ==
    ASSUME NEW m, Live(m), Room(m), NEW n, NEW r \in Nat \ {0}, CopiedBut(m, n, r)
    PROVE  CopiedBut(m, CopyNode(n, Head(n.list[m.gc])), r - 1)
<1> DEFINE s == m.gc
           l == n.list[s]
           node == Head(l)
           N == RecordLen(node.length)
           c == CopyNode(n, node)
<1>1. /\ Live(n) /\ n.ok = m.ok /\ n.gc = s /\ n.tail # s /\ Room(n) /\ Len(l) = r
      /\ \A k \in Keys : SameRecord(m, n, k)
      /\ WentOn(m, n, ListLen(m.list[s]) - ListLen(l))
    BY DEF CopiedBut
<1>2. /\ n.tail \in Sections /\ n.avail \in 0 .. SECTION /\ SECTION \in Nat \ {0} /\ HEAD = 1
      /\ l \in Seq(Node) /\ s \in Sections
    BY <1>1, LiveLog
<1> HIDE DEF l
<1>3. l # <<>> /\ node \in Node /\ Tail(l) \in Seq(Node) /\ Len(Tail(l)) = r - 1
    BY <1>1, <1>2
<1>4. N \in Nat
    BY <1>3, NodeTypes
<1>5. ListLen(l) = N + ListLen(Tail(l)) /\ ListLen(Tail(l)) \in Nat
    BY <1>2, <1>3, ListLenIs
<1> HIDE DEF N, node
<1> DEFINE R == ListLen(Tail(l))
           F == Following(n.tail)
<1>6. /\ R \in Nat
      /\ \/ n.avail + (N + R) <= SECTION
         \/ F # s /\ HEAD + (n.avail + (N + R)) <= 2 * SECTION
    BY <1>1, <1>5 DEF Room, l
<1> HIDE DEF R
<1>7. n.avail + N <= SECTION \/ F # s
    BY <1>2, <1>4, <1>6
<1>8. /\ Live(c) /\ c.ok = n.ok /\ c.gc = s
      /\ n.avail + N <= SECTION => c.tail = n.tail /\ c.avail = n.avail + N
      /\ n.avail + N > SECTION => c.tail = F /\ c.avail = HEAD + (n.avail + N) - SECTION
      /\ c.list[s] = Tail(l)
      /\ \A k \in Keys : SameRecord(n, c, k)
    <2>1. /\ n.gc # n.tail /\ n.list[n.gc] # <<>>
          /\ n.avail + RecordLen(Head(n.list[n.gc]).length) <= SECTION \/ Following(n.tail) # n.gc
        BY <1>1, <1>3, <1>7 DEF l, N, node
    <2> USE DEF l, N, node
    <2> HIDE DEF F
    <2> QED BY <1>1, <2>1, CopyNodeIs DEF F
<1>9. c.tail # s
    <2> HIDE DEF c
    <2> QED BY <1>1, <1>2, <1>4, <1>7, <1>8
<1>10. Room(c)
    <2>1. ListLen(c.list[c.gc]) = R
        BY <1>8 DEF R
    <2> HIDE DEF c
    <2>2. CASE n.avail + N <= SECTION
        <3>1. c.tail = n.tail /\ c.avail + R = n.avail + (N + R)
            BY <1>2, <1>4, <1>6, <1>8, <2>2
        <3> QED BY <1>6, <1>8, <2>1, <3>1 DEF Room
    <2>3. CASE ~(n.avail + N <= SECTION)
        <3>1. c.avail = HEAD + (n.avail + N) - SECTION
            BY <1>2, <1>4, <1>8, <2>3
        <3>2. HEAD + (n.avail + (N + R)) <= 2 * SECTION
            BY <1>2, <1>4, <1>6, <2>3
        <3>3. c.avail + R <= SECTION
            BY <1>2, <1>4, <1>6, <3>1, <3>2
        <3> QED BY <2>1, <3>3 DEF Room
    <2> QED BY <2>2, <2>3
<1>11. \A k \in Keys : SameRecord(m, c, k)
    <2> HIDE DEF c
    <2> QED BY <1>1, <1>8, SameTwice
<1> HIDE DEF c
<1>12. WentOn(m, c, ListLen(m.list[s]) - ListLen(c.list[s]))
    <2> DEFINE T == ListLen(m.list[s])
               end == m.avail + (T - (N + R))
    <2>1. T \in Nat /\ m.avail \in 0 .. SECTION
        <3>1. m.list[s] \in Seq(Node) /\ m.avail \in 0 .. SECTION
            BY LiveLog
        <3> QED BY <3>1, ListLenIs
    <2>2. HEAD + (m.avail + T) <= 2 * SECTION
        <3>1. m.avail + T <= SECTION \/ HEAD + (m.avail + T) <= 2 * SECTION
            BY DEF Room
        <3> HIDE DEF T
        <3> QED BY <1>2, <2>1, <3>1
    <2>3. ListLen(l) = N + R /\ ListLen(c.list[s]) = R
        BY <1>5, <1>8 DEF R
    <2>4. /\ end <= SECTION => n.tail = m.tail /\ n.avail = end
          /\ end > SECTION => n.tail = Following(m.tail) /\ n.avail = HEAD + end - SECTION
        BY <1>1, <2>3 DEF WentOn
    <2> HIDE DEF T, F
    <2>5. end \in Int /\ m.avail + (T - R) = end + N
        BY <1>4, <1>6, <2>1
    <2>6. end + N <= m.avail + T
        BY <1>4, <1>6, <2>1
    <2> HIDE DEF end
    <2>7. CASE end <= SECTION
        <3>1. n.tail = m.tail /\ n.avail = end /\ F = Following(m.tail)
            BY <2>4, <2>7 DEF F
        <3>2. WentOn(m, c, T - R)
            BY <1>2, <1>4, <1>8, <2>5, <3>1 DEF WentOn
        <3> QED BY <2>3, <3>2 DEF T
    <2>8. CASE ~(end <= SECTION)
        <3>1. n.tail = Following(m.tail) /\ n.avail = HEAD + end - SECTION
            BY <1>2, <2>4, <2>5, <2>8
        <3>2. n.avail + N <= SECTION /\ ~(end + N <= SECTION)
              /\ n.avail + N = HEAD + (end + N) - SECTION
            BY <1>2, <1>4, <2>1, <2>2, <2>5, <2>6, <2>8, <3>1
        <3>3. c.tail = Following(m.tail) /\ c.avail = HEAD + (end + N) - SECTION
            BY <1>8, <3>1, <3>2
        <3>4. WentOn(m, c, T - R)
            BY <2>5, <3>2, <3>3 DEF WentOn
        <3> QED BY <2>3, <3>4 DEF T
    <2> QED BY <2>7, <2>8
<1>13. CopiedBut(m, c, r - 1)
    BY <1>1, <1>3, <1>8, <1>9, <1>10, <1>11, <1>12 DEF CopiedBut
<1> QED BY <1>13 DEF c, node, l

\* The log after each of the nodes that section_copy copies.
LEMMA NodeByNode ==
    ASSUME NEW m, Len(m.list[m.gc]) \in Nat
    PROVE  \E w : /\ w[0] = m
                  /\ \A k \in 1 .. Len(m.list[m.gc]) :
                        w[k] = CopyNode(w[k - 1], Head(w[k - 1].list[m.gc]))
                  /\ CopyList(m) = w[Len(m.list[m.gc])]
<1> DEFINE N == Len(m.list[m.gc])
           Is(g, k) == g = [i \in 0 .. k |->
                               IF i = 0 THEN m
                               ELSE LET n == g[i - 1] IN CopyNode(n, Head(n.list[m.gc]))]
           T == {k \in 0 .. N : \E g : Is(g, k)}
<1>1. N \in Nat
    OBVIOUS
<1>2. 0 \in T
    <2> DEFINE g == [i \in 0 .. 0 |-> m]
    <2>1. g = [i \in 0 .. 0 |->
                  IF i = 0 THEN m ELSE LET n == g[i - 1] IN CopyNode(n, Head(n.list[m.gc]))]
        <3>1. \A i \in 0 .. 0 : i = 0
            OBVIOUS
        <3> QED BY <3>1, Zenon
    <2>2. 0 \in 0 .. N
        BY <1>1
    <2> HIDE DEF g, N
    <2> QED BY <2>1, <2>2
<1>3. ASSUME NEW k \in 0 .. N - 1, k \in T
      PROVE  k + 1 \in T
    <2>1. PICK g : Is(g, k)
        BY <1>3
    <2> DEFINE h == [i \in 0 .. k + 1 |-> IF i = k + 1
                                          THEN CopyNode(g[k], Head(g[k].list[m.gc]))
                                          ELSE g[i]]
               hh == [i \in 0 .. k + 1 |->
                         IF i = 0 THEN m
                         ELSE LET n == h[i - 1] IN CopyNode(n, Head(n.list[m.gc]))]
    <2> HIDE DEF N
    <2>2. k \in Nat /\ k + 1 \in 0 .. N
        BY <1>1
    <2>3. ASSUME NEW i \in 0 .. k + 1 PROVE h[i] = hh[i]
        <3>1. CASE i = k + 1
            <4>1. h[i - 1] = g[k] /\ i # 0
                BY <2>2, <3>1
            <4> QED BY <3>1, <4>1
        <3>2. CASE i # k + 1
            <4>1. i \in 0 .. k /\ h[i] = g[i]
                BY <2>2, <3>2
            <4>2. g[i] = IF i = 0 THEN m
                         ELSE LET n == g[i - 1] IN CopyNode(n, Head(n.list[m.gc]))
                BY <2>1, <4>1, Zenon
            <4>3. i # 0 => h[i - 1] = g[i - 1]
                BY <2>2, <4>1
            <4> QED BY <4>1, <4>2, <4>3
        <3> QED BY <3>1, <3>2
    <2>4. h = hh
        BY <2>3, Zenon
    <2>5. Is(h, k + 1)
        BY <2>4, Zenon
    <2> HIDE DEF h, hh, Is
    <2> QED BY <2>2, <2>5
<1> HIDE DEF T
<1>4. N \in T
    <2> HIDE DEF N
    <2>1. \A k \in 0 .. N - 1 : k \in T => k + 1 \in T
        BY <1>3
    <2>2. \A k \in 0 .. N : k \in T
        BY <1>1, <1>2, <2>1, Upward
    <2> QED BY <1>1, <2>2
<1>5. PICK g : Is(g, N)
    BY <1>4 DEF T
<1> DEFINE w == CHOOSE x : Is(x, N)
<1>6. Is(w, N)
    BY <1>5, Zenon
<1>7. CopyList(m) = w[N]
    BY Zenon DEF CopyList
<1> HIDE DEF w, N
<1>8. w[0] = m
    BY <1>1, <1>6
<1>9. ASSUME NEW k \in 1 .. N PROVE w[k] = CopyNode(w[k - 1], Head(w[k - 1].list[m.gc]))
    <2>1. k \in 0 .. N /\ k # 0
        BY <1>1
    <2> QED BY <1>6, <2>1, Zenon
<1> QED BY <1>7, <1>8, <1>9 DEF N

\* section_copy copies every node of the oldest section.
LEMMA CopyListIs ==
    ASSUME NEW m, Live(m), m.gc # m.tail, Room(m)
    PROVE  CopiedBut(m, CopyList(m), 0)
<1> DEFINE N == Len(m.list[m.gc])
<1>1. m.gc \in Sections /\ m.list[m.gc] \in Seq(Node) /\ N \in Nat
    BY LiveLog
<1>2. PICK w : /\ w[0] = m
               /\ \A k \in 1 .. N : w[k] = CopyNode(w[k - 1], Head(w[k - 1].list[m.gc]))
               /\ CopyList(m) = w[N]
    BY <1>1, NodeByNode
<1> DEFINE T == {k \in 0 .. N : CopiedBut(m, w[k], N - k)}
<1>3. 0 \in T
    <2>1. CopiedBut(m, m, N)
        <3>1. ListLen(m.list[m.gc]) \in Nat /\ m.avail \in 0 .. SECTION /\ SECTION \in Nat
            BY <1>1, LiveLog, ListLenIs
        <3>2. WentOn(m, m, ListLen(m.list[m.gc]) - ListLen(m.list[m.gc]))
            BY <3>1 DEF WentOn
        <3> QED BY <3>2, SameItself DEF CopiedBut
    <2> HIDE DEF N
    <2>2. 0 \in 0 .. N /\ N - 0 = N
        BY <1>1
    <2> QED BY <1>2, <2>1, <2>2
<1> HIDE DEF N
<1>4. ASSUME NEW k \in 0 .. N - 1, k \in T PROVE k + 1 \in T
    <2>1. /\ k + 1 \in 1 .. N /\ k + 1 \in 0 .. N /\ (k + 1) - 1 = k
          /\ N - k \in Nat \ {0} /\ (N - k) - 1 = N - (k + 1)
        BY <1>1
    <2>2. CopiedBut(m, w[k], N - k)
        BY <1>4
    <2>3. CopiedBut(m, CopyNode(w[k], Head(w[k].list[m.gc])), (N - k) - 1)
        BY <1>1, <2>1, <2>2, CopyOne
    <2>4. w[k + 1] = CopyNode(w[k], Head(w[k].list[m.gc]))
        BY <1>2, <2>1
    <2>5. CopiedBut(m, w[k + 1], N - (k + 1))
        BY <2>1, <2>3, <2>4
    <2> QED BY <2>1, <2>5
<1>5. N \in T
    <2> HIDE DEF T
    <2>1. \A k \in 0 .. N : k \in T
        BY <1>1, <1>3, <1>4, Upward
    <2> QED BY <1>1, <2>1
<1>6. N - N = 0
    BY <1>1
<1> QED BY <1>2, <1>5, <1>6

\* A write-through takes nothing from a live log but the rest of a page.
LEMMA WriteOutIs ==
    ASSUME NEW m, Live(m), m.avail % PAGE # 0
    PROVE  LET n == WriteOut(m) IN
           /\ Live(n) /\ n.ok = m.ok /\ n.gc = m.gc /\ n.tail = m.tail /\ n.list = m.list
           /\ \A k \in Keys : SameRecord(m, n, k)
<1> DEFINE n == WriteOut(m)
<1>1. /\ GoodLog(m, StoreCell, Seq(Node)) /\ m.gc \in Sections
      /\ m.avail \in 0 .. SECTION /\ SECTION \in Nat /\ HEAD = 1
    BY LiveLog
<1>2. /\ GoodLog(n, StoreCell, Seq(Node))
      /\ n.flash = Seen(m) /\ Seen(n) = Seen(m) /\ n.buf = <<>> /\ n.tail = m.tail
      /\ n.list = m.list /\ n.gc = m.gc /\ n.ok = m.ok /\ m.avail <= n.avail
      /\ \A f \in n.images \ m.images : Left(f, {}, m.flash, Seen(n))
    BY <1>1, HeadsAreCells, WriteOutKeepsLog
<1> HIDE DEF n
<1>3. n.avail \in 0 .. SECTION
    BY <1>2 DEF GoodLog, Logs
<1>4. ASSUME NEW s \in Sections, NEW i \in DOMAIN m.list[s] PROVE InLog(n, s, m.list[s][i])
    <2> DEFINE node == m.list[s][i]
               end == node.at[2] + RecordLen(node.length)
    <2>1. node \in Node /\ InLog(m, s, node)
        BY LiveNode
    <2>2. /\ node.at[1] = s /\ HEAD + RecordLen(node.length) <= SECTION
          /\ s = m.tail => end <= m.avail
          /\ s # m.tail /\ Following(s) = m.tail /\ end > SECTION => HEAD + end - SECTION <= m.avail
        BY <2>1 DEF InLog
    <2>3. end \in Nat
        <3>1. node.at[2] \in 0 .. SECTION - 1 /\ RecordLen(node.length) \in Nat
            BY <2>1, NodeTypes
        <3> HIDE DEF node
        <3> QED BY <1>1, <3>1
    <2> HIDE DEF end, node
    <2>4. /\ s = n.tail => end <= n.avail
          /\ s # n.tail /\ Following(s) = n.tail /\ end > SECTION => HEAD + end - SECTION <= n.avail
        BY <1>1, <1>2, <1>3, <2>2, <2>3
    <2> QED BY <2>2, <2>4 DEF InLog, end, node
<1>5. KeysOnce(n)
    BY <1>2 DEF Live, KeysOnce
<1>6. Live(n)
    BY <1>1, <1>2, <1>4, <1>5 DEF Live
<1>7. ASSUME NEW k \in Keys PROVE SameRecord(m, n, k)
    <2>1. Nodes(n, k) = Nodes(m, k)
        BY <1>2 DEF Nodes, Lists
    <2>2. \A x : DataOf(n, x) = DataOf(m, x)
        BY <1>2 DEF DataOf
    <2> QED BY <2>1, <2>2, SameNodes
<1> QED BY <1>2, <1>6, <1>7 DEF n

\* A collection leaves every record as it was, and the section that it is done with
\* has no live node: the tail has a section to go on to (tinyfs.c:989-1018).
THEOREM CollectionKeepsRecords ==
    ASSUME NEW m, Live(m), m.gc # m.tail, Room(m)
    PROVE  /\ Live(Collect(m)) /\ Collect(m).ok = m.ok
           /\ Following(Collect(m).tail) # Collect(m).gc
           /\ \A k \in Keys : SameRecord(m, Collect(m), k)
<1> DEFINE n == CopyList(m)
           w == IF n.avail % PAGE # 0 THEN WriteOut(n) ELSE n
           c == Collect(m)
           s == m.gc
<1>1. /\ Live(n) /\ n.ok = m.ok /\ n.gc = s /\ n.tail # s /\ Len(n.list[s]) = 0
      /\ \A k \in Keys : SameRecord(m, n, k)
    BY CopyListIs DEF CopiedBut
<1>2. c = [w EXCEPT !.gc = Following(@)]
    BY DEF Collect
<1> HIDE DEF c, n
<1>3. /\ Live(w) /\ w.ok = m.ok /\ w.gc = s /\ w.tail = n.tail /\ w.list = n.list
      /\ \A k \in Keys : SameRecord(m, w, k)
    <2>1. CASE n.avail % PAGE # 0
        <3>1. w = WriteOut(n)
            BY <2>1
        <3> HIDE DEF w
        <3>2. /\ Live(w) /\ w.ok = n.ok /\ w.gc = n.gc /\ w.tail = n.tail /\ w.list = n.list
              /\ \A k \in Keys : SameRecord(n, w, k)
            BY <1>1, <2>1, <3>1, WriteOutIs
        <3> QED BY <1>1, <3>2, SameTwice
    <2>2. CASE ~(n.avail % PAGE # 0)
        <3>1. w = n
            BY <2>2
        <3> HIDE DEF w
        <3> QED BY <1>1, <3>1
    <2> QED BY <2>1, <2>2
<1> HIDE DEF w
<1>4. /\ GoodLog(w, StoreCell, Seq(Node)) /\ s \in Sections /\ w.tail \in Sections
      /\ w.list \in [Sections -> Seq(Node)]
    BY <1>3, LiveLog
<1>5. Following(s) \in Sections /\ Following(w.tail) # Following(s)
    BY <1>1, <1>3, <1>4, Arcs
<1>6. /\ c \in Logs(StoreCell, Seq(Node)) /\ c.gc = Following(s)
      /\ c.tail = w.tail /\ c.avail = w.avail /\ c.buf = w.buf /\ c.list = w.list
      /\ c.ok = w.ok /\ c.flash = w.flash
    BY <1>2, <1>3, <1>4, <1>5 DEF GoodLog, Logs
<1>7. From(c) = From(w) /\ Seen(c) = Seen(w)
    BY <1>6 DEF From, Seen
<1>8. GoodLog(c, StoreCell, Seq(Node))
    BY <1>4, <1>6, <1>7 DEF GoodLog
<1>9. ASSUME NEW t \in Sections, c.list[t] # <<>> PROVE InArc(c.gc, t, c.tail)
    <2>1. InArc(s, t, w.tail)
        BY <1>3, <1>6, <1>9 DEF Live
    <2>2. t # s
        <3>1. w.list[s] = <<>>
            BY <1>1, <1>3, <1>4
        <3> QED BY <1>6, <1>9, <3>1
    <2> QED BY <1>1, <1>3, <1>4, <1>6, <2>1, <2>2, Arcs
<1>10. ASSUME NEW t \in Sections, NEW i \in DOMAIN c.list[t] PROVE InLog(c, t, c.list[t][i])
    <2>1. i \in DOMAIN w.list[t] /\ c.list[t][i] = w.list[t][i]
        BY <1>6
    <2>2. InLog(w, t, w.list[t][i])
        BY <1>3, <2>1, LiveNode
    <2> QED BY <1>6, <2>1, <2>2 DEF InLog
<1>11. KeysOnce(c)
    BY <1>3, <1>6 DEF Live, KeysOnce
<1>12. Live(c)
    BY <1>5, <1>6, <1>8, <1>9, <1>10, <1>11 DEF Live
<1>13. ASSUME NEW k \in Keys PROVE SameRecord(m, c, k)
    <2>1. Nodes(c, k) = Nodes(w, k)
        BY <1>6 DEF Nodes, Lists
    <2>2. \A x : DataOf(c, x) = DataOf(w, x)
        BY <1>7 DEF DataOf
    <2>3. SameRecord(w, c, k)
        BY <1>3, <2>1, <2>2, SameNodes
    <2> QED BY <1>3, <2>3, SameTwice
<1>14. Following(c.tail) # c.gc /\ c.ok = m.ok
    BY <1>3, <1>5, <1>6
<1> QED BY <1>12, <1>13, <1>14 DEF c

\* An operation collects when it must, and can then append.
LEMMA CollectedIs ==
    ASSUME NEW m, Live(m), NEW n, RoomFor(m, n)
    PROVE  /\ Live(Collected(m, n)) /\ Collected(m, n).ok = m.ok
           /\ Following(Collected(m, n).tail) # Collected(m, n).gc
           /\ \A k \in Keys : SameRecord(m, Collected(m, n), k)
<1>1. m.gc \in Sections /\ m.tail \in Sections /\ m.gc # INVALID
    BY LiveLog
<1>2. CASE MustCollect(m, n)
    <2>1. Following(m.tail) = m.gc \/ Following(m.tail) = Preceding(m.gc)
        BY <1>2 DEF MustCollect
    <2>2. m.gc # m.tail
        BY <1>1, <2>1, Arcs
    <2>3. Room(m)
        BY <1>2 DEF RoomFor
    <2>4. Collected(m, n) = Collect(m)
        BY <1>2 DEF Collected
    <2> QED BY <2>2, <2>3, <2>4, CollectionKeepsRecords
<1>3. CASE ~MustCollect(m, n)
    <2>1. Collected(m, n) = m
        BY <1>3 DEF Collected
    <2>2. Following(m.tail) # m.gc
        BY <1>1, <1>3 DEF MustCollect
    <2> QED BY <2>1, <2>2, SameItself
<1> QED BY <1>2, <1>3

--------------------------------------------------------------------------------
(* The operations.                                                         *)

\* A piece of a node.
LEMMA CellsAre ==
    ASSUME NEW what \in Kinds, NEW k \in Keys, NEW v \in Nat, NEW n \in Nat
    PROVE  /\ Cells(what, k, v, n) \in Seq(StoreCell) /\ Len(Cells(what, k, v, n)) = n
           /\ \A i \in 1 .. n : Cells(what, k, v, n)[i] = <<what, k, v, i>>
<1>1. ASSUME NEW i \in 1 .. n PROVE <<what, k, v, i>> \in StoreCell
    BY DEF StoreCell
<1>2. Cells(what, k, v, n) = [i \in 1 .. n |-> <<what, k, v, i>>]
    BY DEF Cells
<1> QED BY <1>1, <1>2

\* Lengths of the records that fit into a section.
LEMMA LengthsAre ==
    ASSUME NEW v \in Values
    PROVE  /\ v \in Nat /\ DataLen(v) \in Nat
           /\ META \in Nat \ {0} /\ CRC \in Nat \ {0}
           /\ RecordLen(DataLen(v)) = META + DataLen(v) + CRC + CRC
           /\ HEAD + RecordLen(DataLen(v)) <= SECTION
<1>1. v \in Nat /\ META \in Nat \ {0} /\ CRC \in Nat \ {0} /\ HEAD + RecordLen(DataLen(v)) <= SECTION
    BY StoreAssumption
<1>2. DataLen(v) \in Nat
    BY <1>1 DEF DataLen
<1> QED BY <1>1, <1>2 DEF RecordLen

\* The data of a record, with their checksum.
DataCells(k, v) == Cells("data", k, v, DataLen(v)) \o Cells("dataCrc", k, v, CRC)

\* The data of a record end in a checksum over all of them.
LEMMA DataCellsAre ==
    ASSUME NEW k \in Keys, NEW v \in Values
    PROVE  /\ DataCells(k, v) \in Seq(StoreCell) /\ Len(DataCells(k, v)) = DataLen(v) + CRC
           /\ DataCells(k, v)[DataLen(v) + 1] = <<"dataCrc", k, v, 1>>
<1> DEFINE d == Cells("data", k, v, DataLen(v))
           c == Cells("dataCrc", k, v, CRC)
<1>1. "data" \in Kinds /\ "dataCrc" \in Kinds /\ v \in Nat /\ DataLen(v) \in Nat /\ CRC \in Nat \ {0}
    BY LengthsAre DEF Kinds
<1>2. /\ d \in Seq(StoreCell) /\ Len(d) = DataLen(v)
      /\ c \in Seq(StoreCell) /\ Len(c) = CRC
    BY <1>1, CellsAre
<1>6. c[1] = <<"dataCrc", k, v, 1>>
    <2>1. 1 \in 1 .. CRC
        BY <1>1
    <2>2. \A i \in 1 .. CRC : c[i] = <<"dataCrc", k, v, i>>
        BY <1>1, CellsAre
    <2> QED BY <2>1, <2>2
<1>3. DataCells(k, v) = d \o c
    BY DEF DataCells
<1> HIDE DEF d, c
<1>4. d \o c \in Seq(StoreCell) /\ Len(d \o c) = DataLen(v) + CRC
    BY <1>2, ConcatProperties
<1>5. (d \o c)[DataLen(v) + 1] = c[1]
    <2>1. DataLen(v) + 1 \in 1 .. Len(d) + Len(c) /\ ~(DataLen(v) + 1 <= Len(d))
          /\ (DataLen(v) + 1) - Len(d) = 1
        BY <1>1, <1>2
    <2> QED BY <1>2, <2>1, ConcatProperties
<1> QED BY <1>3, <1>4, <1>5, <1>6

\* Behind the metadata of a record are its data.
LEMMA RecordCellsAre ==
    ASSUME NEW k \in Keys, NEW v \in Values
    PROVE  /\ RecordCells(k, v) \in Seq(StoreCell)
           /\ Len(RecordCells(k, v)) = RecordLen(DataLen(v))
           /\ \A j \in 1 .. DataLen(v) + CRC : RecordCells(k, v)[META + j] = DataCells(k, v)[j]
<1> DEFINE L == DataLen(v)
           a == Cells("add", k, L, META)
           d == Cells("data", k, v, L)
           c == Cells("dataCrc", k, v, CRC)
           x == Cells("addCrc", k, L, CRC)
<1>1. /\ v \in Nat /\ L \in Nat /\ META \in Nat /\ CRC \in Nat
      /\ RecordLen(L) = META + L + CRC + CRC
      /\ "add" \in Kinds /\ "data" \in Kinds /\ "dataCrc" \in Kinds /\ "addCrc" \in Kinds
    BY LengthsAre DEF Kinds
<1> HIDE DEF L
<1>2. /\ a \in Seq(StoreCell) /\ Len(a) = META
      /\ d \in Seq(StoreCell) /\ Len(d) = L
      /\ c \in Seq(StoreCell) /\ Len(c) = CRC
      /\ x \in Seq(StoreCell) /\ Len(x) = CRC
    <2>1. a \in Seq(StoreCell) /\ Len(a) = META
        BY <1>1, CellsAre, Zenon
    <2>2. d \in Seq(StoreCell) /\ Len(d) = L
        BY <1>1, CellsAre, Zenon
    <2>3. c \in Seq(StoreCell) /\ Len(c) = CRC
        BY <1>1, CellsAre, Zenon
    <2>4. x \in Seq(StoreCell) /\ Len(x) = CRC
        BY <1>1, CellsAre, Zenon
    <2> QED BY <2>1, <2>2, <2>3, <2>4
<1>3. RecordCells(k, v) = ((a \o d) \o c) \o x /\ DataCells(k, v) = d \o c
    BY DEF RecordCells, DataCells, L
<1> HIDE DEF a, d, c, x
<1>4. /\ a \o d \in Seq(StoreCell) /\ Len(a \o d) = META + L
      /\ \A i \in 1 .. META + L : (a \o d)[i] = IF i <= META THEN a[i] ELSE d[i - META]
    BY <1>2, ConcatProperties
<1> DEFINE ad == a \o d
<1> HIDE DEF ad
<1>5. /\ ad \o c \in Seq(StoreCell) /\ Len(ad \o c) = META + L + CRC
      /\ \A i \in 1 .. META + L + CRC :
            (ad \o c)[i] = IF i <= META + L THEN ad[i] ELSE c[i - (META + L)]
    <2>1. ad \in Seq(StoreCell) /\ Len(ad) = META + L
        BY <1>4 DEF ad
    <2> QED BY <1>2, <2>1, ConcatProperties
<1> DEFINE adc == ad \o c
<1> HIDE DEF adc
<1>6. /\ adc \o x \in Seq(StoreCell) /\ Len(adc \o x) = META + L + CRC + CRC
      /\ \A i \in 1 .. META + L + CRC + CRC :
            (adc \o x)[i] = IF i <= META + L + CRC THEN adc[i] ELSE x[i - (META + L + CRC)]
    <2>1. adc \in Seq(StoreCell) /\ Len(adc) = META + L + CRC
        BY <1>5 DEF adc
    <2> QED BY <1>2, <2>1, ConcatProperties
<1>7. \A j \in 1 .. L + CRC : (d \o c)[j] = IF j <= L THEN d[j] ELSE c[j - L]
    <2>1. \A j \in 1 .. Len(d) + Len(c) : (d \o c)[j] = IF j <= Len(d) THEN d[j] ELSE c[j - Len(d)]
        BY <1>2, ConcatProperties
    <2> QED BY <1>2, <2>1, Zenon
<1>8. ASSUME NEW j \in 1 .. L + CRC
      PROVE  (adc \o x)[META + j] = (d \o c)[j]
    <2>1. /\ META + j \in 1 .. META + L + CRC + CRC /\ META + j <= META + L + CRC
          /\ META + j \in 1 .. META + L + CRC
        BY <1>1
    <2>2. (adc \o x)[META + j] = (ad \o c)[META + j]
        BY <1>6, <2>1 DEF adc
    <2>3. CASE j <= L
        <3>1. META + j <= META + L /\ META + j \in 1 .. META + L /\ ~(META + j <= META)
              /\ (META + j) - META = j
            BY <1>1, <2>3
        <3>2. (ad \o c)[META + j] = ad[META + j]
            BY <1>5, <2>1, <3>1
        <3>3. ad[META + j] = d[j]
            BY <1>4, <3>1 DEF ad
        <3> QED BY <1>7, <2>2, <2>3, <3>2, <3>3
    <2>4. CASE ~(j <= L)
        <3>1. ~(META + j <= META + L) /\ (META + j) - (META + L) = j - L
            BY <1>1, <2>4
        <3>2. (ad \o c)[META + j] = c[j - L]
            BY <1>5, <2>1, <3>1
        <3> QED BY <1>7, <2>2, <2>4, <3>2
    <2> QED BY <2>3, <2>4
<1>9. RecordCells(k, v) = adc \o x
    BY <1>3 DEF ad, adc
<1> QED BY <1>1, <1>3, <1>6, <1>8, <1>9 DEF L

\* An append that follows a collection, or needs none.
LEMMA AppendRecordIs ==
    ASSUME NEW m, Live(m), NEW k \in Keys, NEW v \in Values, Nodes(m, k) = {},
           Following(m.tail) # m.gc
    PROVE  Appended(m, AppendRecord(m, k, v), k, DataLen(v), RecordCells(k, v))
<1> DEFINE cells == RecordCells(k, v)
           L == DataLen(v)
           w == AppendNode(m, cells)
<1>1. /\ cells \in Seq(StoreCell) /\ Len(cells) = RecordLen(L) /\ L \in Nat
      /\ HEAD + RecordLen(L) <= SECTION
    BY RecordCellsAre, LengthsAre
<1>2. GoodLog(m, StoreCell, Seq(Node))
    BY LiveLog
<1> HIDE DEF cells, L
<1>3. Wrote(m, w, cells, Len(cells), StoreCell, Seq(Node))
    BY <1>1, <1>2, HeadsAreCells, AppendsAll
<1> HIDE DEF w
<1>4. Appended(m, Listed(w, k, L, NextAddr(m)), k, L, cells)
    BY <1>1, <1>3, AppendedIs
<1> QED BY <1>4 DEF AppendRecord, w, L, cells

\* What is appended for a record is what is read of it.
LEMMA ReadsWhatWasAppended ==
    ASSUME NEW m, NEW n, NEW k \in Keys, NEW v \in Values,
           Appended(m, n, k, DataLen(v), RecordCells(k, v))
    PROVE  ReadBack(n, k) = v
<1> DEFINE L == DataLen(v)
           cells == RecordCells(k, v)
           vs(x) == {u \in Values : /\ DataLen(u) = x.length
                                    /\ DataOf(n, x) = Cells("data", k, u, x.length)
                                                         \o Cells("dataCrc", k, u, CRC)}
<1>1. PICK x \in Node : /\ Nodes(n, k) = {x} /\ x.length = L
                        /\ \A i \in 1 .. RecordLen(L) : CellAt(Seen(n), x, i) = cells[i]
    BY DEF Appended
<1>2. /\ META \in Nat /\ CRC \in Nat \ {0} /\ L \in Nat /\ HEAD + RecordLen(L) <= SECTION
      /\ RecordLen(L) = META + L + CRC + CRC
    BY LengthsAre
<1>3. DataOf(n, x) = [j \in 1 .. L + CRC |-> CellAt(Seen(n), x, META + j)]
    BY <1>1, <1>2, DataIs
<1>4. /\ DataCells(k, v) \in Seq(StoreCell) /\ Len(DataCells(k, v)) = L + CRC
      /\ \A j \in 1 .. L + CRC : cells[META + j] = DataCells(k, v)[j]
    BY DataCellsAre, RecordCellsAre
<1> HIDE DEF L, cells
<1>5. ASSUME NEW j \in 1 .. L + CRC PROVE CellAt(Seen(n), x, META + j) = DataCells(k, v)[j]
    <2>1. META + j \in 1 .. RecordLen(L)
        BY <1>2
    <2> QED BY <1>1, <1>4, <2>1
<1>6. DataOf(n, x) = DataCells(k, v)
    <2> DEFINE d == DataCells(k, v)
    <2> HIDE DEF d
    <2>1. d \in Seq(StoreCell) /\ Len(d) = L + CRC /\ \A j \in 1 .. L + CRC : CellAt(Seen(n), x, META + j) = d[j]
        BY <1>4, <1>5 DEF d
    <2>2. d = [j \in 1 .. L + CRC |-> d[j]]
        BY <1>2, <2>1
    <2> QED BY <1>3, <2>1, <2>2 DEF d
<1>7. ASSUME NEW u \in Values
      PROVE  u \in vs(x) <=> DataLen(u) = L /\ DataCells(k, v) = DataCells(k, u)
    BY <1>1, <1>6 DEF DataCells, L
<1>8. ASSUME NEW u \in Values, u \in vs(x) PROVE u = v
    <2>1. DataLen(u) = L /\ DataCells(k, v) = DataCells(k, u)
        BY <1>7, <1>8
    <2>2. DataCells(k, v)[L + 1] = <<"dataCrc", k, v, 1>>
        BY DataCellsAre DEF L
    <2>3. DataCells(k, u)[L + 1] = <<"dataCrc", k, u, 1>>
        BY <2>1, DataCellsAre
    <2>4. <<"dataCrc", k, v, 1>> = <<"dataCrc", k, u, 1>>
        BY <2>1, <2>2, <2>3
    <2> QED BY <2>4
<1>9. v \in vs(x)
    BY <1>7 DEF L
<1>10. vs(x) = {v}
    BY <1>8, <1>9
<1> DEFINE node == CHOOSE y \in Nodes(n, k) : TRUE
<1>11. node = x /\ Nodes(n, k) # {}
    BY <1>1
<1>12. ReadBack(n, k) = IF vs(node) = {} THEN Corrupted ELSE CHOOSE u \in vs(node) : TRUE
    BY <1>11, Zenon DEF ReadBack
<1> HIDE DEF vs, node
<1> QED BY <1>10, <1>11, <1>12

\* A write, with the collection it starts, leaves a live log in which the record is the
\* new one and every other record is what it was (do_tinyfs_write, tinyfs.c:1239-1273).
THEOREM WriteIsChange ==
    ASSUME NEW m, Live(m), NEW k \in Keys, NEW v \in Values,
           RoomFor(Unlisted(m, k), RecordLen(DataLen(v)))
    PROVE  /\ Live(Written(m, k, v)) /\ Written(m, k, v).ok = m.ok
           /\ StoreOf(Written(m, k, v)) = [StoreOf(m) EXCEPT ![k] = v]
<1> DEFINE u == Unlisted(m, k)
           c == Collected(u, RecordLen(DataLen(v)))
           n == Written(m, k, v)
<1>1. /\ Live(u) /\ u.ok = m.ok /\ Nodes(u, k) = {}
      /\ \A k2 \in Keys : k2 # k => SameRecord(m, u, k2)
    BY UnlistedIs
<1> HIDE DEF u
<1>2. /\ Live(c) /\ c.ok = u.ok /\ Following(c.tail) # c.gc
      /\ \A k2 \in Keys : SameRecord(u, c, k2)
    BY <1>1, CollectedIs DEF u
<1>3. n = AppendRecord(c, k, v)
    BY DEF Written, u
<1> HIDE DEF c, n
<1>4. Nodes(c, k) = {}
    BY <1>1, <1>2 DEF SameRecord
<1>5. Appended(c, n, k, DataLen(v), RecordCells(k, v))
    BY <1>2, <1>3, <1>4, AppendRecordIs
<1>6. Live(n) /\ n.ok = m.ok
    BY <1>1, <1>2, <1>5 DEF Appended
<1>7. ReadBack(n, k) = v
    BY <1>5, ReadsWhatWasAppended
<1>8. ASSUME NEW k2 \in Keys, k2 # k PROVE ReadBack(n, k2) = ReadBack(m, k2)
    <2>1. SameRecord(m, u, k2) /\ SameRecord(u, c, k2)
        BY <1>1, <1>2, <1>8
    <2>2. SameRecord(c, n, k2)
        BY <1>5, <1>8 DEF Appended
    <2>3. SameRecord(m, n, k2)
        BY <2>1, <2>2, SameTwice
    <2> QED BY <2>3, ReadsSame
<1>9. StoreOf(n) = [StoreOf(m) EXCEPT ![k] = v]
    BY <1>7, <1>8 DEF StoreOf
<1> QED BY <1>6, <1>9 DEF n

\* The cells of a removal.
LEMMA RemovalCellsAre ==
    ASSUME NEW k \in Keys
    PROVE  RemovalCells(k) \in Seq(StoreCell) /\ Len(RemovalCells(k)) = RemovalLen
<1> DEFINE d == Cells("del", k, 0, META)
           c == Cells("delCrc", k, 0, CRC)
<1>1. META \in Nat /\ CRC \in Nat /\ "del" \in Kinds /\ "delCrc" \in Kinds
    BY StoreAssumption DEF Kinds
<1>2. d \in Seq(StoreCell) /\ Len(d) = META /\ c \in Seq(StoreCell) /\ Len(c) = CRC
    BY <1>1, CellsAre
<1>3. RemovalCells(k) = d \o c
    BY DEF RemovalCells
<1> HIDE DEF d, c
<1> QED BY <1>2, <1>3, ConcatProperties DEF RemovalLen

\* A deletion, with the collection it starts, leaves a live log in which that record is
\* gone and every other one is what it was (node_del, tinyfs.c:1308-1328).
THEOREM DeletionIsChange ==
    ASSUME NEW m, Live(m), NEW k \in Keys, Nodes(m, k) # {}, RoomFor(m, RemovalLen)
    PROVE  /\ Live(Deleted(m, k)) /\ Deleted(m, k).ok = m.ok
           /\ StoreOf(Deleted(m, k)) = [StoreOf(m) EXCEPT ![k] = None]
<1> DEFINE c == Collected(m, RemovalLen)
           cells == RemovalCells(k)
           w == AppendNode(c, cells)
           n == Deleted(m, k)
<1>1. /\ Live(c) /\ c.ok = m.ok /\ Following(c.tail) # c.gc
      /\ \A k2 \in Keys : SameRecord(m, c, k2)
    BY CollectedIs
<1> HIDE DEF c
<1>2. cells \in Seq(StoreCell) /\ Len(cells) = RemovalLen
    BY RemovalCellsAre
<1>3. HEAD + RemovalLen <= SECTION /\ RemovalLen \in Nat
    <2>1. PICK x \in Nodes(m, k) : TRUE
        OBVIOUS
    <2>2. PICK s \in Sections : \E i \in DOMAIN m.list[s] : x = m.list[s][i]
        BY NodesAre
    <2>3. PICK i \in DOMAIN m.list[s] : x = m.list[s][i]
        BY <2>2
    <2>4. x \in Node /\ HEAD + RecordLen(x.length) <= SECTION
        BY <2>3, LiveNode
    <2>5. /\ META \in Nat /\ CRC \in Nat /\ x.length \in Nat
          /\ RecordLen(x.length) = META + (x.length + 2 * CRC)
        BY <2>4, NodeTypes
    <2> QED BY <2>4, <2>5, LogAssumption DEF RemovalLen, HEAD
<1>4. GoodLog(c, StoreCell, Seq(Node)) /\ n = Unlisted(w, k)
    BY <1>1, LiveLog DEF Deleted, c
<1> HIDE DEF cells
<1>5. Wrote(c, w, cells, Len(cells), StoreCell, Seq(Node))
    BY <1>2, <1>3, <1>4, HeadsAreCells, AppendsAll
<1> HIDE DEF w, n
<1>6. Live(w) /\ w.ok = c.ok /\ \A k2 \in Keys : SameRecord(c, w, k2)
    <2>1. /\ Live(c) /\ Len(cells) \in Nat /\ HEAD + Len(cells) <= SECTION
          /\ Following(c.tail) # c.gc
        BY <1>1, <1>2, <1>3
    <2>2. Continues(c, w)
        BY <1>5, <2>1, WroteLive, Zenon
    <2> QED BY <2>2, Zenon DEF Continues
<1>7. /\ Live(n) /\ n.ok = w.ok /\ Nodes(n, k) = {}
      /\ \A k2 \in Keys : k2 # k => SameRecord(w, n, k2)
    BY <1>4, <1>6, UnlistedIs
<1>8. ReadBack(n, k) = None
    BY <1>7 DEF ReadBack
<1>9. ASSUME NEW k2 \in Keys, k2 # k PROVE ReadBack(n, k2) = ReadBack(m, k2)
    <2>1. SameRecord(m, c, k2) /\ SameRecord(c, w, k2) /\ SameRecord(w, n, k2)
        BY <1>1, <1>6, <1>7, <1>9
    <2>2. SameRecord(m, n, k2)
        BY <2>1, SameTwice
    <2> QED BY <2>2, ReadsSame
<1>10. StoreOf(n) = [StoreOf(m) EXCEPT ![k] = None]
    BY <1>8, <1>9 DEF StoreOf
<1> QED BY <1>1, <1>6, <1>7, <1>10 DEF n

\* A write-through, whether it pads the page or collects, leaves a live log and every
\* record as it was (tinyfs_write_through, tinyfs.c:1531-1548).
THEOREM WriteThroughChangesNothing ==
    ASSUME NEW m, Live(m), m.avail % PAGE # 0 => RoomFor(m, PAGE - (m.avail % PAGE))
    PROVE  /\ Live(WrittenThrough(m)) /\ WrittenThrough(m).ok = m.ok
           /\ StoreOf(WrittenThrough(m)) = StoreOf(m)
<1> DEFINE n == WrittenThrough(m)
           padding == PAGE - (m.avail % PAGE)
<1>1. Live(n) /\ n.ok = m.ok /\ \A k \in Keys : SameRecord(m, n, k)
    <2>1. CASE m.avail % PAGE = 0
        <3>1. n = m
            BY <2>1 DEF WrittenThrough
        <3> HIDE DEF n
        <3> QED BY <3>1, SameItself
    <2>2. CASE m.avail % PAGE # 0 /\ MustCollect(m, padding)
        <3>1. n = Collected(m, padding)
            BY <2>2 DEF WrittenThrough, Collected
        <3>2. RoomFor(m, padding)
            BY <2>2
        <3> HIDE DEF n, padding
        <3> QED BY <3>1, <3>2, CollectedIs
    <2>3. CASE m.avail % PAGE # 0 /\ ~MustCollect(m, padding)
        <3>1. n = WriteOut(m)
            BY <2>3 DEF WrittenThrough
        <3> HIDE DEF n
        <3> QED BY <2>3, <3>1, WriteOutIs
    <2> QED BY <2>1, <2>2, <2>3
<1> HIDE DEF n
<1>2. \A k \in Keys : ReadBack(n, k) = ReadBack(m, k)
    BY <1>1, ReadsSame
<1>3. StoreOf(n) = StoreOf(m)
    BY <1>2 DEF StoreOf
<1> QED BY <1>1, <1>3 DEF n

--------------------------------------------------------------------------------
(* The store as a whole, as long as the power stays on.                    *)

\* What an operation leaves when it ends is what it left, without the images.
LEMMA SettledIs ==
    ASSUME NEW m, Live(m)
    PROVE  Live(Settled(m)) /\ StoreOf(Settled(m)) = StoreOf(m) /\ Settled(m).ok = m.ok
<1> DEFINE n == Settled(m)
<1>1. /\ n \in Logs(StoreCell, Seq(Node)) /\ n.list = m.list /\ n.buf = m.buf
      /\ n.tail = m.tail /\ n.avail = m.avail /\ n.gc = m.gc /\ n.ok = m.ok
      /\ n.flash = m.flash
    BY DEF Settled, Live, GoodLog, Logs
<1> HIDE DEF n
<1>2. From(n) = From(m) /\ Seen(n) = Seen(m)
    BY <1>1 DEF From, Seen
<1>3. GoodLog(n, StoreCell, Seq(Node))
    BY <1>1, <1>2 DEF Live, GoodLog
<1>4. KeysOnce(n)
    BY <1>1 DEF Live, KeysOnce
<1>5. \A s \in Sections : \A i \in DOMAIN n.list[s] : InLog(n, s, n.list[s][i])
    BY <1>1 DEF Live, InLog
<1>6. Live(n)
    BY <1>1, <1>3, <1>4, <1>5 DEF Live
<1>7. ASSUME NEW k \in Keys PROVE ReadBack(n, k) = ReadBack(m, k)
    <2>1. Nodes(n, k) = Nodes(m, k)
        BY <1>1 DEF Nodes, Lists
    <2>2. \A x \in Nodes(m, k) : DataOf(n, x) = DataOf(m, x)
        BY <1>2 DEF DataOf
    <2>3. SameRecord(m, n, k)
        BY <2>1, <2>2, SameNodes
    <2> QED BY <2>3, ReadsSame
<1>8. StoreOf(n) = StoreOf(m)
    BY <1>7 DEF StoreOf
<1> QED BY <1>1, <1>6, <1>8 DEF n

\* What a record with a node says is not that there is none.
LEMMA ReadsSomething ==
    ASSUME NEW m, NEW k \in Keys, Nodes(m, k) # {}
    PROVE  ReadBack(m, k) # None
<1> DEFINE node == CHOOSE n \in Nodes(m, k) : TRUE
           vs == {v \in Values : /\ DataLen(v) = node.length
                                 /\ DataOf(m, node) = Cells("data", k, v, node.length)
                                                          \o Cells("dataCrc", k, v, CRC)}
<1>1. ReadBack(m, k) = IF vs = {} THEN Corrupted ELSE CHOOSE v \in vs : TRUE
    BY Zenon DEF ReadBack
<1>2. vs \subseteq Values /\ None \notin Values /\ Corrupted # None
    BY StoreAssumption DEF None, Corrupted
<1> HIDE DEF vs
<1> QED BY <1>1, <1>2

\* A blank flash, after the search for its first section.
LEMMA BlankIsLive ==
    LET m == WithGc(Fresh([s \in Sections |-> BlankSection])) IN
    /\ Live(m) /\ m.ok = TRUE /\ m.gc = 0 /\ m.avail = SECTION /\ Following(m.tail) = 0
    /\ m.list = [s \in Sections |-> <<>>]
    /\ WithGc(m) = m
<1> DEFINE f == [s \in Sections |-> BlankSection]
           l == [s \in Sections |-> <<>>]
           p == Preceding(0)
           m == WithGc(Fresh(f))
<1>1. /\ SECTIONS \in Nat /\ SECTIONS >= 3 /\ SECTION \in Nat \ {0} /\ PAGE \in Nat \ {0}
      /\ SECTION % PAGE = 0 /\ LOOPS \in Nat \ {0} /\ 0 \in Sections
    BY LogAssumption, StoreAssumption DEF Sections
<1>2. p = SECTIONS - 1 /\ p \in Sections /\ Following(p) = 0
    <2>1. p = SECTIONS - 1
        BY <1>1, PrecedingIs
    <2> HIDE DEF p
    <2>2. p \in Sections
        BY <1>1, <2>1 DEF Sections
    <2> QED BY <1>1, <2>1, <2>2, FollowingIs
<1>3. m = [head |-> 0, tail |-> p, gc |-> 0, avail |-> SECTION, count |-> 0,
           buf |-> <<>>, list |-> l, ok |-> TRUE, flash |-> f, images |-> {f}]
    <2> DEFINE b == Fresh(f)
    <2>1. b = [head |-> 0, tail |-> p, gc |-> INVALID, avail |-> SECTION, count |-> 0,
               buf |-> <<>>, list |-> l, ok |-> TRUE, flash |-> f, images |-> {f}]
        BY DEF Fresh
    <2> HIDE DEF b, p, f, l
    <2>2. b.gc = INVALID /\ b.head = 0
        BY <2>1
    <2>3. m = [b EXCEPT !.gc = 0]
        BY <2>1, <2>2 DEF WithGc, b
    <2> HIDE DEF m
    <2> QED BY <2>1, <2>3
<1>4. f \in Flashes(StoreCell) /\ l \in [Sections -> Seq(Node)]
    BY DEF Flashes, BlankSection, StoreCell
<1> HIDE DEF p, f, l
<1>5. m \in Logs(StoreCell, Seq(Node))
    <2>1. /\ 0 \in Sections \cup {INVALID} /\ SECTION \in 0 .. SECTION /\ 0 \in 0 .. LOOPS - 1
          /\ <<>> \in Seq(StoreCell) /\ {f} \in SUBSET Flashes(StoreCell)
        BY <1>1, <1>4
    <2> QED BY <1>1, <1>2, <1>3, <1>4, <2>1 DEF Logs
<1>6. /\ m.ok = TRUE /\ m.gc = 0 /\ m.avail = SECTION /\ m.tail = p /\ m.list = l /\ m.buf = <<>>
    BY <1>3
<1>7. WithGc(m) = m
    <2>1. [m EXCEPT !.gc = 0] = m
        <3> DEFINE r == [head |-> 0, tail |-> p, gc |-> 0, avail |-> SECTION, count |-> 0,
                         buf |-> <<>>, list |-> l, ok |-> TRUE, flash |-> f, images |-> {f}]
        <3> HIDE DEF m
        <3>1. ASSUME NEW u, u = [m EXCEPT !.gc = 0] PROVE u = m
            <4>1. u = r
                BY <1>3, <3>1
            <4> QED BY <1>3, <4>1
        <3> QED BY <3>1, Zenon
    <2>2. 0 # INVALID
        BY <1>1 DEF INVALID
    <2> HIDE DEF m
    <2>3. WithGc(m) = [m EXCEPT !.gc = 0]
        BY <1>6, <2>2, <1>5 DEF WithGc, Logs
    <2> QED BY <2>1, <2>3
<1> HIDE DEF m
<1>8. GoodLog(m, StoreCell, Seq(Node))
    <2>1. Len(m.buf) = 0 /\ From(m) = SECTION
        BY <1>1, <1>6 DEF From
    <2>2. \A i \in From(m) + 1 .. SECTION : m.flash[m.tail][i] = Erased
        BY <1>1, <2>1
    <2> QED BY <1>1, <1>5, <1>6, <2>1, <2>2 DEF GoodLog
<1>9. \A s \in Sections : m.list[s] = <<>> /\ DOMAIN m.list[s] = {}
    BY <1>6 DEF l
<1>10. Live(m)
    BY <1>1, <1>6, <1>8, <1>9 DEF Live, KeysOnce
<1> QED BY <1>2, <1>6, <1>7, <1>10 DEF m, f, l

\* The first record: the tail comes to section 0, where the first round begins.
LEMMA FirstWrite ==
    ASSUME NEW v \in Values
    PROVE  LET n == Written(Loaded([s \in Sections |-> BlankSection]), Own, v) IN
           /\ Live(n) /\ n.ok = TRUE /\ n.gc = 0 /\ n.tail = 0
           /\ \A k \in Keys : \A x \in Nodes(n, k) : x.length = DataLen(v)
           /\ StoreOf(n) = [k \in Keys |-> IF k = Own THEN v ELSE None]
<1> DEFINE f == [s \in Sections |-> BlankSection]
           b == Fresh(f)
           m == WithGc(b)
           cells == RecordCells(Own, v)
           L == DataLen(v)
           w == AppendNode(m, cells)
           n == Written(Loaded(f), Own, v)
<1>1. /\ Live(m) /\ m.ok = TRUE /\ m.gc = 0 /\ m.avail = SECTION /\ Following(m.tail) = 0
      /\ m.list = [s \in Sections |-> <<>>] /\ WithGc(m) = m
    BY BlankIsLive
<1>2. /\ cells \in Seq(StoreCell) /\ Len(cells) = RecordLen(L) /\ L \in Nat
      /\ HEAD + RecordLen(L) <= SECTION /\ RecordLen(L) \in Nat \ {0}
      /\ SECTION \in Nat \ {0} /\ HEAD = 1
    <2>1. Own \in Keys
        BY RunAssumption
    <2>2. cells \in Seq(StoreCell) /\ Len(cells) = RecordLen(L)
        BY <2>1, RecordCellsAre
    <2>3. L \in Nat /\ HEAD + RecordLen(L) <= SECTION
        BY LengthsAre
    <2>4. RecordLen(L) = META + L + CRC + CRC /\ META \in Nat \ {0} /\ CRC \in Nat \ {0}
        BY LengthsAre
    <2> HIDE DEF cells, L
    <2>5. RecordLen(L) \in Nat \ {0}
        BY <2>3, <2>4
    <2>6. SECTION \in Nat \ {0} /\ HEAD = 1
        BY LogAssumption DEF HEAD
    <2> QED BY <2>2, <2>3, <2>5, <2>6
<1>3. n = Listed(w, Own, L, NextAddr(m))
    <2>1. Loaded(f) = b
        <3>1. ValidSections(f) = {}
            <4>1. 1 \in 1 .. SECTION
                BY <1>2
            <4> QED BY <4>1 DEF ValidSections, BlankSection
        <3> HIDE DEF b, f
        <3> QED BY <3>1 DEF Loaded, b
    <2>2. Unlisted(b, Own) = b
        <3> DEFINE l == [s \in Sections |-> <<>>]
        <3>1. b.list = l
            BY DEF Fresh
        <3>2. \A s \in Sections : Without(l[s], Own) = l[s]
            BY DEF Without
        <3>3. [s \in Sections |-> Without(b.list[s], Own)] = l
            BY <3>1, <3>2
        <3>4. [b EXCEPT !.list = l] = b
            <4> DEFINE t == Preceding(0)
                       r == [head |-> 0, tail |-> t, gc |-> INVALID, avail |-> SECTION, count |-> 0,
                             buf |-> <<>>, list |-> l, ok |-> TRUE, flash |-> f, images |-> {f}]
            <4>1. b = r
                BY DEF Fresh
            <4> HIDE DEF b, l, f, t
            <4>2. ASSUME NEW u, u = [b EXCEPT !.list = l] PROVE u = b
                <5>1. u = r
                    BY <4>1, <4>2
                <5> QED BY <4>1, <5>1
            <4> QED BY <4>2, Zenon
        <3> HIDE DEF b, l
        <3> QED BY <3>3, <3>4 DEF Unlisted
    <2>3. Collected(b, RecordLen(L)) = b
        BY DEF Fresh, Collected, MustCollect
    <2>4. AppendNode(b, cells) = w
        BY <1>1 DEF AppendNode
    <2>5. NextAddr(b) = NextAddr(m)
        BY DEF NextAddr, WithGc, Fresh
    <2>6. n = AppendRecord(Collected(Unlisted(Loaded(f), Own), RecordLen(L)), Own, v)
        BY DEF Written
    <2> HIDE DEF b, m, w, n, f
    <2> QED BY <2>1, <2>2, <2>3, <2>4, <2>5, <2>6 DEF AppendRecord
<1> HIDE DEF m, cells, L, n
<1>4. /\ GoodLog(m, StoreCell, Seq(Node)) /\ m.gc # INVALID /\ m.tail \in Sections
      /\ 0 \in Sections
    BY <1>1, LiveLog
<1>5. Wrote(m, w, cells, RecordLen(L), StoreCell, Seq(Node))
    BY <1>2, <1>4, HeadsAreCells, AppendsAll
<1> HIDE DEF w
<1>6. /\ GoodLog(w, StoreCell, Seq(Node)) /\ w.list = m.list /\ w.gc = 0 /\ w.ok = TRUE
      /\ w.tail = 0
    <2>1. m.list[Following(m.tail)] = <<>>
        BY <1>1, <1>4
    <2>2. m.avail + RecordLen(L) > SECTION
        BY <1>1, <1>2
    <2> QED BY <1>1, <1>4, <1>5, <2>1, <2>2 DEF Wrote
<1>7. \A s \in Sections : w.list[s] = <<>> /\ DOMAIN w.list[s] = {}
    BY <1>1, <1>6
<1>8. Live(w)
    BY <1>4, <1>6, <1>7 DEF Live, KeysOnce
<1>9. \A k : Nodes(m, k) = {} /\ Nodes(w, k) = {}
    BY <1>6, <1>7 DEF Nodes, Lists
<1>10. \A k \in Keys : SameRecord(m, w, k)
    BY <1>9 DEF SameRecord
<1>11. Appended(m, n, Own, L, cells)
    <2>1. Appended(m, Listed(w, Own, L, NextAddr(m)), Own, L, cells)
        BY <1>1, <1>2, <1>5, <1>6, <1>8, <1>9, <1>10, WrittenIsAppended, RunAssumption
    <2> QED BY <1>3, <2>1
<1>12. ReadBack(n, Own) = v
    BY <1>11, ReadsWhatWasAppended, RunAssumption DEF L, cells
<1>13. ASSUME NEW k \in Keys, k # Own PROVE ReadBack(n, k) = None
    <2>1. SameRecord(m, n, k)
        BY <1>11, <1>13 DEF Appended
    <2>2. Nodes(n, k) = {}
        BY <1>9, <2>1 DEF SameRecord
    <2> QED BY <2>2 DEF ReadBack
<1>14. StoreOf(n) = [k \in Keys |-> IF k = Own THEN v ELSE None]
    BY <1>12, <1>13 DEF StoreOf
<1>15. Live(n) /\ n.ok = TRUE /\ n.gc = 0 /\ n.tail = 0
    <2>1. m.avail + RecordLen(L) > SECTION
        BY <1>1, <1>2
    <2> QED BY <1>1, <1>11, <2>1 DEF Appended
<1>16. ASSUME NEW k \in Keys, NEW x \in Nodes(n, k) PROVE x.length = L
    <2>1. CASE k = Own
        <3>1. \E y \in Node : Nodes(n, Own) = {y} /\ y.length = L
            BY <1>11 DEF Appended
        <3> QED BY <2>1, <3>1
    <2>2. CASE k # Own
        <3>1. SameRecord(m, n, k)
            BY <1>11, <2>2 DEF Appended
        <3> QED BY <1>9, <3>1 DEF SameRecord
    <2> QED BY <2>1, <2>2
<1> QED BY <1>14, <1>15, <1>16 DEF n, f, L

\* What the stack's first start leaves.
LEMMA StartsSound ==
    ASSUME FsInit
    PROVE  Records!Init /\ StaysUp /\ Live(fs) /\ store = StoreOf(fs)
<1> DEFINE f == [s \in Sections |-> BlankSection]
<1>1. PICK v \in Values : /\ fs = Settled(WrittenThrough(Written(Loaded(f), Own, v)))
                          /\ store = StoreOf(WrittenThrough(Written(Loaded(f), Own, v)))
    BY RunAssumption DEF FsInit
<1> DEFINE n == Written(Loaded(f), Own, v)
           m == WrittenThrough(n)
<1>2. /\ Live(n) /\ n.ok = TRUE /\ n.gc = 0 /\ n.tail = 0
      /\ StoreOf(n) = [k \in Keys |-> IF k = Own THEN v ELSE None]
    BY FirstWrite
<1> HIDE DEF n
<1>3. ASSUME NEW c PROVE RoomFor(n, c)
    <2>1. SECTIONS \in Nat /\ SECTIONS >= 3 /\ 0 \in Sections
        BY LogAssumption, StoreAssumption DEF Sections
    <2>2. Following(0) = 1 /\ Preceding(0) = SECTIONS - 1
        BY <2>1, FollowingIs, PrecedingIs
    <2> QED BY <1>2, <2>1, <2>2 DEF RoomFor, MustCollect
<1>4. Live(m) /\ m.ok = TRUE /\ StoreOf(m) = StoreOf(n)
    BY <1>2, <1>3, WriteThroughChangesNothing
<1>5. fs = Settled(m) /\ store = StoreOf(m)
    BY <1>1 DEF n
<1> HIDE DEF m
<1>6. Live(fs) /\ StoreOf(fs) = store /\ fs.ok = TRUE
    BY <1>4, <1>5, SettledIs
<1>7. store \in [Keys -> Values \cup {None}]
    BY <1>2, <1>4, <1>5
<1> QED BY <1>6, <1>7 DEF FsInit, Records!Init, StaysUp

\* The operations that end, one by one, are those of the abstract store.
LEMMA OperationIs ==
    ASSUME StaysUp, SoundStore, FsNext, losses = 0, losses' = 0
    PROVE  Records!Next /\ StaysUp' /\ Live(fs') /\ store' = StoreOf(fs')
<1>1. Live(fs) /\ store = StoreOf(fs) /\ CollectsInTime /\ fs.ok = TRUE
    <2>1. fs.ok \in BOOLEAN
        BY DEF SoundStore, Live, GoodLog, Logs
    <2> QED BY <2>1 DEF SoundStore, StaysUp
<1>2. ASSUME NEW m, Done(m), Live(m), m.ok = TRUE
      PROVE  StaysUp' /\ Live(fs') /\ store' = StoreOf(fs') /\ store' = StoreOf(m)
    BY <1>2, SettledIs DEF Done, StaysUp
<1>3. ASSUME NEW k \in Keys, NEW v \in Values, tinyfs_write(k, v)
      PROVE  Records!Next /\ StaysUp' /\ Live(fs') /\ store' = StoreOf(fs')
    <2> DEFINE m == Written(fs, k, v)
    <2>1. RoomFor(Unlisted(fs, k), RecordLen(DataLen(v)))
        BY <1>1, <1>3 DEF tinyfs_write, CanChange, CollectsInTime
    <2>2. Live(m) /\ m.ok = TRUE /\ StoreOf(m) = [StoreOf(fs) EXCEPT ![k] = v]
        BY <1>1, <2>1, WriteIsChange
    <2>3. Done(m) /\ behind' = Append(behind, store')
        BY <1>3 DEF tinyfs_write
    <2> DEFINE c == <<k, v>>
    <2> HIDE DEF m
    <2>4. StaysUp' /\ Live(fs') /\ store' = StoreOf(fs') /\ store' = [store EXCEPT ![k] = v]
        BY <1>1, <1>2, <2>2, <2>3
    <2>5. c \in Records!Changes /\ c[1] = k /\ c[2] = v /\ v # None
        BY StoreAssumption DEF None, Records!Changes
    <2>6. cut' = NoChange
        BY <2>3 DEF Done
    <2> HIDE DEF c
    <2>7. Records!Change(c)
        BY <2>3, <2>4, <2>5, <2>6 DEF Records!Change, Records!CanBeMade, Records!Made
    <2> QED BY <2>4, <2>5, <2>7 DEF Records!Next
<1>4. ASSUME NEW k \in Keys, tinyfs_del_record(k)
      PROVE  Records!Next /\ StaysUp' /\ Live(fs') /\ store' = StoreOf(fs')
    <2> DEFINE m == Deleted(fs, k)
    <2>1. RoomFor(fs, RemovalLen) /\ Nodes(fs, k) # {}
        BY <1>1, <1>4 DEF tinyfs_del_record, CanChange, CollectsInTime
    <2>2. Live(m) /\ m.ok = TRUE /\ StoreOf(m) = [StoreOf(fs) EXCEPT ![k] = None]
        BY <1>1, <2>1, DeletionIsChange
    <2>3. Done(m) /\ behind' = Append(behind, store')
        BY <1>4 DEF tinyfs_del_record
    <2> DEFINE c == <<k, None>>
    <2> HIDE DEF m
    <2>4. StaysUp' /\ Live(fs') /\ store' = StoreOf(fs') /\ store' = [store EXCEPT ![k] = None]
        BY <1>1, <1>2, <2>2, <2>3
    <2>5. store[k] # None
        <3>1. store[k] = ReadBack(fs, k)
            BY <1>1 DEF StoreOf
        <3> QED BY <2>1, <3>1, ReadsSomething
    <2>6. c \in Records!Changes /\ c[1] = k /\ c[2] = None
        BY DEF Records!Changes
    <2>7. cut' = NoChange
        BY <2>3 DEF Done
    <2> HIDE DEF c
    <2>8. Records!Change(c)
        BY <2>3, <2>4, <2>5, <2>6, <2>7 DEF Records!Change, Records!CanBeMade, Records!Made
    <2> QED BY <2>4, <2>6, <2>8 DEF Records!Next
<1>5. ASSUME tinyfs_write_through
      PROVE  Records!Next /\ StaysUp' /\ Live(fs') /\ store' = StoreOf(fs')
    <2> DEFINE m == WrittenThrough(fs)
    <2>1. fs.avail % PAGE # 0 => RoomFor(fs, PAGE - (fs.avail % PAGE))
        BY <1>1 DEF CollectsInTime
    <2>2. Live(m) /\ m.ok = TRUE /\ StoreOf(m) = StoreOf(fs)
        BY <1>1, <2>1, WriteThroughChangesNothing
    <2>3. Done(m) /\ behind' = <<store>>
        BY <1>5 DEF tinyfs_write_through
    <2> HIDE DEF m
    <2>4. StaysUp' /\ Live(fs') /\ store' = StoreOf(fs') /\ store' = store
        BY <1>1, <1>2, <2>2, <2>3
    <2>5. cut' = NoChange
        BY <2>3 DEF Done
    <2>6. Records!WriteThrough
        BY <2>3, <2>4, <2>5 DEF Records!WriteThrough
    <2> QED BY <2>4, <2>6 DEF Records!Next
<1>6. ~LossOfPower
    BY DEF LossOfPower, CutOff
<1> QED BY <1>3, <1>4, <1>5, <1>6 DEF FsNext

\* As long as the power stays on and every collection starts in time, the store is
\* its abstract self, whatever the sizes of sections, pages and records: a write or a
\* deletion changes the record that it names and no other, collections and write-
\* throughs change none, no section with live nodes is erased, and the log is always
\* ready for the next node.
THEOREM OperationsImplementRecords ==
    FsSpec /\ [](losses = 0) /\ []CollectsInTime
        => ImplementsRecords /\ []StaysUp /\ []SoundStore
<1> DEFINE Sound == Live(fs) /\ store = StoreOf(fs)
<1>1. FsInit => Records!Init /\ StaysUp /\ Sound
    BY StartsSound
<1>2. StaysUp /\ Sound /\ CollectsInTime /\ losses = 0 /\ (losses = 0)' /\ [FsNext]_fsVars
         => [Records!Next]_(Records!vars) /\ StaysUp' /\ Sound'
    <2>1. CASE FsNext
        BY <2>1, OperationIs DEF SoundStore
    <2>2. CASE UNCHANGED fsVars
        <3>1. fs' = fs /\ store' = store /\ behind' = behind /\ cut' = cut
            BY <2>2 DEF fsVars
        <3> QED BY <3>1 DEF Records!vars, StaysUp
    <2> QED BY <2>1, <2>2
<1>3. Sound /\ CollectsInTime => SoundStore
    BY DEF SoundStore
<1> HIDE DEF Sound
<1> QED BY <1>1, <1>2, <1>3, PTL DEF FsSpec, ImplementsRecords, Records!Spec

--------------------------------------------------------------------------------
(* How much a section must hold for every collection to start in time.     *)

\* All records at their longest, one node more, a head and a page: n cells a node.
Roomy(n) ==
    /\ IsFiniteSet(Keys) /\ n \in Nat
    /\ RemovalLen <= n /\ \A v \in Values : RecordLen(DataLen(v)) <= n
    /\ HEAD + PAGE + (Cardinality(Keys) + 1) * n <= SECTION

\* Nodes are as long as records are, and the section behind the tail is not the one to
\* collect next.
Tidy(m) ==
    /\ Following(m.tail) # m.gc
    /\ \A k \in Keys : \A x \in Nodes(m, k) : \E v \in Values : x.length = DataLen(v)

\* A sum of numbers up to n.
LEMMA SumAtMost ==
    ASSUME NEW N \in Nat, NEW n \in Nat, NEW f, f[0] = 0,
           \A i \in 0 .. N : f[i] \in Nat,
           \A i \in 1 .. N : f[i] <= f[i - 1] + n
    PROVE  f[N] <= N * n
<1> DEFINE T == {i \in 0 .. N : f[i] <= i * n}
<1>1. 0 \in T
    OBVIOUS
<1>2. ASSUME NEW i \in 0 .. N - 1, i \in T PROVE i + 1 \in T
    <2>1. i + 1 \in 1 .. N /\ (i + 1) - 1 = i /\ i + 1 \in 0 .. N /\ i \in 0 .. N
        OBVIOUS
    <2>2. f[i + 1] <= f[i] + n /\ f[i] \in Nat /\ f[i + 1] \in Nat
        BY <2>1
    <2>3. (i + 1) * n = i * n + n /\ i * n \in Nat
        OBVIOUS
    <2>4. f[i] <= i * n
        BY <1>2
    <2> QED BY <2>1, <2>2, <2>3, <2>4
<1> HIDE DEF T
<1>3. \A i \in 0 .. N : i \in T
    BY <1>1, <1>2, Upward
<1>4. N \in T
    BY <1>3
<1> QED BY <1>4 DEF T

\* The nodes of a section are records of their own.
LEMMA ListFits ==
    ASSUME NEW m, Live(m), Tidy(m), NEW n, Roomy(n), NEW s \in Sections
    PROVE  ListLen(m.list[s]) <= Cardinality(Keys) * n
<1> DEFINE l == m.list[s]
           N == Len(l)
           C == Cardinality(Keys)
<1>1. l \in Seq(Node) /\ N \in Nat
    BY LiveLog
<1>2. n \in Nat /\ C \in Nat
    BY FS_CardinalityType DEF Roomy
<1>3. N <= C
    <2> DEFINE f == [i \in 1 .. N |-> l[i].key]
    <2>1. \A i \in 1 .. N : l[i].key \in Keys
        BY <1>1, NodeTypes
    <2>2. \A i, j \in 1 .. N : l[i].key = l[j].key => i = j
        <3>1. DOMAIN l = 1 .. N
            BY <1>1
        <3> QED BY <3>1 DEF Live, KeysOnce
    <2> HIDE DEF l, N
    <2>3. f \in Injection(1 .. N, Keys)
        <3>1. f \in [1 .. N -> Keys] /\ DOMAIN f = 1 .. N
            BY <2>1
        <3>2. \A i, j \in 1 .. N : f[i] = f[j] => i = j
            BY <2>2
        <3> HIDE DEF f
        <3> QED BY <3>1, <3>2 DEF Injection, IsInjective
    <2> HIDE DEF f
    <2>4. Cardinality(1 .. N) <= C
        BY <2>3, FS_Injection DEF Roomy
    <2>5. Cardinality(1 .. N) = N
        BY <1>1, FS_Interval
    <2> QED BY <2>4, <2>5
<1>4. PICK f : /\ f[0] = 0 /\ ListLen(l) = f[N]
               /\ \A i \in 1 .. N : f[i] = f[i - 1] + RecordLen(l[i].length)
               /\ \A i \in 0 .. N : f[i] \in Nat
    BY <1>1, Sums
<1>5. ASSUME NEW i \in 1 .. N PROVE RecordLen(l[i].length) <= n /\ RecordLen(l[i].length) \in Nat
    <2>1. i \in DOMAIN l /\ l[i] \in Node
        BY <1>1
    <2>2. l[i] \in Nodes(m, l[i].key) /\ l[i].key \in Keys
        BY <2>1, LiveNode, NodeTypes
    <2>3. PICK v \in Values : l[i].length = DataLen(v)
        BY <2>2 DEF Tidy
    <2> QED BY <2>1, <2>3, NodeTypes DEF Roomy
<1> HIDE DEF l, N, C
<1>6. ASSUME NEW i \in 1 .. N PROVE f[i] <= f[i - 1] + n
    <2>1. i - 1 \in 0 .. N
        BY <1>1
    <2>2. f[i] = f[i - 1] + RecordLen(l[i].length) /\ f[i - 1] \in Nat
        BY <1>4, <2>1
    <2> QED BY <1>2, <1>5, <2>2
<1>7. f[N] <= N * n
    BY <1>1, <1>2, <1>4, <1>6, SumAtMost
<1>8. N * n <= C * n
    <2>1. C - N \in Nat /\ C = N + (C - N)
        BY <1>1, <1>2, <1>3
    <2>2. (C - N) * n \in Nat /\ N * n \in Nat
        BY <1>1, <1>2, <2>1
    <2>3. C * n = N * n + (C - N) * n
        BY <1>1, <1>2, <2>1
    <2> QED BY <2>2, <2>3
<1>9. N * n \in Int /\ C * n \in Int /\ f[N] \in Int
    BY <1>1, <1>2, <1>4
<1> QED BY <1>4, <1>7, <1>8, <1>9 DEF l, C

\* So a list leaves room for a node, a head and a page.
LEMMA RoomLeft ==
    ASSUME NEW m, Live(m), Tidy(m), NEW n, Roomy(n), NEW s \in Sections
    PROVE  /\ ListLen(m.list[s]) \in Nat /\ n \in Nat
           /\ HEAD + PAGE + ListLen(m.list[s]) + n <= SECTION
<1> DEFINE l == m.list[s]
           C == Cardinality(Keys)
<1>1. l \in Seq(Node) /\ SECTION \in Nat /\ PAGE \in Nat /\ HEAD = 1
    BY LiveLog
<1>2. ListLen(l) \in Nat
    BY <1>1, ListLenIs
<1>3. ListLen(l) <= C * n
    BY ListFits
<1>4. C \in Nat /\ n \in Nat /\ HEAD + PAGE + (C + 1) * n <= SECTION
    BY FS_CardinalityType DEF Roomy
<1> HIDE DEF l, C
<1>5. (C + 1) * n = C * n + n /\ C * n \in Nat
    BY <1>4
<1> QED BY <1>1, <1>2, <1>3, <1>4, <1>5 DEF l

\* Every collection starts in time.
LEMMA RoomForAll ==
    ASSUME NEW m, Live(m), Tidy(m), NEW n, Roomy(n), NEW c
    PROVE  RoomFor(m, c)
<1> DEFINE R == ListLen(m.list[m.gc])
<1>1. /\ m.gc \in Sections /\ m.avail \in 0 .. SECTION /\ SECTION \in Nat /\ PAGE \in Nat
      /\ HEAD = 1
    BY LiveLog
<1>2. R \in Nat /\ n \in Nat /\ HEAD + PAGE + R + n <= SECTION
    BY <1>1, RoomLeft
<1>3. Following(m.tail) # m.gc
    BY DEF Tidy
<1> HIDE DEF R
<1>4. HEAD + (m.avail + R) <= 2 * SECTION
    BY <1>1, <1>2
<1> QED BY <1>3, <1>4 DEF RoomFor, Room, R

\* The section before the one that follows.
LEMMA ArcBack ==
    ASSUME NEW s \in Sections
    PROVE  /\ Preceding(Following(s)) = s
           /\ Following(s) # Following(Following(s))
           /\ Following(Following(s)) # s
<1>1. SECTIONS \in Nat /\ SECTIONS >= 3 /\ s \in 0 .. SECTIONS - 1
    BY LogAssumption, StoreAssumption DEF Sections
<1>2. Following(s) = IF s + 1 = SECTIONS THEN 0 ELSE s + 1
    BY FollowingIs
<1>3. Following(s) \in Sections
    BY <1>1, <1>2 DEF Sections
<1>4. /\ Preceding(Following(s)) = IF Following(s) = 0 THEN SECTIONS - 1 ELSE Following(s) - 1
      /\ Following(Following(s)) = IF Following(s) + 1 = SECTIONS THEN 0 ELSE Following(s) + 1
    BY <1>3, FollowingIs, PrecedingIs
<1> QED BY <1>1, <1>2, <1>4

\* The end of a page is within a page.
LEMMA PageUpWithin ==
    ASSUME NEW o \in Nat, NEW p \in Nat \ {0}, p = PAGE
    PROVE  PageUp(o) <= o + p /\ PageUp(o) \in Int
<1> DEFINE q == o \div p
           r == o % p
<1>1. q \in Int /\ o = p * q + r /\ r \in 0 .. p - 1
    OBVIOUS
<1>2. PageUp(o) = (q + 1) * p
    BY DEF PageUp
<1> HIDE DEF q, r
<1>3. (q + 1) * p = p * q + p
    BY <1>1
<1> QED BY <1>1, <1>2, <1>3

\* Where the tail is after a collection.
LEMMA CollectGoes ==
    ASSUME NEW m, Live(m), m.gc # m.tail, Room(m)
    PROVE  LET c == Collect(m) IN
           /\ c.gc = Following(m.gc)
           /\ \/ c.tail = m.tail
              \/ c.tail = Following(m.tail) /\ c.avail <= HEAD + ListLen(m.list[m.gc]) + PAGE
<1> DEFINE n == CopyList(m)
           w == IF n.avail % PAGE # 0 THEN WriteOut(n) ELSE n
           c == Collect(m)
           R == ListLen(m.list[m.gc])
<1>1. /\ Live(n) /\ n.gc = m.gc /\ Len(n.list[m.gc]) = 0
      /\ WentOn(m, n, R - ListLen(n.list[m.gc]))
    BY CopyListIs DEF CopiedBut
<1>2. /\ m.gc \in Sections /\ m.avail \in 0 .. SECTION /\ SECTION \in Nat \ {0}
      /\ PAGE \in Nat \ {0} /\ HEAD = 1
    BY LiveLog
<1>3. R \in Nat
    <2>1. m.list[m.gc] \in Seq(Node)
        BY LiveLog
    <2> QED BY <2>1, ListLenIs
<1>4. c = [w EXCEPT !.gc = Following(@)]
    BY DEF Collect
<1> HIDE DEF n, c, R
<1>5. ListLen(n.list[m.gc]) = 0
    <2>1. n.list[m.gc] \in Seq(Node)
        BY <1>1, <1>2, LiveLog
    <2>2. PICK f : f[0] = 0 /\ ListLen(n.list[m.gc]) = f[Len(n.list[m.gc])]
        BY <2>1, Sums
    <2> QED BY <1>1, <2>2
<1>6. n.avail \in 0 .. SECTION
    BY <1>1, LiveLog
<1>7. /\ Live(w) /\ w.gc = m.gc /\ w.tail = n.tail
      /\ w.avail \in Int /\ w.avail <= n.avail + PAGE
    <2>1. CASE n.avail % PAGE # 0
        <3>1. w = WriteOut(n)
            BY <2>1
        <3> HIDE DEF w
        <3>2. Live(w) /\ w.gc = n.gc /\ w.tail = n.tail
            BY <1>1, <2>1, <3>1, WriteOutIs
        <3>3. w.avail = PageUp(n.avail)
            BY <1>1, <3>1 DEF WriteOut, Flush, Live, GoodLog, Logs
        <3>4. PageUp(n.avail) <= n.avail + PAGE /\ PageUp(n.avail) \in Int
            BY <1>2, <1>6, PageUpWithin, SMT
        <3> QED BY <1>1, <3>2, <3>3, <3>4
    <2>2. CASE ~(n.avail % PAGE # 0)
        <3>1. w = n
            BY <2>2
        <3> HIDE DEF w
        <3> QED BY <1>1, <1>2, <1>6, <3>1
    <2> QED BY <2>1, <2>2
<1> HIDE DEF w
<1>8. c.gc = Following(m.gc) /\ c.tail = n.tail /\ c.avail = w.avail
    BY <1>4, <1>7 DEF Live, GoodLog, Logs
<1>9. CASE m.avail + R <= SECTION
    <2>1. n.tail = m.tail
        BY <1>1, <1>2, <1>3, <1>5, <1>9 DEF WentOn
    <2> QED BY <1>8, <2>1 DEF c
<1>10. CASE ~(m.avail + R <= SECTION)
    <2>1. n.tail = Following(m.tail) /\ n.avail = HEAD + (m.avail + R) - SECTION
        BY <1>1, <1>2, <1>3, <1>5, <1>10 DEF WentOn
    <2>2. c.avail <= HEAD + R + PAGE
        BY <1>2, <1>3, <1>6, <1>7, <1>8, <2>1
    <2> QED BY <1>8, <2>1, <2>2 DEF c, R
<1> QED BY <1>9, <1>10

\* After the collection that an operation may have started, its node does not take the
\* tail to the section before the one to collect next.
LEMMA CollectedTidy ==
    ASSUME NEW m, Live(m), Tidy(m), NEW n, Roomy(n), NEW k \in 0 .. n
    PROVE  LET c == Collected(m, k) IN
           /\ Live(c) /\ Tidy(c)
           /\ c.avail + k <= SECTION \/ Following(Following(c.tail)) # c.gc
<1> DEFINE c == Collected(m, k)
           F == Following(m.tail)
           R == ListLen(m.list[m.gc])
<1>1. /\ m.gc \in Sections /\ m.tail \in Sections /\ m.avail \in 0 .. SECTION /\ m.gc # INVALID
      /\ SECTION \in Nat \ {0} /\ PAGE \in Nat \ {0} /\ HEAD = 1
    BY LiveLog
<1>2. R \in Nat /\ n \in Nat /\ HEAD + PAGE + R + n <= SECTION /\ RoomFor(m, k)
    BY <1>1, RoomLeft, RoomForAll
<1>3. F # m.gc /\ F \in Sections
    BY <1>1, Arcs DEF Tidy
<1>4. /\ Live(c) /\ Following(c.tail) # c.gc
      /\ \A key \in Keys : SameRecord(m, c, key)
    BY <1>2, CollectedIs
<1> HIDE DEF R
<1>5. ASSUME ~MustCollect(m, k) PROVE c.avail + k <= SECTION \/ Following(Following(c.tail)) # c.gc
    <2>1. c = m
        BY <1>5 DEF Collected
    <2>2. Following(F) = m.gc => m.avail + k + R <= SECTION
        <3>1. Following(F) = m.gc => F = Preceding(m.gc)
            BY <1>3, ArcBack
        <3>2. F = Preceding(m.gc) => ~(m.avail + k + R > SECTION)
            BY <1>1, <1>5 DEF MustCollect, R
        <3> QED BY <1>1, <1>2, <3>1, <3>2
    <2>3. m.avail + k <= SECTION \/ Following(F) # m.gc
        BY <1>1, <1>2, <2>2
    <2> HIDE DEF c
    <2> QED BY <2>1, <2>3
<1>6. ASSUME MustCollect(m, k) PROVE c.avail + k <= SECTION \/ Following(Following(c.tail)) # c.gc
    <2>1. F = Preceding(m.gc)
        BY <1>3, <1>6 DEF MustCollect
    <2>2. Following(F) = m.gc /\ m.gc # m.tail
        BY <1>1, <2>1, Arcs
    <2>3. Room(m)
        BY <1>2, <1>6 DEF RoomFor
    <2>4. c = Collect(m)
        BY <1>6 DEF Collected
    <2>5. /\ c.gc = Following(m.gc)
          /\ c.tail = m.tail \/ (c.tail = F /\ c.avail <= HEAD + R + PAGE)
        BY <2>2, <2>3, <2>4, CollectGoes DEF R
    <2>6. c.avail \in 0 .. SECTION
        BY <1>4, LiveLog
    <2> HIDE DEF c, F
    <2>7. CASE c.tail = m.tail
        <3>1. Following(m.gc) # m.gc
            BY <1>1, Arcs
        <3> QED BY <2>2, <2>5, <2>7, <3>1 DEF F
    <2>8. CASE c.tail = F /\ c.avail <= HEAD + R + PAGE
        BY <1>1, <1>2, <2>6, <2>8
    <2> QED BY <2>5, <2>7, <2>8
<1>7. Tidy(c)
    <2> SUFFICES ASSUME NEW key \in Keys, NEW x \in Nodes(c, key)
                 PROVE  \E v \in Values : x.length = DataLen(v)
        BY <1>4 DEF Tidy
    <2> HIDE DEF c
    <2>1. SameRecord(m, c, key)
        BY <1>4
    <2>2. PICK y \in Nodes(m, key) : TRUE
        BY <2>1 DEF SameRecord
    <2>3. x.length = y.length
        BY <2>1 DEF SameRecord
    <2> QED BY <2>3 DEF Tidy
<1> QED BY <1>4, <1>5, <1>6, <1>7 DEF c

\* Nodes that are as long as they were, and the tail where it may be.
LEMMA LengthsKept ==
    ASSUME NEW m, Tidy(m), NEW n, Following(n.tail) # n.gc,
           \A k \in Keys : SameRecord(m, n, k) \/ Nodes(n, k) = {}
    PROVE  Tidy(n)
<1> SUFFICES ASSUME NEW k \in Keys, NEW x \in Nodes(n, k)
             PROVE  \E v \in Values : x.length = DataLen(v)
    BY DEF Tidy
<1>1. SameRecord(m, n, k)
    OBVIOUS
<1>2. PICK y \in Nodes(m, k) : TRUE
    BY <1>1 DEF SameRecord
<1>3. x.length = y.length
    BY <1>1 DEF SameRecord
<1> QED BY <1>3 DEF Tidy

\* A record that leaves its list.
LEMMA UnlistedTidy ==
    ASSUME NEW m, Live(m), Tidy(m), NEW k \in Keys
    PROVE  Live(Unlisted(m, k)) /\ Tidy(Unlisted(m, k))
<1> DEFINE u == Unlisted(m, k)
<1>1. /\ Live(u) /\ u.tail = m.tail /\ u.gc = m.gc /\ Nodes(u, k) = {}
      /\ \A k2 \in Keys : k2 # k => SameRecord(m, u, k2)
    BY UnlistedIs
<1> HIDE DEF u
<1>2. Following(u.tail) # u.gc
    BY <1>1 DEF Tidy
<1>3. \A k2 \in Keys : SameRecord(m, u, k2) \/ Nodes(u, k2) = {}
    BY <1>1
<1> QED BY <1>1, <1>2, <1>3, LengthsKept DEF u

\* A write.
LEMMA WrittenTidy ==
    ASSUME NEW m, Live(m), Tidy(m), NEW n, Roomy(n), NEW k \in Keys, NEW v \in Values
    PROVE  Tidy(Written(m, k, v))
<1> DEFINE u == Unlisted(m, k)
           L == RecordLen(DataLen(v))
           c == Collected(u, L)
           w == Written(m, k, v)
<1>1. Live(u) /\ Tidy(u) /\ Nodes(u, k) = {}
    BY UnlistedTidy, UnlistedIs
<1>2. L \in 0 .. n /\ n \in Nat
    <2>1. L \in Nat
        BY LengthsAre
    <2> HIDE DEF L
    <2>2. L <= n /\ n \in Nat
        BY DEF Roomy, L
    <2> QED BY <2>1, <2>2
<1>3. w = AppendRecord(c, k, v)
    BY DEF Written
<1> HIDE DEF u, L
<1>4. RoomFor(u, L)
    BY <1>1, RoomForAll
<1>5. Live(c) /\ Tidy(c) /\ (c.avail + L <= SECTION \/ Following(Following(c.tail)) # c.gc)
    BY <1>1, <1>2, CollectedTidy
<1>6. SameRecord(u, c, k)
    BY <1>1, <1>4, CollectedIs
<1> HIDE DEF c, w
<1>7. Nodes(c, k) = {} /\ Following(c.tail) # c.gc
    BY <1>1, <1>5, <1>6 DEF SameRecord, Tidy
<1>8. Appended(c, w, k, DataLen(v), RecordCells(k, v))
    BY <1>3, <1>5, <1>7, AppendRecordIs
<1>9. Following(w.tail) # w.gc
    <2>1. c.avail \in Nat /\ SECTION \in Nat
        BY <1>5, LiveLog
    <2>2. /\ w.gc = c.gc
          /\ c.avail + L <= SECTION => w.tail = c.tail
          /\ c.avail + L > SECTION => w.tail = Following(c.tail)
        BY <1>8 DEF Appended, L
    <2> QED BY <1>2, <1>5, <1>7, <2>1, <2>2
<1>10. ASSUME NEW k2 \in Keys, NEW x \in Nodes(w, k2)
       PROVE  \E v2 \in Values : x.length = DataLen(v2)
    <2>1. CASE k2 = k
        <3>1. \E y \in Node : Nodes(w, k) = {y} /\ y.length = DataLen(v)
            BY <1>8 DEF Appended
        <3> QED BY <2>1, <3>1
    <2>2. CASE k2 # k
        <3>1. SameRecord(c, w, k2)
            BY <1>8, <2>2 DEF Appended
        <3>2. PICK y \in Nodes(c, k2) : TRUE
            BY <3>1 DEF SameRecord
        <3>3. x.length = y.length
            BY <3>1 DEF SameRecord
        <3> QED BY <1>5, <3>3 DEF Tidy
    <2> QED BY <2>1, <2>2
<1> QED BY <1>9, <1>10 DEF Tidy, w

\* A deletion.
LEMMA DeletedTidy ==
    ASSUME NEW m, Live(m), Tidy(m), NEW n, Roomy(n), NEW k \in Keys
    PROVE  Tidy(Deleted(m, k))
<1> DEFINE c == Collected(m, RemovalLen)
           cells == RemovalCells(k)
           w == AppendNode(c, cells)
<1>1. RemovalLen \in 0 .. n /\ n \in Nat /\ RemovalLen \in Nat
    BY StoreAssumption DEF Roomy, RemovalLen
<1>2. /\ Live(c) /\ Tidy(c)
      /\ c.avail + RemovalLen <= SECTION \/ Following(Following(c.tail)) # c.gc
    BY <1>1, CollectedTidy
<1> HIDE DEF c
<1>3. /\ c.avail \in Nat /\ SECTION \in Nat /\ c.gc # INVALID /\ c.gc \in Sections
      /\ GoodLog(c, StoreCell, Seq(Node))
    BY <1>2, LiveLog
<1>4. HEAD + RemovalLen <= SECTION
    <2>1. ListLen(m.list[m.gc]) \in Nat /\ HEAD + PAGE + ListLen(m.list[m.gc]) + n <= SECTION
        <3>1. m.gc \in Sections
            BY LiveLog
        <3> QED BY <3>1, RoomLeft
    <2>2. PAGE \in Nat /\ HEAD = 1
        BY LiveLog
    <2> QED BY <1>1, <1>3, <2>1, <2>2
<1>5. cells \in Seq(StoreCell) /\ Len(cells) = RemovalLen
    BY RemovalCellsAre
<1> HIDE DEF cells
<1>6. Wrote(c, w, cells, RemovalLen, StoreCell, Seq(Node))
    BY <1>3, <1>4, <1>5, HeadsAreCells, AppendsAll
<1>7. Deleted(m, k) = Unlisted(w, k)
    BY DEF Deleted, c, cells
<1> HIDE DEF w
<1>8. Following(c.tail) # c.gc
    BY <1>2 DEF Tidy
<1>9. Live(w) /\ w.gc = c.gc /\ \A key \in Keys : SameRecord(c, w, key)
    <2>1. Live(c) /\ RemovalLen \in Nat
        BY <1>1, <1>2
    <2>2. Continues(c, w)
        BY <1>4, <1>6, <1>8, <2>1, WroteLive, Zenon
    <2> QED BY <2>2, Zenon DEF Continues
<1>10. Following(w.tail) # w.gc
    <2>1. /\ c.avail + RemovalLen <= SECTION => w.tail = c.tail
          /\ c.avail + RemovalLen > SECTION => w.tail = Following(c.tail)
        BY <1>6 DEF Wrote
    <2> QED BY <1>1, <1>2, <1>3, <1>8, <1>9, <2>1
<1>11. Tidy(w)
    BY <1>2, <1>9, <1>10, LengthsKept
<1> QED BY <1>7, <1>9, <1>11, UnlistedTidy

\* A write-through.
LEMMA WrittenThroughTidy ==
    ASSUME NEW m, Live(m), Tidy(m), NEW n, Roomy(n)
    PROVE  Tidy(WrittenThrough(m))
<1> DEFINE w == WrittenThrough(m)
           padding == PAGE - (m.avail % PAGE)
<1>1. RoomFor(m, padding)
    BY RoomForAll
<1>2. CASE m.avail % PAGE = 0
    BY <1>2 DEF WrittenThrough
<1>3. CASE m.avail % PAGE # 0 /\ MustCollect(m, padding)
    <2>1. w = Collected(m, padding)
        BY <1>3 DEF WrittenThrough, Collected
    <2> HIDE DEF w, padding
    <2>2. Following(w.tail) # w.gc /\ \A k \in Keys : SameRecord(m, w, k)
        BY <1>1, <2>1, CollectedIs
    <2>3. Tidy(w)
        BY <2>2, LengthsKept
    <2> QED BY <2>3 DEF w
<1>4. CASE m.avail % PAGE # 0 /\ ~MustCollect(m, padding)
    <2>1. w = WriteOut(m)
        BY <1>4 DEF WrittenThrough
    <2> HIDE DEF w
    <2>2. w.tail = m.tail /\ w.gc = m.gc /\ \A k \in Keys : SameRecord(m, w, k)
        BY <1>4, <2>1, WriteOutIs
    <2>3. Following(w.tail) # w.gc
        BY <2>2 DEF Tidy
    <2>4. Tidy(w)
        BY <2>2, <2>3, LengthsKept
    <2> QED BY <2>4 DEF w
<1> QED BY <1>2, <1>3, <1>4

\* Images and what is read do not matter.
LEMMA SettledTidy ==
    ASSUME NEW m, Live(m), Tidy(m)
    PROVE  Tidy(Settled(m))
<1> DEFINE n == Settled(m)
<1>1. n.list = m.list /\ n.tail = m.tail /\ n.gc = m.gc
    BY DEF Settled, Live, GoodLog, Logs
<1> HIDE DEF n
<1>2. \A k : Nodes(n, k) = Nodes(m, k)
    BY <1>1 DEF Nodes, Lists
<1>3. Tidy(n)
    BY <1>1, <1>2 DEF Tidy
<1> QED BY <1>3 DEF n

\* The first start.
LEMMA StartsTidy ==
    ASSUME NEW n, Roomy(n), FsInit
    PROVE  Tidy(fs)
<1> DEFINE f == [s \in Sections |-> BlankSection]
<1>1. PICK v \in Values : fs = Settled(WrittenThrough(Written(Loaded(f), Own, v)))
    BY RunAssumption DEF FsInit
<1> DEFINE w == Written(Loaded(f), Own, v)
<1>2. /\ Live(w) /\ w.gc = 0 /\ w.tail = 0
      /\ \A k \in Keys : \A x \in Nodes(w, k) : x.length = DataLen(v)
    BY FirstWrite
<1> HIDE DEF w
<1>3. Following(0) # 0
    <2>1. SECTIONS \in Nat /\ SECTIONS >= 3 /\ 0 \in Sections
        BY LogAssumption, StoreAssumption DEF Sections
    <2> QED BY <2>1, FollowingIs
<1>4. Tidy(w)
    BY <1>2, <1>3 DEF Tidy
<1>5. Tidy(WrittenThrough(w))
    BY <1>2, <1>4, WrittenThroughTidy
<1>6. Live(WrittenThrough(w))
    <2>1. RoomFor(w, PAGE - (w.avail % PAGE))
        BY <1>2, <1>4, RoomForAll
    <2> QED BY <1>2, <2>1, WriteThroughChangesNothing
<1> QED BY <1>1, <1>5, <1>6, SettledTidy DEF w

\* With that much room, no operation finds its collection late.
LEMMA TidyCollectsInTime ==
    ASSUME NEW n, Roomy(n), Live(fs), Tidy(fs)
    PROVE  CollectsInTime
<1>1. \A k \in Keys, v \in Values : RoomFor(Unlisted(fs, k), RecordLen(DataLen(v)))
    BY UnlistedTidy, RoomForAll
<1>2. \A c : RoomFor(fs, c)
    BY RoomForAll
<1> QED BY <1>1, <1>2 DEF CollectsInTime

\* The operations that end leave it so.
LEMMA OperationTidy ==
    ASSUME NEW n, Roomy(n), Live(fs), Tidy(fs), FsNext, losses = 0, losses' = 0
    PROVE  Tidy(fs')
<1>1. CollectsInTime
    BY TidyCollectsInTime
<1>2. ASSUME NEW m, Done(m), Live(m), Tidy(m)
      PROVE  Tidy(fs')
    BY <1>2, SettledTidy DEF Done
<1>3. ASSUME NEW k \in Keys, NEW v \in Values, tinyfs_write(k, v)
      PROVE  Tidy(fs')
    <2>1. RoomFor(Unlisted(fs, k), RecordLen(DataLen(v))) /\ Done(Written(fs, k, v))
        BY <1>1, <1>3 DEF tinyfs_write, CanChange, CollectsInTime
    <2>2. Live(Written(fs, k, v)) /\ Tidy(Written(fs, k, v))
        BY <2>1, WriteIsChange, WrittenTidy
    <2> QED BY <1>2, <2>1, <2>2
<1>4. ASSUME NEW k \in Keys, tinyfs_del_record(k)
      PROVE  Tidy(fs')
    <2>1. RoomFor(fs, RemovalLen) /\ Nodes(fs, k) # {} /\ Done(Deleted(fs, k))
        BY <1>1, <1>4 DEF tinyfs_del_record, CanChange, CollectsInTime
    <2>2. Live(Deleted(fs, k)) /\ Tidy(Deleted(fs, k))
        BY <2>1, DeletionIsChange, DeletedTidy
    <2> QED BY <1>2, <2>1, <2>2
<1>5. ASSUME tinyfs_write_through
      PROVE  Tidy(fs')
    <2>1. Done(WrittenThrough(fs))
        BY <1>5 DEF tinyfs_write_through
    <2>2. Live(WrittenThrough(fs)) /\ Tidy(WrittenThrough(fs))
        BY <1>1, WriteThroughChangesNothing, WrittenThroughTidy DEF CollectsInTime
    <2> QED BY <1>2, <2>1, <2>2
<1>6. ~LossOfPower
    BY DEF LossOfPower, CutOff
<1> QED BY <1>3, <1>4, <1>5, <1>6 DEF FsNext

\* In a store whose records, each at its longest, fit in one section with room to spare
\* every collection starts in time (tinyfs.c:1009-1024) as long as the power stays on,
\* and the tail never erases a section with live nodes (877).
THEOREM RoomyStoreStaysUp ==
    ASSUME NEW n, Roomy(n)
    PROVE  FsSpec /\ [](losses = 0) => []StaysUp /\ []CollectsInTime
<1> DEFINE Sound == StaysUp /\ Live(fs) /\ store = StoreOf(fs) /\ Tidy(fs)
<1>1. FsInit => Sound
    BY StartsSound, StartsTidy
<1>2. Sound => CollectsInTime
    BY TidyCollectsInTime
<1>3. Sound /\ losses = 0 /\ (losses = 0)' /\ [FsNext]_fsVars => Sound'
    <2>1. CASE FsNext
        <3> SUFFICES ASSUME Sound, losses = 0, losses' = 0 PROVE Sound'
            BY <2>1
        <3>1. SoundStore
            BY <1>2 DEF SoundStore
        <3>2. StaysUp' /\ Live(fs') /\ store' = StoreOf(fs')
            BY <2>1, <3>1, OperationIs
        <3>3. Tidy(fs')
            BY <2>1, OperationTidy
        <3> QED BY <3>2, <3>3
    <2>2. CASE UNCHANGED fsVars
        <3>1. fs' = fs /\ store' = store
            BY <2>2 DEF fsVars
        <3> QED BY <3>1 DEF StaysUp
    <2> QED BY <2>1, <2>2
<1>4. Sound => StaysUp
    OBVIOUS
<1> HIDE DEF Sound
<1> QED BY <1>1, <1>2, <1>3, <1>4, PTL DEF FsSpec

\* So such a store needs nothing else to be its abstract self: what is read is what was
\* written last, and between two operations the log is ready for the next one.
THEOREM RoomyStoreImplementsRecords ==
    ASSUME NEW n, Roomy(n)
    PROVE  FsSpec /\ [](losses = 0) => ImplementsRecords /\ []SoundStore
<1>1. FsSpec /\ [](losses = 0) => []CollectsInTime
    BY RoomyStoreStaysUp, PTL
<1> QED BY <1>1, OperationsImplementRecords, PTL

--------------------------------------------------------------------------------
(* Where a start begins.                                                    *)

\* How many sections s is behind t.
Back(t, s) == IF s <= t THEN t - s ELSE t + SECTIONS - s

HeadCells == {"head"} \X Nat \X (Nat \ {0})

\* The valid sections of f are n of the ring, the last of them t with loop count c, and
\* their loop counts go up by one.
Rising(f, t, c, n) ==
    \A s \in Sections :
        IF Back(t, s) < n THEN f[s][1] \in HeadCells /\ Count(f, s) = c - Back(t, s)
        ELSE f[s][1] = Erased

\* A head is not blank.
LEMMA HeadIsCell ==
    ASSUME NEW x \in HeadCells
    PROVE  x # Erased
<1>1. x \in {"head"} \X Nat \X (Nat \ {0})
    BY DEF HeadCells
<1>2. Len(x) = 3
    BY <1>1
<1>3. Len(<<>>) = 0
    OBVIOUS
<1> QED BY <1>2, <1>3 DEF Erased

\* A remainder, and that of a number a whole modulus on.
LEMMA Remainder ==
    ASSUME NEW p \in Nat \ {0}, NEW x \in 0 .. p - 1
    PROVE  x % p = x /\ (x + p) % p = x
<1>1. ASSUME NEW y \in Nat, NEW e \in {0, 1}, y = x + p * e PROVE y % p = x
    <2> DEFINE q == y \div p
               r == y % p
    <2>1. q \in Int /\ y = p * q + r /\ r \in 0 .. p - 1
        OBVIOUS
    <2> HIDE DEF q, r
    <2>2. e - q \in Int /\ p * (e - q) = r - x
        BY <1>1, <2>1
    <2>3. p * (e - q) = 0
        BY <2>1, <2>2, NoMultiple
    <2> QED BY <2>1, <2>2, <2>3 DEF r
<1>2. x \in Nat /\ x = x + p * 0 /\ x + p \in Nat /\ x + p = x + p * 1
    OBVIOUS
<1> QED BY <1>1, <1>2

\* The section d after s.
LEMMA PlaceAfter ==
    ASSUME NEW s \in Sections, NEW d \in 1 .. SECTIONS
    PROVE  /\ (s + d) % SECTIONS = IF s + d < SECTIONS THEN s + d ELSE s + d - SECTIONS
           /\ (s + d) % SECTIONS \in Sections
<1>1. SECTIONS \in Nat \ {0} /\ s \in 0 .. SECTIONS - 1
    BY LogAssumption DEF Sections
<1>2. CASE s + d < SECTIONS
    <2>1. s + d \in 0 .. SECTIONS - 1
        BY <1>1, <1>2
    <2>2. (s + d) % SECTIONS = s + d
        BY <1>1, <2>1, Remainder
    <2> QED BY <1>2, <2>1, <2>2 DEF Sections
<1>3. CASE ~(s + d < SECTIONS)
    <2> DEFINE x == s + d - SECTIONS
    <2>1. x \in 0 .. SECTIONS - 1 /\ s + d = x + SECTIONS
        BY <1>1, <1>3
    <2> HIDE DEF x
    <2>2. (x + SECTIONS) % SECTIONS = x
        BY <1>1, <2>1, Remainder
    <2> QED BY <1>3, <2>1, <2>2 DEF Sections, x
<1> QED BY <1>2, <1>3

\* Distances round the ring.
LEMMA BackIs ==
    ASSUME NEW t \in Sections, NEW s \in Sections
    PROVE  /\ Back(t, s) \in 0 .. SECTIONS - 1
           /\ Back(t, s) = 0 <=> s = t
           /\ \A u \in Sections : Back(t, s) = Back(t, u) => s = u
           /\ s # t => Back(t, Following(s)) = Back(t, s) - 1
           /\ Back(Following(t), s) = IF s = Following(t) THEN 0 ELSE Back(t, s) + 1
           /\ Back(t, Following(t)) = SECTIONS - 1
           /\ \A d \in 1 .. SECTIONS : Back(t, (t + d) % SECTIONS) = SECTIONS - d
<1>1. /\ SECTIONS \in Nat /\ SECTIONS >= 3
      /\ s \in 0 .. SECTIONS - 1 /\ t \in 0 .. SECTIONS - 1
    BY LogAssumption, StoreAssumption DEF Sections
<1>2. /\ Following(s) = IF s + 1 = SECTIONS THEN 0 ELSE s + 1
      /\ Following(t) = IF t + 1 = SECTIONS THEN 0 ELSE t + 1
    BY FollowingIs
<1>3. Back(t, s) \in 0 .. SECTIONS - 1 /\ (Back(t, s) = 0 <=> s = t)
    BY <1>1 DEF Back
<1>4. ASSUME NEW u \in Sections, Back(t, s) = Back(t, u) PROVE s = u
    <2>1. u \in 0 .. SECTIONS - 1
        BY DEF Sections
    <2> QED BY <1>1, <1>4, <2>1 DEF Back
<1>5. s # t => Back(t, Following(s)) = Back(t, s) - 1
    BY <1>1, <1>2 DEF Back
<1>6. Back(Following(t), s) = IF s = Following(t) THEN 0 ELSE Back(t, s) + 1
    BY <1>1, <1>2 DEF Back
<1>7. Back(t, Following(t)) = SECTIONS - 1
    BY <1>1, <1>2 DEF Back
<1>8. ASSUME NEW d \in 1 .. SECTIONS PROVE Back(t, (t + d) % SECTIONS) = SECTIONS - d
    <2>1. (t + d) % SECTIONS = IF t + d < SECTIONS THEN t + d ELSE t + d - SECTIONS
        BY PlaceAfter
    <2> QED BY <1>1, <2>1 DEF Back
<1> QED BY <1>3, <1>4, <1>5, <1>6, <1>7, <1>8

\* The first section after s that is in T.
LEMMA FirstIs ==
    ASSUME NEW s \in Sections, NEW T \in SUBSET Sections, T # {}
    PROVE  \E d \in 1 .. SECTIONS :
              /\ FirstAfter(s, T) = (s + d) % SECTIONS
              /\ FirstAfter(s, T) \in T
              /\ \A e \in 1 .. d - 1 : (s + e) % SECTIONS \notin T
<1> DEFINE P(d) == /\ (s + d) % SECTIONS \in T
                   /\ \A e \in 1 .. d - 1 : (s + e) % SECTIONS \notin T
           D == {d \in 1 .. SECTIONS : (s + d) % SECTIONS \in T}
<1>1. SECTIONS \in Nat \ {0} /\ s \in 0 .. SECTIONS - 1
    BY LogAssumption DEF Sections
<1>2. D # {}
    <2>1. PICK x \in T : TRUE
        OBVIOUS
    <2>2. x \in 0 .. SECTIONS - 1
        BY DEF Sections
    <2> DEFINE d == IF x > s THEN x - s ELSE x - s + SECTIONS
    <2>3. d \in 1 .. SECTIONS /\ x = IF s + d < SECTIONS THEN s + d ELSE s + d - SECTIONS
        BY <1>1, <2>2
    <2> HIDE DEF d
    <2>4. (s + d) % SECTIONS = x
        BY <2>3, PlaceAfter
    <2> QED BY <2>3, <2>4
<1>3. D \in SUBSET Nat
    BY <1>1
<1>4. PICK d \in D : \A e \in D : d <= e
    BY <1>2, <1>3, Least
<1>5. d \in 1 .. SECTIONS /\ P(d)
    <2>1. ASSUME NEW e \in 1 .. d - 1 PROVE (s + e) % SECTIONS \notin T
        <3>1. e \in 1 .. SECTIONS /\ ~(d <= e)
            BY <1>1
        <3> QED BY <1>4, <3>1
    <2> QED BY <2>1
<1> DEFINE d0 == CHOOSE i \in 1 .. SECTIONS : P(i)
<1>6. d0 \in 1 .. SECTIONS /\ P(d0)
    <2> HIDE DEF P
    <2> QED BY <1>5
<1>7. FirstAfter(s, T) = (s + d0) % SECTIONS
    BY DEF FirstAfter
<1> HIDE DEF d0
<1> QED BY <1>6, <1>7

\* The section behind, if it is one of them.
LEMMA FirstIsNext ==
    ASSUME NEW s \in Sections, NEW T \in SUBSET Sections, Following(s) \in T
    PROVE  FirstAfter(s, T) = Following(s)
<1>1. PICK d \in 1 .. SECTIONS : /\ FirstAfter(s, T) = (s + d) % SECTIONS
                                 /\ \A e \in 1 .. d - 1 : (s + e) % SECTIONS \notin T
    BY FirstIs
<1>2. Following(s) = (s + 1) % SECTIONS
    BY DEF Following
<1>3. d = 1
    <2> SUFFICES ASSUME d # 1 PROVE FALSE
        OBVIOUS
    <2>1. 1 \in 1 .. d - 1
        BY LogAssumption
    <2> QED BY <1>1, <1>2, <2>1
<1> QED BY <1>1, <1>2, <1>3

\* From the last of n sections round the ring to the first.
LEMMA FirstIsOldest ==
    ASSUME NEW t \in Sections, NEW n \in 1 .. SECTIONS
    PROVE  LET h == FirstAfter(t, {s \in Sections : Back(t, s) < n})
           IN h \in Sections /\ Back(t, h) = n - 1
<1> DEFINE T == {s \in Sections : Back(t, s) < n}
           h == FirstAfter(t, T)
<1>1. t \in T
    BY BackIs
<1>2. PICK d \in 1 .. SECTIONS : /\ h = (t + d) % SECTIONS /\ h \in T
                                 /\ \A e \in 1 .. d - 1 : (t + e) % SECTIONS \notin T
    BY <1>1, FirstIs
<1>3. Back(t, h) = SECTIONS - d
    BY <1>2, BackIs
<1>4. h \in Sections /\ Back(t, h) < n
    BY <1>2
<1> HIDE DEF h
<1>5. SECTIONS \in Nat
    BY LogAssumption
<1>6. ~(d > SECTIONS - (n - 1))
    <2> SUFFICES ASSUME d > SECTIONS - (n - 1) PROVE FALSE
        OBVIOUS
    <2> DEFINE e == SECTIONS - (n - 1)
    <2>1. e \in 1 .. d - 1 /\ e \in 1 .. SECTIONS /\ SECTIONS - e = n - 1 /\ n - 1 < n
        BY <1>5
    <2> HIDE DEF e
    <2>2. (t + e) % SECTIONS \in Sections /\ Back(t, (t + e) % SECTIONS) < n
        BY <2>1, PlaceAfter, BackIs
    <2> QED BY <1>2, <2>1, <2>2
<1> QED BY <1>3, <1>4, <1>5, <1>6 DEF h

\* The search for head and tail finds both, as long as the loop counts have not come
\* round.
LEMMA FindsEnds ==
    ASSUME NEW f, NEW t \in Sections, NEW c \in Nat, NEW n \in 1 .. SECTIONS,
           Rising(f, t, c, n), 2 * SECTIONS <= LOOPS
    PROVE  \E h \in Sections : Back(t, h) = n - 1 /\ HeadAndTail(f) = <<h, t>>
<1> DEFINE V == ValidSections(f)
           Next1(s) == FirstAfter(s, V)
           GoesOn(s) == Count(f, s) + 1 = Count(f, Next1(s))
           h == Next1(t)
           first == Min(V)
           prev == IF GoesOn(first) THEN FirstAfter(first, {s \in V : ~GoesOn(s)}) ELSE first
           curr == Next1(prev)
<1>1. SECTIONS \in Nat /\ SECTIONS >= 3 /\ LOOPS \in Nat \ {0} /\ n \in Nat
    BY LogAssumption, StoreAssumption
<1>2. V = {s \in Sections : Back(t, s) < n}
    <2>1. ASSUME NEW s \in Sections PROVE f[s][1] # Erased <=> Back(t, s) < n
        <3>1. \A x \in HeadCells : x # Erased
            BY DEF HeadCells, Erased
        <3> QED BY <3>1 DEF Rising
    <2> QED BY <2>1 DEF ValidSections
<1>3. t \in V /\ V \in SUBSET Sections
    BY <1>1, <1>2, BackIs
<1>4. \A s \in V : Back(t, s) \in 0 .. n - 1 /\ Count(f, s) = c - Back(t, s)
    BY <1>1, <1>2, BackIs DEF Rising
<1>5. h \in V /\ Back(t, h) = n - 1
    BY <1>1, <1>2, FirstIsOldest
<1> HIDE DEF V
<1>6. ASSUME NEW s \in V, s # t PROVE GoesOn(s)
    <2>1. s \in Sections /\ Back(t, s) # 0
        BY <1>3, <1>6, BackIs
    <2>2. Back(t, Following(s)) = Back(t, s) - 1 /\ Following(s) \in Sections
        BY <1>6, <2>1, BackIs, NextSection
    <2>3. Following(s) \in V
        BY <1>1, <1>2, <1>4, <2>1, <2>2
    <2>4. Next1(s) = Following(s)
        BY <1>3, <2>1, <2>3, FirstIsNext
    <2> QED BY <1>1, <1>4, <2>1, <2>2, <2>3, <2>4
<1>7. ~GoesOn(t)
    <2>1. Count(f, t) = c /\ Count(f, h) = c - (n - 1)
        BY <1>1, <1>3, <1>4, <1>5, BackIs
    <2> QED BY <1>1, <2>1
<1>8. first \in V
    <2>1. V \in SUBSET Nat /\ V # {}
        BY <1>3 DEF Sections
    <2>2. \E x \in V : \A y \in V : x <= y
        BY <2>1, Least
    <2> QED BY <2>2 DEF Min
<1> HIDE DEF first
<1>9. prev = t
    <2>1. CASE first = t
        BY <1>7, <2>1
    <2>2. CASE first # t
        <3>1. {s \in V : ~GoesOn(s)} = {t}
            BY <1>3, <1>6, <1>7
        <3>2. FirstAfter(first, {t}) \in {t}
            BY <1>3, <1>8, FirstIs
        <3> QED BY <1>6, <1>8, <2>2, <3>1, <3>2
    <2> QED BY <2>1, <2>2
<1> HIDE DEF prev
<1>10. curr = h
    BY <1>9
<1>11. Count(f, prev) - Count(f, curr) = n - 1
    BY <1>1, <1>3, <1>4, <1>5, <1>9, <1>10, BackIs
<1>12. Signed(n - 1) = n - 1
    <2> DEFINE x == (n - 1) + (LOOPS \div 2)
    <2>1. LOOPS \div 2 \in Nat /\ 2 * (LOOPS \div 2) <= LOOPS /\ LOOPS <= 2 * (LOOPS \div 2) + 1
        BY <1>1
    <2>2. x \in 0 .. LOOPS - 1
        BY <1>1, <2>1
    <2>3. Signed(n - 1) = ((x + LOOPS) % LOOPS) - (LOOPS \div 2)
        BY DEF Signed
    <2> HIDE DEF x
    <2>4. (x + LOOPS) % LOOPS = x
        BY <1>1, <2>2, Remainder
    <2> QED BY <1>1, <2>1, <2>3, <2>4 DEF x
<1>13. HeadAndTail(f) = IF Signed(Count(f, prev) - Count(f, curr)) > 0
                        THEN <<curr, prev>> ELSE <<prev, curr>>
    BY DEF HeadAndTail, V, first, prev
<1> HIDE DEF curr, h
<1>14. HeadAndTail(f) = <<h, t>>
    <2>1. CASE n = 1
        <3>1. h = t
            BY <1>1, <1>3, <1>5, <2>1, BackIs
        <3> QED BY <1>9, <1>10, <1>11, <1>12, <1>13, <2>1, <3>1
    <2>2. CASE n > 1
        BY <1>1, <1>9, <1>10, <1>11, <1>12, <1>13, <2>2
    <2> QED BY <1>1, <2>1, <2>2
<1>15. h \in Sections
    BY <1>3, <1>5
<1> QED BY <1>5, <1>14, <1>15

--------------------------------------------------------------------------------
(* The order of the loop counts, from one cell to the next.                 *)

\* Nodes and cells of records that fit into a section.
SizedNode == {x \in Node : HEAD + RecordLen(x.length) <= SECTION}
RecordCell == {c \in Kinds \X Keys \X Nat \X Nat :
                  c[1] = "add" => HEAD + RecordLen(c[3]) <= SECTION}
SoundCell == {Erased} \cup HeadCells \cup RecordCell
SoundLogs == Logs(SoundCell, Seq(SizedNode))

\* What a start can read: the loop counts of the valid sections go up by one.
Chained(f) ==
    /\ f \in Flashes(SoundCell)
    /\ \E t \in Sections, c \in 0 .. LOOPS - 1, n \in 0 .. SECTIONS : Rising(f, t, c, n)

\* So they do up to the tail t with count c; but as long as the cache stands for the
\* tail's first page, its head is there, and the section before is the last.
Rises(f, t, c, from, b) ==
    IF from = 0
    THEN /\ b # <<>> /\ b[1] \in HeadCells /\ b[1][2] = c
         /\ \E n \in 0 .. SECTIONS - 1 : Rising(f, Preceding(t), c - 1, n)
    ELSE \E n \in 0 .. SECTIONS : Rising(f, t, c, n)

\* The cache stands for a page, and that is so of every content of the flash.
Ranged(m) ==
    /\ m \in SoundLogs
    /\ Len(m.buf) < PAGE /\ Len(m.buf) <= m.avail /\ From(m) % PAGE = 0
    /\ m.flash \in m.images /\ \A f \in m.images : Chained(f)
    /\ Rises(m.flash, m.tail, m.count, From(m), m.buf)

\* The fields of such a log.
LEMMA SoundFields ==
    ASSUME NEW m, m \in SoundLogs
    PROVE  /\ m.flash \in Flashes(SoundCell) /\ m.tail \in Sections /\ m.head \in Sections
           /\ m.buf \in Seq(SoundCell) /\ Len(m.buf) \in Nat
           /\ m.avail \in 0 .. SECTION /\ m.avail \in Nat /\ m.count \in 0 .. LOOPS - 1
           /\ m.list \in [Sections -> Seq(SizedNode)] /\ m.images \in SUBSET Flashes(SoundCell)
           /\ m.ok \in BOOLEAN /\ m.gc \in Sections \cup {INVALID}
           /\ SECTION \in Nat \ {0} /\ PAGE \in Nat \ {0} /\ LOOPS \in Nat \ {0}
           /\ SECTION % PAGE = 0
BY LogAssumption DEF SoundLogs, Logs

\* Round the ring and back.
LEMMA PrecedingBack ==
    ASSUME NEW t \in Sections
    PROVE  Preceding(t) \in Sections /\ Following(Preceding(t)) = t
<1>1. /\ Preceding(t) = IF t = 0 THEN SECTIONS - 1 ELSE t - 1
      /\ SECTIONS \in Nat /\ SECTIONS >= 3 /\ t \in 0 .. SECTIONS - 1
    BY PrecedingIs, LogAssumption, StoreAssumption DEF Sections
<1>2. Preceding(t) \in Sections
    BY <1>1 DEF Sections
<1>3. Following(Preceding(t)) = IF Preceding(t) + 1 = SECTIONS THEN 0 ELSE Preceding(t) + 1
    BY <1>2, FollowingIs
<1> QED BY <1>1, <1>2, <1>3

\* The first cells of the cache on their page.
LEMMA ProgramIs ==
    ASSUME NEW f \in Flashes(SoundCell), NEW t \in Sections, NEW c \in Nat,
           NEW from \in Nat, NEW b \in Seq(SoundCell), NEW k \in 1 .. Len(b),
           Rises(f, t, c, from, b)
    PROVE  LET g == Overlaid(f, t, from, SubSeq(b, 1, k)) IN
           g \in Flashes(SoundCell) /\ \E n \in 0 .. SECTIONS : Rising(g, t, c, n)
<1> DEFINE g == Overlaid(f, t, from, SubSeq(b, 1, k))
<1>1. /\ g \in Flashes(SoundCell)
      /\ \A s \in Sections, i \in 1 .. SECTION :
            g[s][i] = IF s = t /\ i \in from + 1 .. from + k THEN b[i - from] ELSE f[s][i]
    <2>1. Overlays(g, SoundCell, f, t, from, b, k)
        BY OverlaidBeginning, Zenon
    <2> QED BY <2>1, Zenon DEF Overlays
<1> HIDE DEF g
<1>2. 1 \in 1 .. SECTION /\ SECTIONS \in Nat /\ SECTIONS >= 3 /\ k \in Nat \ {0}
    BY LogAssumption, StoreAssumption
<1>3. CASE from = 0
    <2>1. 1 \in from + 1 .. from + k /\ 1 - from = 1
        BY <1>2, <1>3
    <2>2. \A s \in Sections : g[s][1] = IF s = t THEN b[1] ELSE f[s][1]
        BY <1>1, <1>2, <2>1
    <2>3. b[1] \in HeadCells /\ b[1][2] = c
        BY <1>3 DEF Rises
    <2>4. PICK n \in 0 .. SECTIONS - 1 : Rising(f, Preceding(t), c - 1, n)
        BY <1>3 DEF Rises
    <2>5. n + 1 \in 0 .. SECTIONS /\ n \in Nat
        BY <1>2
    <2>6. ASSUME NEW s \in Sections
          PROVE  IF Back(t, s) < n + 1 THEN g[s][1] \in HeadCells /\ Count(g, s) = c - Back(t, s)
                 ELSE g[s][1] = Erased
        <3>1. Preceding(t) \in Sections /\ Following(Preceding(t)) = t
            BY PrecedingBack
        <3>2. Back(t, s) = IF s = t THEN 0 ELSE Back(Preceding(t), s) + 1
            BY <3>1, BackIs
        <3>3. Back(Preceding(t), s) \in 0 .. SECTIONS - 1
            BY <3>1, BackIs
        <3>4. CASE s = t
            BY <2>2, <2>3, <2>5, <3>2, <3>4 DEF Count
        <3>5. CASE s # t
            <4>1. g[s][1] = f[s][1] /\ Count(g, s) = Count(f, s)
                BY <2>2, <3>5 DEF Count
            <4>2. IF Back(Preceding(t), s) < n
                  THEN f[s][1] \in HeadCells /\ Count(f, s) = (c - 1) - Back(Preceding(t), s)
                  ELSE f[s][1] = Erased
                BY <2>4 DEF Rising
            <4>3. Back(t, s) < n + 1 <=> Back(Preceding(t), s) < n
                BY <2>5, <3>2, <3>3, <3>5
            <4>4. (c - 1) - Back(Preceding(t), s) = c - Back(t, s)
                BY <3>2, <3>3, <3>5
            <4> QED BY <4>1, <4>2, <4>3, <4>4
        <3> QED BY <3>4, <3>5
    <2>7. Rising(g, t, c, n + 1)
        BY <2>6 DEF Rising
    <2> QED BY <1>1, <2>5, <2>7 DEF g
<1>4. CASE from # 0
    <2>1. PICK n \in 0 .. SECTIONS : Rising(f, t, c, n)
        BY <1>4 DEF Rises
    <2>2. 1 \notin from + 1 .. from + k
        BY <1>2, <1>4
    <2>3. \A s \in Sections : g[s][1] = f[s][1]
        BY <1>1, <1>2, <2>2
    <2>4. Rising(g, t, c, n)
        BY <2>1, <2>3 DEF Rising, Count
    <2> QED BY <1>1, <2>4 DEF g
<1> QED BY <1>3, <1>4

\* n is m with its cache written to its page.
Flushed(m, n) ==
    /\ n \in SoundLogs /\ n.buf = <<>>
    /\ n.avail = m.avail /\ n.tail = m.tail /\ n.head = m.head /\ n.gc = m.gc
    /\ n.list = m.list /\ n.count = m.count
    /\ n.flash \in n.images /\ \A f \in n.images : Chained(f)
    /\ \E k \in 0 .. SECTIONS : Rising(n.flash, n.tail, n.count, k)

\* What the cache holds reaches its page, and a program cut off leaves a start's order.
LEMMA FlushIs ==
    ASSUME NEW m, m \in SoundLogs, \A f \in m.images : Chained(f),
           m.buf # <<>>, Len(m.buf) <= m.avail,
           Rises(m.flash, m.tail, m.count, From(m), m.buf)
    PROVE  Flushed(m, Flush(m, From(m)))
<1> DEFINE P(k) == Overlaid(m.flash, m.tail, From(m), SubSeq(m.buf, 1, k))
           N == Len(m.buf)
           F == {P(k) : k \in 1 .. N}
           n == Flush(m, From(m))
<1>1. /\ m.flash \in Flashes(SoundCell) /\ m.tail \in Sections /\ m.buf \in Seq(SoundCell)
      /\ N \in Nat /\ m.count \in Nat /\ m.count \in 0 .. LOOPS - 1 /\ m.avail \in Nat
      /\ m.images \in SUBSET Flashes(SoundCell)
    BY SoundFields
<1>2. N \in 1 .. N /\ From(m) \in Nat
    BY <1>1 DEF From
<1>3. ASSUME NEW k \in 1 .. N
      PROVE  P(k) \in Flashes(SoundCell) /\ \E j \in 0 .. SECTIONS : Rising(P(k), m.tail, m.count, j)
    <2> DEFINE from == From(m)
               b == m.buf
               f == m.flash
               t == m.tail
               c == m.count
    <2>1. /\ f \in Flashes(SoundCell) /\ t \in Sections /\ c \in Nat /\ from \in Nat
          /\ b \in Seq(SoundCell) /\ k \in 1 .. Len(b) /\ Rises(f, t, c, from, b)
        BY <1>1, <1>2
    <2>2. P(k) = Overlaid(f, t, from, SubSeq(b, 1, k))
        OBVIOUS
    <2> HIDE DEF P, from, b, f, t, c
    <2>3. P(k) \in Flashes(SoundCell) /\ \E j \in 0 .. SECTIONS : Rising(P(k), t, c, j)
        BY <2>1, <2>2, ProgramIs
    <2> QED BY <2>3 DEF t, c
<1>4. \A k \in 1 .. N : Chained(P(k))
    BY <1>1, <1>3 DEF Chained
<1>5. n = [m EXCEPT !.flash = P(N), !.buf = <<>>, !.images = m.images \cup F]
    BY DEF Flush, SoundLogs, Logs
<1>6. P(N) \in F /\ P(N) \in Flashes(SoundCell) /\ F \subseteq Flashes(SoundCell)
    BY <1>2, <1>3
<1>7. \A f \in F : Chained(f)
    BY <1>4
<1>8. \E j \in 0 .. SECTIONS : Rising(P(N), m.tail, m.count, j)
    BY <1>2, <1>3
<1> HIDE DEF n, P, F, N
<1>9. /\ n \in SoundLogs /\ n.buf = <<>> /\ n.flash = P(N) /\ n.images = m.images \cup F
      /\ n.avail = m.avail /\ n.tail = m.tail /\ n.head = m.head /\ n.gc = m.gc
      /\ n.list = m.list /\ n.count = m.count
    <2> DEFINE x == P(N)
               im == m.images \cup F
    <2>1. /\ x \in Flashes(SoundCell) /\ im \in SUBSET Flashes(SoundCell) /\ <<>> \in Seq(SoundCell)
          /\ n = [m EXCEPT !.flash = x, !.buf = <<>>, !.images = im]
        BY <1>1, <1>5, <1>6
    <2> HIDE DEF x, im
    <2>2. /\ n \in SoundLogs /\ n.buf = <<>> /\ n.flash = x /\ n.images = im
          /\ n.avail = m.avail /\ n.tail = m.tail /\ n.head = m.head /\ n.gc = m.gc
          /\ n.list = m.list /\ n.count = m.count
        BY <2>1 DEF SoundLogs, Logs
    <2> QED BY <2>2 DEF x, im
<1>10. Flushed(m, n)
    BY <1>6, <1>7, <1>8, <1>9 DEF Flushed
<1> QED BY <1>10 DEF n

\* n is m with one cell more.
PutOn(m, n) ==
    /\ Ranged(n) /\ n.avail = m.avail + 1
    /\ n.tail = m.tail /\ n.count = m.count /\ n.gc = m.gc /\ n.list = m.list

\* A cell goes to the end of the log; the head of the tail is the first there.
LEMMA PutIs ==
    ASSUME NEW m, m \in SoundLogs, m.avail < SECTION, NEW c \in SoundCell,
           Len(m.buf) < PAGE, Len(m.buf) <= m.avail, From(m) % PAGE = 0,
           m.flash \in m.images, \A f \in m.images : Chained(f),
           Rises(m.flash, m.tail, m.count, From(m), Append(m.buf, c))
    PROVE  PutOn(m, PutCell(m, c))
<1> DEFINE b == Append(m.buf, c)
           p == [m EXCEPT !.buf = b, !.avail = m.avail + 1]
           n == PutCell(m, c)
<1>1. /\ m.buf \in Seq(SoundCell) /\ Len(m.buf) \in Nat /\ m.avail \in Nat /\ m.avail \in 0 .. SECTION
      /\ PAGE \in Nat \ {0} /\ SECTION \in Nat \ {0}
    BY SoundFields
<1>2. b \in Seq(SoundCell) /\ Len(b) = Len(m.buf) + 1 /\ b # <<>>
    BY <1>1
<1>3. n = IF Len(p.buf) = PAGE THEN Flush(p, p.avail - PAGE) ELSE p
    BY DEF PutCell, SoundLogs, Logs
<1> HIDE DEF b
<1>4. /\ p \in SoundLogs /\ p.buf = b /\ p.avail = m.avail + 1 /\ p.tail = m.tail
      /\ p.count = m.count /\ p.gc = m.gc /\ p.list = m.list /\ p.flash = m.flash
      /\ p.images = m.images
    <2>1. m.avail + 1 \in 0 .. SECTION
        BY <1>1
    <2> QED BY <1>2, <2>1 DEF SoundLogs, Logs
<1> HIDE DEF p, n
<1>5. From(p) = From(m) /\ From(m) \in Nat /\ From(m) = m.avail - Len(m.buf)
    BY <1>1, <1>2, <1>4 DEF From
<1>6. Rises(p.flash, p.tail, p.count, From(p), p.buf)
    BY <1>4, <1>5 DEF b
<1>7. CASE Len(b) = PAGE
    <2>1. p.avail - PAGE = From(p)
        BY <1>4, <1>7 DEF From
    <2>2. n = Flush(p, From(p))
        BY <1>3, <1>4, <1>7, <2>1
    <2>3. Len(p.buf) <= p.avail
        BY <1>1, <1>2, <1>4
    <2>4. Flushed(p, n)
        BY <1>2, <1>4, <1>6, <2>2, <2>3, FlushIs
    <2>5. Len(n.buf) = 0 /\ From(n) = From(m) + PAGE
        BY <1>1, <1>2, <1>4, <1>5, <1>7, <2>4 DEF Flushed, From
    <2>6. From(n) % PAGE = 0 /\ From(n) # 0
        <3> DEFINE a == From(m)
        <3>1. a \in Nat /\ a % PAGE = 0 /\ From(n) = a + PAGE
            BY <1>5, <2>5
        <3> HIDE DEF a
        <3>2. (a + PAGE) % PAGE = 0
            BY <1>1, <3>1, Multiple
        <3>3. From(n) % PAGE = 0
            BY <3>1, <3>2, Zenon
        <3>4. From(n) # 0
            BY <1>1, <3>1
        <3> QED BY <3>3, <3>4
    <2>7. Rises(n.flash, n.tail, n.count, From(n), n.buf)
        BY <2>4, <2>6 DEF Flushed, Rises
    <2>8. n.avail \in Nat
        BY <1>1, <1>4, <2>4 DEF Flushed
    <2>9. Ranged(n)
        BY <1>1, <2>4, <2>5, <2>6, <2>7, <2>8 DEF Flushed, Ranged
    <2> QED BY <1>4, <2>4, <2>9 DEF Flushed, PutOn, n
<1>8. CASE Len(b) # PAGE
    <2>1. n = p
        BY <1>3, <1>4, <1>8
    <2>2. Len(p.buf) < PAGE /\ Len(p.buf) <= p.avail
        BY <1>1, <1>2, <1>4, <1>8
    <2>3. Ranged(p)
        BY <1>4, <1>5, <1>6, <2>2 DEF Ranged
    <2> QED BY <1>4, <2>1, <2>3 DEF PutOn, n
<1> QED BY <1>7, <1>8

\* A cell more goes behind what is there.
LEMMA RangedPut ==
    ASSUME NEW m, Ranged(m), m.avail < SECTION, NEW c \in SoundCell
    PROVE  PutOn(m, PutCell(m, c))
<1>1. /\ m \in SoundLogs /\ Len(m.buf) < PAGE /\ Len(m.buf) <= m.avail /\ From(m) % PAGE = 0
      /\ m.flash \in m.images /\ \A f \in m.images : Chained(f)
      /\ Rises(m.flash, m.tail, m.count, From(m), m.buf)
    BY DEF Ranged
<1>2. m.buf \in Seq(SoundCell)
    BY <1>1, SoundFields
<1>3. Rises(m.flash, m.tail, m.count, From(m), Append(m.buf, c))
    <2>1. m.buf # <<>> => Append(m.buf, c) # <<>> /\ Append(m.buf, c)[1] = m.buf[1]
        BY <1>2
    <2> QED BY <1>1, <2>1 DEF Rises
<1> QED BY <1>1, <1>3, PutIs

\* An erased section.
LEMMA ErasedIs ==
    ASSUME NEW Cell, Erased \in Cell, NEW f \in Flashes(Cell), NEW t \in Sections
    PROVE  LET e == Overlaid(f, t, 0, BlankSection) IN
           /\ e \in Flashes(Cell)
           /\ \A s \in Sections, i \in 1 .. SECTION : e[s][i] = IF s = t THEN Erased ELSE f[s][i]
<1> DEFINE b == BlankSection
           e == Overlaid(f, t, 0, b)
<1>1. SECTION \in Nat \ {0}
    BY LogAssumption
<1>2. b \in Seq(Cell) /\ Len(b) = SECTION /\ \A i \in 1 .. SECTION : b[i] = Erased
    BY <1>1 DEF BlankSection
<1>3. 0 \in Nat
    OBVIOUS
<1> HIDE DEF b
<1>4. /\ e \in Flashes(Cell)
      /\ \A s \in Sections, i \in 1 .. SECTION :
            e[s][i] = IF s = t /\ i \in 0 + 1 .. 0 + Len(b) THEN b[i - 0] ELSE f[s][i]
    <2>1. Overlays(e, Cell, f, t, 0, b, Len(b))
        BY <1>2, <1>3, OverlaidIs, Zenon
    <2> QED BY <2>1, Zenon DEF Overlays
<1>5. \A i \in 1 .. SECTION : i \in 0 + 1 .. 0 + SECTION /\ i - 0 = i
    BY <1>1
<1> HIDE DEF e
<1> QED BY <1>2, <1>4, <1>5 DEF e, b

\* The tail goes on to the next section, whose head comes first in its page.
LEMMA OpenIs ==
    ASSUME NEW m, Ranged(m), m.avail = SECTION, m.count + 1 < LOOPS, NEW o \in Nat \ {0}
    PROVE  LET n == OpenSection(m, o) IN
           /\ Ranged(n) /\ n.avail = HEAD /\ n.count = m.count + 1
           /\ n.gc = m.gc /\ n.list = m.list
<1> DEFINE t == Following(m.tail)
           erased == Overlaid(m.flash, t, 0, BlankSection)
           h == IF m.head = t THEN Following(t) ELSE m.head
           ok == m.ok /\ (m.head = t => m.list[t] = <<>>)
           images == m.images \cup {erased}
           p == [m EXCEPT !.tail = t, !.avail = 0, !.count = m.count + 1, !.head = h,
                          !.ok = ok, !.flash = erased, !.images = images]
           n == OpenSection(m, o)
<1>1. /\ m \in SoundLogs /\ m.flash \in Flashes(SoundCell) /\ m.tail \in Sections
      /\ m.head \in Sections /\ m.buf \in Seq(SoundCell) /\ Len(m.buf) \in Nat
      /\ m.count \in 0 .. LOOPS - 1 /\ m.images \in SUBSET Flashes(SoundCell) /\ m.ok \in BOOLEAN
      /\ SECTION \in Nat \ {0} /\ PAGE \in Nat \ {0} /\ LOOPS \in Nat \ {0} /\ SECTION % PAGE = 0
    BY SoundFields DEF Ranged
<1>2. t \in Sections /\ Following(t) \in Sections /\ Preceding(t) = m.tail
    <2>1. /\ t = IF m.tail + 1 = SECTIONS THEN 0 ELSE m.tail + 1
          /\ t \in Sections /\ Following(t) \in Sections
        BY <1>1, NextSection, FollowingIs
    <2> HIDE DEF t
    <2>2. Preceding(t) = IF t = 0 THEN SECTIONS - 1 ELSE t - 1
        BY <2>1, PrecedingIs
    <2>3. m.tail \in 0 .. SECTIONS - 1 /\ SECTIONS \in Nat
        BY <1>1, LogAssumption DEF Sections
    <2> QED BY <2>1, <2>2, <2>3
<1>3. m.buf = <<>> /\ From(m) # 0
    <2>1. From(m) % PAGE = 0 /\ Len(m.buf) < PAGE
        BY DEF Ranged
    <2>2. From(m) = SECTION - Len(m.buf)
        BY DEF From
    <2>3. (SECTION - Len(m.buf)) % PAGE = 0
        BY <2>1, <2>2, Zenon
    <2>4. Len(m.buf) \in 0 .. PAGE - 1
        BY <1>1, <2>1
    <2>5. Len(m.buf) = 0
        BY <1>1, <2>3, <2>4, Multiple
    <2> QED BY <1>1, <2>2, <2>5
<1>4. PICK k \in 0 .. SECTIONS : Rising(m.flash, m.tail, m.count, k)
    BY <1>3 DEF Ranged, Rises
<1>5. /\ erased \in Flashes(SoundCell)
      /\ \A s \in Sections, i \in 1 .. SECTION :
            erased[s][i] = IF s = t THEN Erased ELSE m.flash[s][i]
    <2>1. Erased \in SoundCell
        BY DEF SoundCell
    <2> QED BY <1>1, <1>2, <2>1, ErasedIs
<1>6. n = PutCell(p, HeadCell(p.count, o))
    <2>1. (m.count + 1) % LOOPS = m.count + 1
        <3>1. m.count + 1 \in 0 .. LOOPS - 1
            BY <1>1
        <3> QED BY <1>1, <3>1, Remainder
    <2> DEFINE q == [m EXCEPT !.tail = t, !.avail = 0, !.count = (@ + 1) % LOOPS,
                              !.head = IF @ = t THEN Following(t) ELSE @,
                              !.ok = @ /\ (m.head = t => m.list[t] = <<>>),
                              !.flash = erased, !.images = @ \cup {erased}]
    <2>2. n = PutCell(q, HeadCell(q.count, o))
        BY DEF OpenSection
    <2>3. q = p
        BY <1>1, <2>1 DEF SoundLogs, Logs
    <2> HIDE DEF q, p, n
    <2> QED BY <2>2, <2>3
<1> HIDE DEF erased, n
<1>7. /\ p \in SoundLogs /\ p.tail = t /\ p.avail = 0 /\ p.count = m.count + 1 /\ p.buf = <<>>
      /\ p.flash = erased /\ p.images = images /\ p.gc = m.gc /\ p.list = m.list
    <2>1. /\ h \in Sections /\ ok \in BOOLEAN /\ images \in SUBSET Flashes(SoundCell)
          /\ m.count + 1 \in 0 .. LOOPS - 1 /\ 0 \in 0 .. SECTION
        <3>1. ok \in BOOLEAN
            BY Zenon
        <3> QED BY <1>1, <1>2, <1>5, <3>1
    <2>2. <<>> \in Seq(SoundCell)
        OBVIOUS
    <2> DEFINE c == m.count + 1
    <2>3. /\ c \in 0 .. LOOPS - 1 /\ t \in Sections /\ erased \in Flashes(SoundCell)
          /\ p = [m EXCEPT !.tail = t, !.avail = 0, !.count = c, !.head = h, !.ok = ok,
                           !.flash = erased, !.images = images]
        BY <1>2, <1>5, <2>1, Zenon
    <2> HIDE DEF t, h, ok, images, c, p
    <2> QED BY <1>1, <1>3, <2>1, <2>2, <2>3 DEF c, SoundLogs, Logs
<1> HIDE DEF p, t, h, ok
<1>8. \E j \in 0 .. SECTIONS - 1 : Rising(erased, m.tail, m.count, j)
    <2> DEFINE j == IF k = SECTIONS THEN SECTIONS - 1 ELSE k
    <2>1. j \in 0 .. SECTIONS - 1 /\ j \in Nat /\ SECTIONS \in Nat /\ SECTIONS >= 3 /\ 1 \in 1 .. SECTION
        BY <1>1, LogAssumption, StoreAssumption
    <2>2. ASSUME NEW s \in Sections
          PROVE  IF Back(m.tail, s) < j
                 THEN erased[s][1] \in HeadCells /\ Count(erased, s) = m.count - Back(m.tail, s)
                 ELSE erased[s][1] = Erased
        <3>1. Back(m.tail, s) \in 0 .. SECTIONS - 1
            BY <1>1, BackIs
        <3>2. Back(m.tail, t) = SECTIONS - 1
            BY <1>1, BackIs DEF t
        <3>3. CASE s = t
            BY <1>2, <1>5, <2>1, <3>2, <3>3
        <3>4. CASE s # t
            <4>1. erased[s][1] = m.flash[s][1] /\ Count(erased, s) = Count(m.flash, s)
                BY <1>5, <2>1, <3>4 DEF Count
            <4>2. Back(m.tail, s) # SECTIONS - 1
                BY <1>1, <1>2, <3>2, <3>4, BackIs
            <4>3. Back(m.tail, s) < j <=> Back(m.tail, s) < k
                BY <2>1, <3>1, <4>2
            <4> QED BY <1>4, <4>1, <4>3 DEF Rising
        <3> QED BY <3>3, <3>4
    <2>3. Rising(erased, m.tail, m.count, j)
        BY <2>2 DEF Rising
    <2> QED BY <2>1, <2>3
<1>9. \A f \in p.images : Chained(f)
    <2>1. Chained(erased)
        <3>1. 0 .. SECTIONS - 1 \subseteq 0 .. SECTIONS
            BY LogAssumption
        <3> QED BY <1>1, <1>5, <1>8, <3>1 DEF Chained
    <2> QED BY <1>7, <2>1 DEF Ranged, images
<1>10. Len(p.buf) = 0 /\ From(p) = 0 /\ p.avail < SECTION
    <2>1. Len(p.buf) = 0 /\ p.avail = 0
        BY <1>7
    <2>2. From(p) = 0
        BY <2>1 DEF From
    <2> QED BY <1>1, <2>1, <2>2
<1> DEFINE c == HeadCell(p.count, o)
<1>11. c \in HeadCells /\ c \in SoundCell /\ c[2] = p.count
    <2>1. p.count \in Nat
        BY <1>1, <1>7
    <2> QED BY <2>1 DEF HeadCell, HeadCells, SoundCell
<1> HIDE DEF c
<1>12. Rises(p.flash, p.tail, p.count, From(p), Append(p.buf, c))
    <2>1. Append(p.buf, c) # <<>> /\ Append(p.buf, c)[1] = c
        BY <1>7
    <2>2. p.count - 1 = m.count
        BY <1>1, <1>7
    <2>3. \E j \in 0 .. SECTIONS - 1 : Rising(p.flash, Preceding(p.tail), p.count - 1, j)
        BY <1>2, <1>7, <1>8, <2>2
    <2> QED BY <1>10, <1>11, <2>1, <2>3 DEF Rises
<1>13. PutOn(p, n)
    <2>1. /\ Len(p.buf) < PAGE /\ Len(p.buf) <= p.avail /\ From(p) % PAGE = 0
          /\ p.flash \in p.images
        BY <1>1, <1>7, <1>10 DEF images
    <2>2. n = PutCell(p, c)
        BY <1>6 DEF c
    <2> QED BY <1>7, <1>9, <1>10, <1>11, <1>12, <2>1, <2>2, PutIs
<1> QED BY <1>7, <1>13 DEF PutOn, n, HEAD

\* One cell of a node, in the next section if the tail is full.
LEMMA CellIs ==
    ASSUME NEW m, Ranged(m), SECTION > HEAD, m.avail = SECTION => m.count + 1 < LOOPS,
           NEW c \in SoundCell, NEW N \in Nat, NEW i \in 1 .. N
    PROVE  LET n == WriteCell(m, c, i, N) IN
           /\ Ranged(n) /\ n.gc = m.gc /\ n.list = m.list
           /\ m.avail = SECTION => n.avail = HEAD + 1 /\ n.count = m.count + 1
           /\ m.avail # SECTION => n.avail = m.avail + 1 /\ n.count = m.count
<1> DEFINE o == IF i = 1 THEN HEAD ELSE HEAD + N - i + 1
           n == WriteCell(m, c, i, N)
<1>1. /\ m.avail \in 0 .. SECTION /\ SECTION \in Nat \ {0} /\ HEAD = 1
    BY SoundFields DEF Ranged, HEAD
<1>2. o \in Nat \ {0}
    BY <1>1
<1>3. n = PutCell(IF m.avail = SECTION THEN OpenSection(m, o) ELSE m, c)
    BY DEF WriteCell
<1> HIDE DEF n, o
<1>4. CASE m.avail = SECTION
    <2> DEFINE v == OpenSection(m, o)
    <2>1. Ranged(v) /\ v.avail = HEAD /\ v.count = m.count + 1 /\ v.gc = m.gc /\ v.list = m.list
        BY <1>2, <1>4, OpenIs
    <2> HIDE DEF v
    <2>2. PutOn(v, n)
        <3>1. n = PutCell(v, c)
            BY <1>3, <1>4 DEF v
        <3> QED BY <1>1, <2>1, <3>1, RangedPut
    <2> QED BY <1>4, <2>1, <2>2 DEF PutOn, n
<1>5. CASE m.avail # SECTION
    <2>1. PutOn(m, n)
        BY <1>1, <1>3, <1>5, RangedPut
    <2> QED BY <1>5, <2>1 DEF PutOn, n
<1> QED BY <1>4, <1>5

\* After i cells of a node that began at m, at most one section later.
Came(m, n, i) ==
    /\ Ranged(n) /\ n.gc = m.gc /\ n.list = m.list
    /\ \/ n.count = m.count /\ n.avail = m.avail + i
       \/ n.count = m.count + 1 /\ n.avail <= HEAD + i

\* One cell further, which opens a section only if none was opened before.
LEMMA CameOn ==
    ASSUME NEW m, Ranged(m), m.count + 1 < LOOPS, NEW N \in Nat, HEAD + N <= SECTION,
           NEW i \in 1 .. N, NEW w, Came(m, w, i - 1), NEW c \in SoundCell
    PROVE  Came(m, WriteCell(w, c, i, N), i)
<1>1. /\ m.avail \in 0 .. SECTION /\ m.avail \in Nat /\ SECTION \in Nat \ {0} /\ HEAD = 1
      /\ w.avail \in 0 .. SECTION /\ m.count \in Nat /\ w.count \in Nat
    BY SoundFields DEF Came, Ranged, HEAD
<1>2. SECTION > HEAD
    BY <1>1
<1>3. w.avail = SECTION => w.count = m.count
    BY <1>1 DEF Came
<1> DEFINE n == WriteCell(w, c, i, N)
<1>4. /\ Ranged(n) /\ n.gc = w.gc /\ n.list = w.list
      /\ w.avail = SECTION => n.avail = HEAD + 1 /\ n.count = w.count + 1
      /\ w.avail # SECTION => n.avail = w.avail + 1 /\ n.count = w.count
    BY <1>2, <1>3, CellIs DEF Came
<1> HIDE DEF n
<1>5. \/ n.count = m.count /\ n.avail = m.avail + i
      \/ n.count = m.count + 1 /\ n.avail <= HEAD + i
    BY <1>1, <1>3, <1>4 DEF Came
<1> QED BY <1>4, <1>5 DEF Came, n

\* All cells of a node.
LEMMA CellsGo ==
    ASSUME NEW m, Ranged(m), m.count + 1 < LOOPS,
           NEW cells \in Seq(SoundCell), HEAD + Len(cells) <= SECTION
    PROVE  LET n == AppendNode(m, cells) IN
           Ranged(n) /\ n.list = m.list /\ n.count \in {m.count, m.count + 1}
<1> DEFINE p == WithGc(m)
           N == Len(cells)
<1>1. Ranged(p) /\ p.list = m.list /\ p.count = m.count
    <2> DEFINE g == IF m.gc = INVALID THEN m.head ELSE m.gc
    <2>1. g \in Sections \cup {INVALID}
        BY SoundFields DEF Ranged
    <2>2. p = [m EXCEPT !.gc = g]
        BY DEF WithGc, Ranged, SoundLogs, Logs
    <2> HIDE DEF g, p
    <2>3. /\ p \in SoundLogs /\ p.list = m.list /\ p.count = m.count /\ p.buf = m.buf
          /\ p.avail = m.avail /\ p.flash = m.flash /\ p.images = m.images /\ p.tail = m.tail
        BY <2>1, <2>2 DEF Ranged, SoundLogs, Logs
    <2>4. From(p) = From(m)
        BY <2>3 DEF From
    <2> QED BY <2>3, <2>4 DEF Ranged
<1> HIDE DEF p
<1>2. PICK w : /\ w[0] = p
               /\ \A k \in 1 .. N : w[k] = WriteCell(w[k - 1], cells[k], k, N)
               /\ WriteCells(p, cells) = w[N]
    BY CellByCell
<1>3. N \in Nat /\ HEAD + N <= SECTION /\ \A i \in 1 .. N : cells[i] \in SoundCell
    OBVIOUS
<1> HIDE DEF N
<1> DEFINE T == {k \in 0 .. N : Came(p, w[k], k)}
<1>4. 0 \in T
    <2>1. p.avail = p.avail + 0
        BY <1>1, SoundFields DEF Ranged
    <2> QED BY <1>1, <1>2, <1>3, <2>1 DEF Came
<1>5. ASSUME NEW k \in 0 .. N - 1, k \in T PROVE k + 1 \in T
    <2>1. k + 1 \in 1 .. N /\ k + 1 \in 0 .. N /\ (k + 1) - 1 = k
        BY <1>3
    <2>2. Came(p, w[k], (k + 1) - 1)
        BY <1>5, <2>1
    <2>3. Came(p, WriteCell(w[k], cells[k + 1], k + 1, N), k + 1)
        BY <1>1, <1>3, <2>1, <2>2, CameOn
    <2>4. w[k + 1] = WriteCell(w[k], cells[k + 1], k + 1, N)
        BY <1>2, <2>1
    <2> QED BY <2>1, <2>3, <2>4
<1>6. N \in T
    <2> HIDE DEF T
    <2>1. \A k \in 0 .. N : k \in T
        BY <1>3, <1>4, <1>5, Upward
    <2> QED BY <1>3, <2>1
<1>7. AppendNode(m, cells) = w[N]
    BY <1>2 DEF AppendNode, p
<1> QED BY <1>1, <1>6, <1>7 DEF Came

--------------------------------------------------------------------------------
(* The lists, and how far an operation takes the loop count.                *)

Fit(m) == Ranged(m) /\ KeysOnce(m)

\* The lists are nothing to the order of the sections.
LEMMA RangedLists ==
    ASSUME NEW m, Ranged(m), NEW l \in [Sections -> Seq(SizedNode)]
    PROVE  LET n == [m EXCEPT !.list = l] IN
           /\ Ranged(n) /\ n.list = l /\ n.count = m.count /\ n.gc = m.gc /\ n.avail = m.avail
<1> DEFINE n == [m EXCEPT !.list = l]
<1>1. /\ n \in SoundLogs /\ n.list = l /\ n.count = m.count /\ n.buf = m.buf /\ n.gc = m.gc
      /\ n.avail = m.avail /\ n.flash = m.flash /\ n.images = m.images /\ n.tail = m.tail
    BY DEF Ranged, SoundLogs, Logs
<1> HIDE DEF n
<1>2. From(n) = From(m)
    BY <1>1 DEF From
<1>3. Ranged(n)
    BY <1>1, <1>2 DEF Ranged
<1> QED BY <1>1, <1>3 DEF n

\* n is m with other lists, none shorter by more than d.
Relisted(m, n, d) ==
    /\ Fit(n) /\ n.count = m.count /\ n.gc = m.gc /\ n.avail = m.avail
    /\ \A s \in Sections : Len(n.list[s]) >= Len(m.list[s]) - d

\* The record k has no node.
NoNode(m, k) == \A s \in Sections : \A i \in DOMAIN m.list[s] : m.list[s][i].key # k

\* A list without a record is a node shorter at most.
LEMMA WithoutLen ==
    ASSUME NEW S, NEW l \in Seq(S), NEW k
    PROVE  Len(Without(l, k)) >= Len(l) - 1
<1> DEFINE d == CHOOSE i \in DOMAIN l : l[i].key = k
<1>1. CASE \E i \in DOMAIN l : l[i].key = k
    <2>1. d \in DOMAIN l
        BY <1>1
    <2>2. Without(l, k) = RemoveAt(l, d)
        BY <1>1 DEF Without
    <2> HIDE DEF d
    <2>3. d \in 1 .. Len(l)
        BY <2>1
    <2>4. Len(RemoveAt(l, d)) = Len(l) - 1
        BY <2>3, RemovedAt
    <2> QED BY <2>2, <2>4
<1>2. CASE ~(\E i \in DOMAIN l : l[i].key = k)
    <2>1. Without(l, k) = l /\ Len(l) \in Nat
        BY <1>2 DEF Without
    <2> QED BY <2>1
<1> QED BY <1>1, <1>2

\* The lists without a record.
LEMMA UnlistedFits ==
    ASSUME NEW m, Fit(m), NEW k
    PROVE  /\ Relisted(m, Unlisted(m, k), 1) /\ NoNode(Unlisted(m, k), k)
           /\ \A j : NoNode(m, j) => NoNode(Unlisted(m, k), j)
<1> DEFINE l == [s \in Sections |-> Without(m.list[s], k)]
           u == Unlisted(m, k)
<1>1. m.list \in [Sections -> Seq(SizedNode)]
    BY SoundFields DEF Fit, Ranged
<1>2. ASSUME NEW s \in Sections
      PROVE  /\ l[s] \in Seq(SizedNode)
             /\ \A j \in DOMAIN l[s] : l[s][j].key # k
             /\ \A j \in DOMAIN l[s] : \E i \in DOMAIN m.list[s] : l[s][j] = m.list[s][i]
             /\ \A i, j \in DOMAIN l[s] : l[s][i].key = l[s][j].key => i = j
             /\ Len(l[s]) >= Len(m.list[s]) - 1
    <2> DEFINE q == m.list[s]
    <2>1. q \in Seq(SizedNode)
        BY <1>1
    <2>2. \A i, j \in DOMAIN q : q[i].key = q[j].key => i = j
        BY DEF Fit, KeysOnce
    <2>3. l[s] = Without(q, k)
        OBVIOUS
    <2> HIDE DEF q, l
    <2>4. Len(l[s]) >= Len(q) - 1
        BY <2>1, <2>3, WithoutLen
    <2> QED BY <2>1, <2>2, <2>3, <2>4, WithoutIs DEF q
<1>3. u = [m EXCEPT !.list = l] /\ l \in [Sections -> Seq(SizedNode)]
    BY <1>2 DEF Unlisted
<1> HIDE DEF u, l
<1>4. Ranged(u) /\ u.list = l /\ u.count = m.count /\ u.gc = m.gc /\ u.avail = m.avail
    <2> DEFINE v == [m EXCEPT !.list = l]
    <2>1. Ranged(v) /\ v.list = l /\ v.count = m.count /\ v.gc = m.gc /\ v.avail = m.avail
        BY <1>3, RangedLists DEF Fit
    <2> HIDE DEF v
    <2> QED BY <1>3, <2>1 DEF v
<1>5. KeysOnce(u)
    <2> SUFFICES ASSUME NEW s \in Sections, NEW t \in Sections,
                        NEW i \in DOMAIN l[s], NEW j \in DOMAIN l[t], l[s][i].key = l[t][j].key
                 PROVE  s = t /\ i = j
        BY <1>4 DEF KeysOnce
    <2>1. PICK i2 \in DOMAIN m.list[s] : l[s][i] = m.list[s][i2]
        BY <1>2
    <2>2. PICK j2 \in DOMAIN m.list[t] : l[t][j] = m.list[t][j2]
        BY <1>2
    <2>3. s = t
        BY <2>1, <2>2 DEF Fit, KeysOnce
    <2> QED BY <1>2, <2>3
<1>6. NoNode(u, k)
    BY <1>2, <1>4 DEF NoNode
<1>7. \A s \in Sections : Len(u.list[s]) >= Len(m.list[s]) - 1
    BY <1>2, <1>4
<1>8. \A j : NoNode(m, j) => NoNode(u, j)
    BY <1>2, <1>4 DEF NoNode
<1> QED BY <1>4, <1>5, <1>6, <1>7, <1>8 DEF Relisted, Fit, u

\* The lists with one record more.
LEMMA ListedFits ==
    ASSUME NEW m, Fit(m), NEW k \in Keys, NEW length \in Nat, HEAD + RecordLen(length) <= SECTION,
           NEW at \in Sections \X (0 .. SECTION - 1), NoNode(m, k)
    PROVE  /\ Relisted(m, Listed(m, k, length, at), 0)
           /\ \A j : j # k /\ NoNode(m, j) => NoNode(Listed(m, k, length, at), j)
<1> DEFINE a == at[1]
           node == [key |-> k, length |-> length, at |-> at]
           q == m.list[a]
           l == [m.list EXCEPT ![a] = Append(@, node)]
           n == Listed(m, k, length, at)
           last == Len(q) + 1
<1>1. m.list \in [Sections -> Seq(SizedNode)] /\ a \in Sections
    BY SoundFields DEF Fit, Ranged
<1>2. node \in SizedNode /\ node.key = k
    BY DEF SizedNode, Node
<1>3. n = [m EXCEPT !.list = l]
    <2> DEFINE g == m.list
    <2>1. n = [m EXCEPT !.list = [g EXCEPT ![a] = Append(@, node)]]
        BY DEF Listed
    <2> QED BY <2>1
<1>4. q \in Seq(SizedNode) /\ l = [s \in Sections |-> IF s = a THEN Append(q, node) ELSE m.list[s]]
    BY <1>1
<1> HIDE DEF n, a, node, q, l
<1>5. /\ Append(q, node) \in Seq(SizedNode)
      /\ DOMAIN Append(q, node) = DOMAIN q \cup {last}
      /\ Append(q, node)[last] = node /\ last \notin DOMAIN q
      /\ \A i \in DOMAIN q : Append(q, node)[i] = q[i]
    BY <1>2, <1>4, AppendAt
<1>6. l \in [Sections -> Seq(SizedNode)]
    BY <1>1, <1>4, <1>5
<1>7. ASSUME NEW s \in Sections, NEW i \in DOMAIN l[s]
      PROVE  \/ s = a /\ i = last /\ l[s][i] = node
             \/ i \in DOMAIN m.list[s] /\ l[s][i] = m.list[s][i] /\ (s = a => i # last)
    <2>1. CASE s = a
        <3>1. l[s] = Append(q, node) /\ m.list[s] = q
            BY <1>1, <1>4, <2>1 DEF q
        <3> QED BY <1>5, <2>1, <3>1
    <2>2. CASE s # a
        BY <1>4, <2>2
    <2> QED BY <2>1, <2>2
<1>8. ASSUME NEW s \in Sections PROVE Len(l[s]) >= Len(m.list[s]) - 0
    <2>1. m.list[s] \in Seq(SizedNode) /\ Len(m.list[s]) \in Nat
        BY <1>1
    <2>2. CASE s = a
        <3>1. l[s] = Append(q, node) /\ m.list[s] = q
            BY <1>1, <1>4, <2>2 DEF q
        <3>2. Len(Append(q, node)) = Len(q) + 1
            BY <1>2, <1>4
        <3> QED BY <2>1, <3>1, <3>2
    <2>3. CASE s # a
        BY <1>4, <2>1, <2>3
    <2> QED BY <2>2, <2>3
<1>9. Ranged(n) /\ n.list = l /\ n.count = m.count /\ n.gc = m.gc /\ n.avail = m.avail
    <2> DEFINE v == [m EXCEPT !.list = l]
    <2>1. Ranged(v) /\ v.list = l /\ v.count = m.count /\ v.gc = m.gc /\ v.avail = m.avail
        BY <1>6, RangedLists DEF Fit
    <2> HIDE DEF v
    <2> QED BY <1>3, <2>1 DEF v
<1>10. KeysOnce(n)
    <2> SUFFICES ASSUME NEW s \in Sections, NEW t \in Sections,
                        NEW i \in DOMAIN l[s], NEW j \in DOMAIN l[t], l[s][i].key = l[t][j].key
                 PROVE  s = t /\ i = j
        BY <1>9 DEF KeysOnce
    <2>1. CASE i \in DOMAIN m.list[s] /\ l[s][i] = m.list[s][i]
               /\ j \in DOMAIN m.list[t] /\ l[t][j] = m.list[t][j]
        BY <2>1 DEF Fit, KeysOnce
    <2>2. CASE i \in DOMAIN m.list[s] /\ l[s][i] = m.list[s][i] /\ t = a /\ j = last /\ l[t][j] = node
        BY <1>2, <2>2 DEF NoNode
    <2>3. CASE j \in DOMAIN m.list[t] /\ l[t][j] = m.list[t][j] /\ s = a /\ i = last /\ l[s][i] = node
        BY <1>2, <2>3 DEF NoNode
    <2> QED BY <1>7, <2>1, <2>2, <2>3
<1>11. Relisted(m, n, 0)
    BY <1>8, <1>9, <1>10 DEF Relisted, Fit
<1>12. \A j : j # k /\ NoNode(m, j) => NoNode(n, j)
    BY <1>2, <1>7, <1>9 DEF NoNode
<1> QED BY <1>11, <1>12 DEF n

\* Where a node goes.
LEMMA NextAddrIs ==
    ASSUME NEW m, Ranged(m), SECTION > HEAD
    PROVE  NextAddr(m) \in Sections \X (0 .. SECTION - 1)
<1>1. /\ m.tail \in Sections /\ m.avail \in 0 .. SECTION /\ SECTION \in Nat \ {0} /\ HEAD = 1
      /\ Following(m.tail) \in Sections
    BY SoundFields, NextSection DEF Ranged, HEAD
<1>2. CASE m.avail = SECTION
    BY <1>1, <1>2 DEF NextAddr
<1>3. CASE m.avail # SECTION
    <2>1. m.avail \in 0 .. SECTION - 1
        BY <1>1, <1>3
    <2> QED BY <1>1, <1>3, <2>1 DEF NextAddr
<1> QED BY <1>2, <1>3

--------------------------------------------------------------------------------
\* The log after each of the cells that node_copy writes.
LEMMA CopyByCell ==
    ASSUME NEW m, NEW node, NEW N \in Nat, N = RecordLen(node.length)
    PROVE  \E w : /\ w[0] = Unlisted(m, node.key)
                  /\ \A k \in 1 .. N : w[k] = CopyCell(w[k - 1], node, k)
                  /\ CopyNode(m, node) = Listed(w[N], node.key, node.length, NextAddr(m))
<1> DEFINE u == Unlisted(m, node.key)
           Is(g, k) == g = [i \in 0 .. k |-> IF i = 0 THEN u ELSE CopyCell(g[i - 1], node, i)]
           T == {k \in 0 .. N : \E g : Is(g, k)}
<1>1. 0 \in T
    <2> DEFINE g == [i \in 0 .. 0 |-> u]
    <2>1. g = [i \in 0 .. 0 |-> IF i = 0 THEN u ELSE CopyCell(g[i - 1], node, i)]
        <3>1. \A i \in 0 .. 0 : i = 0
            OBVIOUS
        <3> QED BY <3>1, Zenon
    <2>2. 0 \in 0 .. N
        OBVIOUS
    <2> HIDE DEF g
    <2> QED BY <2>1, <2>2
<1>2. ASSUME NEW k \in 0 .. N - 1, k \in T
      PROVE  k + 1 \in T
    <2>1. PICK g : Is(g, k)
        BY <1>2
    <2> DEFINE h == [i \in 0 .. k + 1 |-> IF i = k + 1 THEN CopyCell(g[k], node, k + 1) ELSE g[i]]
               hh == [i \in 0 .. k + 1 |-> IF i = 0 THEN u ELSE CopyCell(h[i - 1], node, i)]
    <2>2. k \in Nat /\ k + 1 \in 0 .. N
        OBVIOUS
    <2> HIDE DEF u
    <2>3. ASSUME NEW i \in 0 .. k + 1 PROVE h[i] = hh[i]
        <3>1. CASE i = k + 1
            <4>1. h[i - 1] = g[k] /\ i # 0
                BY <2>2, <3>1
            <4> QED BY <3>1, <4>1
        <3>2. CASE i # k + 1
            <4>1. i \in 0 .. k /\ h[i] = g[i]
                BY <2>2, <3>2
            <4>2. g[i] = IF i = 0 THEN u ELSE CopyCell(g[i - 1], node, i)
                BY <2>1, <4>1, Zenon
            <4>3. i # 0 => h[i - 1] = g[i - 1]
                BY <2>2, <4>1
            <4> QED BY <4>1, <4>2, <4>3
        <3> QED BY <3>1, <3>2
    <2>4. h = hh
        BY <2>3, Zenon
    <2>5. Is(h, k + 1)
        BY <2>4, Zenon
    <2> HIDE DEF h, hh, Is
    <2> QED BY <2>2, <2>5
<1> HIDE DEF T
<1>3. N \in T
    <2>1. \A k \in 0 .. N : k \in T
        BY <1>1, <1>2, Upward
    <2> QED BY <2>1
<1>4. PICK g : Is(g, N)
    BY <1>3 DEF T
<1> DEFINE w == CHOOSE x : Is(x, N)
<1>5. Is(w, N)
    BY <1>4, Zenon
<1>6. CopyNode(m, node) = Listed(w[N], node.key, node.length, NextAddr(m))
    BY Zenon DEF CopyNode
<1> HIDE DEF w, u
<1>7. w[0] = u
    BY <1>5
<1>8. ASSUME NEW k \in 1 .. N PROVE w[k] = CopyCell(w[k - 1], node, k)
    <2>1. k \in 0 .. N /\ k # 0
        OBVIOUS
    <2> QED BY <1>5, <2>1, Zenon
<1> QED BY <1>6, <1>7, <1>8 DEF u

\* What is copied are cells.
LEMMA CopiedCell ==
    ASSUME NEW m, Ranged(m), NEW node \in SizedNode, NEW i \in 1 .. RecordLen(node.length)
    PROVE  CellOf(m, node, i) \in SoundCell
<1>1. /\ node \in Node /\ HEAD + RecordLen(node.length) <= SECTION
    BY DEF SizedNode
<1>2. /\ node.key \in Keys /\ node.length \in Nat
      /\ node.at[1] \in Sections /\ node.at[2] \in 0 .. SECTION - 1
      /\ RecordLen(node.length) \in Nat \ {0}
    BY <1>1, NodeTypes
<1>3. <<"add", node.key, node.length, i>> \in SoundCell
    <2>1. "add" \in Kinds /\ i \in Nat
        BY <1>2 DEF Kinds
    <2> QED BY <1>1, <1>2, <2>1 DEF SoundCell, RecordCell
<1>4. Seen(m) \in Flashes(SoundCell)
    <2> DEFINE f == m.flash
               b == m.buf
               t == m.tail
               o == m.avail - Len(m.buf)
    <2>1. f \in Flashes(SoundCell) /\ b \in Seq(SoundCell) /\ t \in Sections /\ o \in Nat
        <3>1. m \in SoundLogs /\ Len(m.buf) <= m.avail
            BY DEF Ranged
        <3> QED BY <3>1, SoundFields
    <2>2. Seen(m) = Overlaid(f, t, o, b)
        BY DEF Seen
    <2> HIDE DEF f, b, t, o
    <2> QED BY <2>1, <2>2, OverlaidIs, Zenon DEF Overlays
<1>5. CellAt(Seen(m), node, i) \in SoundCell
    <2> DEFINE at == Moved(node.at[1], node.at[2], i - 1)
               f == Seen(m)
    <2>1. at[1] \in Sections /\ at[2] \in 0 .. SECTION - 1
        <3>1. i - 1 \in Nat /\ HEAD + (i - 1) + 0 <= SECTION
            BY <1>1, <1>2, LogAssumption DEF HEAD
        <3> QED BY <1>2, <3>1, MovedIs
    <2>2. f \in Flashes(SoundCell)
        BY <1>4
    <2>3. CellAt(Seen(m), node, i) = f[at[1]][at[2] + 1]
        BY DEF CellAt
    <2> HIDE DEF at, f
    <2>4. at[2] + 1 \in 1 .. SECTION
        BY <2>1, LogAssumption
    <2>5. f[at[1]][at[2] + 1] \in SoundCell
        BY <2>1, <2>2, <2>4 DEF Flashes
    <2> QED BY <2>3, <2>5
<1> QED BY <1>3, <1>5 DEF CellOf

\* n is m at most d sections on, with no record that is not one of m.
Reached(m, n, d) ==
    Fit(n) /\ n.count \in m.count .. m.count + d /\ \A j : NoNode(m, j) => NoNode(n, j)
Further(m, n, d) == Reached(m, n, d) /\ n.gc = m.gc

\* node_copy opens a section at most and leaves a node less to copy.
LEMMA CopyGoes ==
    ASSUME NEW m, Fit(m), m.count + 1 < LOOPS, NEW node \in SizedNode, ~NoNode(m, node.key)
    PROVE  LET n == CopyNode(m, node) IN
           /\ Further(m, n, 1)
           /\ \A s \in Sections : Len(n.list[s]) >= Len(m.list[s]) - 1
<1> DEFINE N == RecordLen(node.length)
           u == Unlisted(m, node.key)
           n == CopyNode(m, node)
<1>1. /\ node.key \in Keys /\ node.length \in Nat /\ N \in Nat \ {0} /\ HEAD + N <= SECTION
    BY NodeTypes DEF SizedNode
<1>2. PICK w : /\ w[0] = u
               /\ \A k \in 1 .. N : w[k] = CopyCell(w[k - 1], node, k)
               /\ n = Listed(w[N], node.key, node.length, NextAddr(m))
    <2>1. N \in Nat
        BY <1>1
    <2> HIDE DEF N
    <2> QED BY <2>1, CopyByCell DEF N
<1>3. /\ Relisted(m, u, 1) /\ NoNode(u, node.key)
      /\ \A j : NoNode(m, j) => NoNode(u, j)
    BY UnlistedFits
<1>4. \A k \in 1 .. N : w[k] = WriteCell(w[k - 1], CellOf(w[k - 1], node, k), k, N)
    BY <1>2 DEF CopyCell
<1>5. \A x, k : Ranged(x) /\ k \in 1 .. N => CellOf(x, node, k) \in SoundCell
    BY CopiedCell
<1> HIDE DEF N, u, n
<1>6. Ranged(u) /\ u.count + 1 < LOOPS
    BY <1>3 DEF Relisted, Fit
<1> DEFINE T == {k \in 0 .. N : Came(u, w[k], k)}
<1>7. 0 \in T
    <2>1. u.avail = u.avail + 0
        BY <1>6, SoundFields DEF Ranged
    <2> QED BY <1>1, <1>2, <1>6, <2>1 DEF Came
<1>8. ASSUME NEW k \in 0 .. N - 1, k \in T PROVE k + 1 \in T
    <2>1. k + 1 \in 1 .. N /\ k + 1 \in 0 .. N /\ (k + 1) - 1 = k
        BY <1>1
    <2>2. Came(u, w[k], (k + 1) - 1)
        BY <1>8, <2>1
    <2> DEFINE c == CellOf(w[k], node, k + 1)
    <2>3. c \in SoundCell
        BY <1>5, <2>1, <2>2 DEF Came
    <2>4. w[k + 1] = WriteCell(w[k], c, k + 1, N)
        BY <1>4, <2>1
    <2> HIDE DEF c
    <2>5. Came(u, WriteCell(w[k], c, k + 1, N), k + 1)
        BY <1>1, <1>6, <2>1, <2>2, <2>3, CameOn
    <2> QED BY <2>1, <2>4, <2>5
<1>9. N \in T
    <2> HIDE DEF T
    <2>1. N \in Nat
        BY <1>1
    <2>2. \A k \in 0 .. N : k \in T
        BY <2>1, <1>7, <1>8, Upward
    <2> QED BY <2>1, <2>2
<1> DEFINE x == w[N]
<1>10. Came(u, x, N)
    BY <1>9
<1>11. n = Listed(x, node.key, node.length, NextAddr(m))
    BY <1>2
<1> HIDE DEF x, T
<1>12. Fit(x) /\ NoNode(x, node.key)
    BY <1>3, <1>10 DEF Came, Relisted, Fit, KeysOnce, NoNode
<1>13. NextAddr(m) \in Sections \X (0 .. SECTION - 1)
    <2>1. SECTION > HEAD
        BY <1>1, LogAssumption DEF HEAD
    <2> QED BY <2>1, NextAddrIs DEF Fit
<1>14. /\ Relisted(x, n, 0)
       /\ \A j : j # node.key /\ NoNode(x, j) => NoNode(n, j)
    <2> DEFINE at == NextAddr(m)
    <2>1. at \in Sections \X (0 .. SECTION - 1) /\ n = Listed(x, node.key, node.length, at)
        BY <1>11, <1>13
    <2> HIDE DEF at
    <2> QED BY <1>1, <1>12, <2>1, ListedFits DEF N
<1>15. \A s \in Sections : Len(n.list[s]) >= Len(m.list[s]) - 1
    <2> SUFFICES ASSUME NEW s \in Sections PROVE Len(n.list[s]) >= Len(m.list[s]) - 1
        OBVIOUS
    <2>1. Len(n.list[s]) \in Nat /\ Len(u.list[s]) \in Nat /\ Len(m.list[s]) \in Nat
        <3>1. \A y : Fit(y) => y.list[s] \in Seq(SizedNode)
            BY SoundFields DEF Fit, Ranged
        <3>2. Fit(n) /\ Fit(u)
            BY <1>3, <1>14 DEF Relisted
        <3> QED BY <3>1, <3>2
    <2>2. /\ Len(n.list[s]) >= Len(x.list[s]) - 0 /\ x.list = u.list
          /\ Len(u.list[s]) >= Len(m.list[s]) - 1
        BY <1>3, <1>10, <1>14 DEF Relisted, Came
    <2> QED BY <2>1, <2>2
<1>16. Further(m, n, 1)
    <2>1. m.count \in Nat
        BY SoundFields DEF Fit, Ranged
    <2>2. n.count \in {m.count, m.count + 1} /\ n.gc = m.gc
        BY <1>3, <1>10, <1>14 DEF Relisted, Came
    <2>3. n.count \in m.count .. m.count + 1
        BY <2>1, <2>2
    <2>4. ASSUME NEW j, NoNode(m, j) PROVE NoNode(n, j)
        <3>1. NoNode(u, j) /\ j # node.key
            BY <1>3, <2>4
        <3>2. NoNode(x, j)
            BY <1>10, <3>1 DEF Came, NoNode
        <3> QED BY <1>14, <3>1, <3>2
    <2> QED BY <1>14, <2>2, <2>3, <2>4 DEF Further, Reached, Relisted
<1> QED BY <1>15, <1>16 DEF n

\* A list has no more nodes than there are keys.
LEMMA ListShort ==
    ASSUME IsFiniteSet(Keys), NEW m, Fit(m), NEW s \in Sections
    PROVE  Len(m.list[s]) \in 0 .. Cardinality(Keys) /\ Cardinality(Keys) \in Nat
<1> DEFINE l == m.list[s]
           N == Len(l)
           C == Cardinality(Keys)
           f == [i \in 1 .. N |-> l[i].key]
<1>1. l \in Seq(SizedNode) /\ N \in Nat /\ DOMAIN l = 1 .. N
    BY SoundFields DEF Fit, Ranged
<1>2. C \in Nat
    BY FS_CardinalityType
<1>3. \A i \in 1 .. N : l[i].key \in Keys
    <2>1. \A i \in 1 .. N : l[i] \in Node
        BY <1>1 DEF SizedNode
    <2> QED BY <2>1, NodeTypes
<1>4. \A i, j \in 1 .. N : l[i].key = l[j].key => i = j
    BY <1>1 DEF Fit, KeysOnce
<1> HIDE DEF l, N
<1>5. f \in Injection(1 .. N, Keys)
    <2>1. f \in [1 .. N -> Keys] /\ DOMAIN f = 1 .. N
        BY <1>3
    <2>2. \A i, j \in 1 .. N : f[i] = f[j] => i = j
        BY <1>4
    <2> HIDE DEF f
    <2> QED BY <2>1, <2>2 DEF Injection, IsInjective
<1> HIDE DEF f
<1>6. Cardinality(1 .. N) <= C
    BY <1>5, FS_Injection
<1>7. Cardinality(1 .. N) = N
    BY <1>1, FS_Interval
<1> QED BY <1>1, <1>2, <1>6, <1>7 DEF N, l

\* section_copy opens at most a section for each node it copies.
LEMMA CopyListGoes ==
    ASSUME IsFiniteSet(Keys), NEW m, Fit(m), m.gc \in Sections,
           m.count + Cardinality(Keys) < LOOPS
    PROVE  Further(m, CopyList(m), Cardinality(Keys))
<1> DEFINE N == Len(m.list[m.gc])
           C == Cardinality(Keys)
<1>1. N \in 0 .. C /\ C \in Nat
    BY ListShort
<1>2. PICK w : /\ w[0] = m
               /\ \A k \in 1 .. N : w[k] = CopyNode(w[k - 1], Head(w[k - 1].list[m.gc]))
               /\ CopyList(m) = w[N]
    BY <1>1, NodeByNode
<1>3. m.count \in Nat /\ LOOPS \in Nat
    BY SoundFields DEF Fit, Ranged
<1> DEFINE Is(k) == Further(m, w[k], k) /\ Len(w[k].list[m.gc]) >= N - k
           T == {k \in 0 .. N : Is(k)}
<1>4. 0 \in T
    <2>1. Is(0)
        <3> HIDE DEF N
        <3>1. N >= N - 0 /\ m.count \in m.count .. m.count + 0
            BY <1>1, <1>3
        <3> QED BY <1>2, <3>1 DEF Further, Reached, N
    <2> HIDE DEF Is, N
    <2> QED BY <1>1, <2>1
<1> HIDE DEF N, C
<1>5. ASSUME NEW k \in 0 .. N - 1, k \in T PROVE k + 1 \in T
    <2>1. k + 1 \in 1 .. N /\ k + 1 \in 0 .. N /\ (k + 1) - 1 = k /\ N - k >= 1 /\ k + 1 <= C
        BY <1>1
    <2> DEFINE v == w[k]
               l == v.list[m.gc]
               node == Head(l)
               n == CopyNode(v, node)
    <2>2. Further(m, v, k) /\ Len(l) >= N - k
        BY <1>5
    <2>3. w[k + 1] = n
        BY <1>2, <2>1
    <2>4. l \in Seq(SizedNode) /\ Len(l) \in Nat
        <3>1. v.list \in [Sections -> Seq(SizedNode)]
            BY <2>2, SoundFields DEF Further, Reached, Fit, Ranged
        <3> QED BY <3>1
    <2> HIDE DEF v, l
    <2>5. node \in SizedNode /\ ~NoNode(v, node.key)
        <3>1. l # <<>>
            BY <1>1, <2>1, <2>2, <2>4
        <3>2. 1 \in DOMAIN l /\ node = l[1]
            BY <2>4, <3>1
        <3>3. 1 \in DOMAIN v.list[m.gc] /\ node = v.list[m.gc][1]
            BY <3>2 DEF l
        <3> QED BY <2>4, <3>2, <3>3 DEF NoNode
    <2> HIDE DEF node
    <2>6. v.count + 1 < LOOPS /\ v.count \in Nat /\ v.count \in m.count .. m.count + k
        BY <1>1, <1>3, <2>1, <2>2 DEF Further, Reached, C
    <2>7. /\ Further(v, n, 1)
          /\ \A s \in Sections : Len(n.list[s]) >= Len(v.list[s]) - 1
        BY <2>2, <2>5, <2>6, CopyGoes DEF Further, Reached
    <2> HIDE DEF n
    <2>8. Len(n.list[m.gc]) >= N - (k + 1)
        <3>1. Len(n.list[m.gc]) >= Len(l) - 1
            BY <2>7 DEF l
        <3>2. Len(n.list[m.gc]) \in Nat
            <4>1. n.list \in [Sections -> Seq(SizedNode)]
                BY <2>7, SoundFields DEF Further, Reached, Fit, Ranged
            <4> QED BY <4>1
        <3> QED BY <1>1, <2>2, <2>4, <3>1, <3>2
    <2>9. Further(m, n, k + 1)
        <3>1. n.count \in v.count .. v.count + 1
            BY <2>7 DEF Further, Reached
        <3>2. n.count \in m.count .. m.count + (k + 1)
            BY <1>3, <2>6, <3>1
        <3>3. \A j : NoNode(m, j) => NoNode(n, j)
            BY <2>2, <2>7 DEF Further, Reached
        <3> QED BY <2>2, <2>7, <3>2, <3>3 DEF Further, Reached
    <2>10. Is(k + 1)
        BY <2>3, <2>8, <2>9
    <2> HIDE DEF Is
    <2> QED BY <2>1, <2>10
<1>6. N \in T
    <2> HIDE DEF T
    <2>1. \A k \in 0 .. N : k \in T
        BY <1>1, <1>4, <1>5, Upward
    <2> QED BY <1>1, <2>1
<1>7. Further(m, w[N], N)
    BY <1>6
<1>8. m.count .. m.count + N \subseteq m.count .. m.count + C
    BY <1>1, <1>3
<1> QED BY <1>2, <1>7, <1>8 DEF Further, Reached, C

\* A write-through of the cache.
LEMMA WriteOutGoes ==
    ASSUME NEW m, Fit(m), m.avail % PAGE # 0
    PROVE  Further(m, WriteOut(m), 0)
<1> DEFINE n == Flush(m, From(m))
           w == WriteOut(m)
<1>1. /\ m \in SoundLogs /\ m.avail \in Nat /\ m.avail \in 0 .. SECTION /\ Len(m.buf) \in Nat
      /\ m.buf \in Seq(SoundCell) /\ m.count \in Nat
      /\ PAGE \in Nat \ {0} /\ SECTION \in Nat \ {0} /\ SECTION % PAGE = 0
      /\ Len(m.buf) < PAGE /\ Len(m.buf) <= m.avail /\ From(m) % PAGE = 0
    BY SoundFields DEF Fit, Ranged
<1>2. From(m) \in Nat /\ From(m) + Len(m.buf) = m.avail
    BY <1>1 DEF From
<1>3. m.buf # <<>>
    <2> SUFFICES ASSUME m.buf = <<>> PROVE FALSE
        OBVIOUS
    <2>1. Len(m.buf) = 0
        OBVIOUS
    <2>2. From(m) = m.avail
        BY <1>2, <2>1
    <2> QED BY <1>1, <2>2
<1>4. Flushed(m, n)
    BY <1>1, <1>3, FlushIs DEF Fit, Ranged
<1>5. Len(m.buf) \in 1 .. PAGE - 1
    BY <1>1, <1>3
<1> DEFINE o == From(m) + PAGE
<1>6. PageUp(m.avail) = o
    <2>1. ((From(m) + Len(m.buf)) \div PAGE + 1) * PAGE = From(m) + PAGE
        BY <1>1, <1>2, <1>5, PageEnds
    <2> QED BY <1>2, <2>1 DEF PageUp
<1>7. o \in Nat /\ o # 0 /\ o <= SECTION /\ o \in 0 .. SECTION
    <2>1. From(m) < SECTION
        BY <1>1, <1>2, <1>5
    <2>2. o <= SECTION
        BY <1>1, <1>2, <2>1, PageEnds
    <2> QED BY <1>1, <1>2, <2>2
<1>8. o % PAGE = 0
    BY <1>1, <1>2, Multiple
<1>9. w = [n EXCEPT !.avail = PageUp(@)]
    BY <1>3 DEF WriteOut, From
<1> HIDE DEF n, w, o
<1>10. /\ w \in SoundLogs /\ w.buf = <<>> /\ w.avail = o /\ w.tail = m.tail /\ w.gc = m.gc
       /\ w.list = m.list /\ w.count = m.count /\ w.flash = n.flash /\ w.images = n.images
    <2>1. n.avail = m.avail /\ n \in SoundLogs
        BY <1>4 DEF Flushed
    <2>2. w = [n EXCEPT !.avail = o]
        BY <1>6, <1>9, <2>1 DEF SoundLogs, Logs
    <2> QED BY <1>4, <1>7, <2>2 DEF Flushed, SoundLogs, Logs
<1>11. Len(w.buf) = 0 /\ From(w) = o
    <2>1. Len(w.buf) = 0
        BY <1>10
    <2>2. From(w) = o - 0
        BY <1>10, <2>1 DEF From
    <2> QED BY <1>7, <2>1, <2>2
<1>12. From(w) % PAGE = 0
    BY <1>8, <1>11, Zenon
<1>13. Rises(w.flash, w.tail, w.count, From(w), w.buf)
    BY <1>4, <1>7, <1>10, <1>11 DEF Rises, Flushed
<1>14. Ranged(w)
    BY <1>1, <1>4, <1>7, <1>10, <1>11, <1>12, <1>13 DEF Ranged, Flushed
<1>15. Fit(w)
    BY <1>10, <1>14 DEF Fit, KeysOnce
<1>16. w.count \in m.count .. m.count + 0
    BY <1>1, <1>10
<1>17. \A j : NoNode(m, j) => NoNode(w, j)
    BY <1>10 DEF NoNode
<1> QED BY <1>10, <1>15, <1>16, <1>17 DEF Further, Reached, w

\* The section to collect next is nothing to the order of the sections.
LEMMA FitGc ==
    ASSUME NEW m, Fit(m), NEW g \in Sections \cup {INVALID}
    PROVE  LET n == [m EXCEPT !.gc = g] IN Fit(n) /\ n.count = m.count /\ n.list = m.list
<1> DEFINE n == [m EXCEPT !.gc = g]
<1>1. /\ n \in SoundLogs /\ n.list = m.list /\ n.count = m.count /\ n.buf = m.buf
      /\ n.avail = m.avail /\ n.flash = m.flash /\ n.images = m.images /\ n.tail = m.tail
    BY DEF Fit, Ranged, SoundLogs, Logs
<1> HIDE DEF n
<1>2. From(n) = From(m)
    BY <1>1 DEF From
<1>3. Ranged(n) /\ KeysOnce(n)
    BY <1>1, <1>2 DEF Fit, Ranged, KeysOnce
<1> QED BY <1>1, <1>3 DEF Fit, n

\* A collection opens at most a section for each key.
LEMMA CollectReaches ==
    ASSUME IsFiniteSet(Keys), NEW m, Fit(m), m.gc \in Sections,
           m.count + Cardinality(Keys) < LOOPS
    PROVE  Reached(m, Collect(m), Cardinality(Keys))
<1> DEFINE n == CopyList(m)
           w == IF n.avail % PAGE # 0 THEN WriteOut(n) ELSE n
           c == Collect(m)
<1>1. Further(m, n, Cardinality(Keys))
    BY CopyListGoes
<1>2. c = [w EXCEPT !.gc = Following(@)]
    BY DEF Collect
<1> HIDE DEF n, c
<1>3. /\ Fit(w) /\ w.gc = n.gc /\ w.count = n.count
      /\ \A j : NoNode(n, j) => NoNode(w, j)
    <2>1. CASE n.avail % PAGE # 0
        <3>1. Further(n, w, 0)
            BY <1>1, <2>1, WriteOutGoes DEF Further, Reached
        <3>2. n.count \in Nat
            BY <1>1, SoundFields DEF Further, Reached, Fit, Ranged
        <3> HIDE DEF w
        <3>3. n.count .. n.count + 0 = {n.count}
            BY <3>2
        <3> QED BY <3>1, <3>3 DEF Further, Reached
    <2>2. CASE ~(n.avail % PAGE # 0)
        <3>1. w = n
            BY <2>2
        <3> QED BY <1>1, <3>1 DEF Further, Reached
    <2> QED BY <2>1, <2>2
<1> HIDE DEF w
<1> DEFINE g == Following(m.gc)
<1>4. g \in Sections
    BY NextSection
<1>5. c = [w EXCEPT !.gc = g]
    BY <1>1, <1>2, <1>3 DEF Further, Reached, Fit, Ranged, SoundLogs, Logs
<1> HIDE DEF g
<1>6. Fit(c) /\ c.count = w.count /\ c.list = w.list
    BY <1>3, <1>4, <1>5, FitGc
<1>7. \A j : NoNode(m, j) => NoNode(c, j)
    BY <1>1, <1>3, <1>6 DEF Further, Reached, NoNode
<1> QED BY <1>1, <1>3, <1>6, <1>7 DEF Reached, Further, c

\* A log that does not move is in reach.
LEMMA SameReached ==
    ASSUME NEW m, Fit(m), NEW d \in Nat
    PROVE  Reached(m, m, d)
<1>1. m.count \in Nat
    BY SoundFields DEF Fit, Ranged
<1> QED BY <1>1 DEF Reached

\* So does garbage_collect_try, whether or not it is time to collect.
LEMMA CollectedReaches ==
    ASSUME IsFiniteSet(Keys), NEW m, Fit(m), m.count + Cardinality(Keys) < LOOPS, NEW n
    PROVE  Reached(m, Collected(m, n), Cardinality(Keys))
<1>1. CASE MustCollect(m, n)
    <2>1. m.gc \in Sections
        BY <1>1, SoundFields DEF MustCollect, Fit, Ranged
    <2> QED BY <1>1, <2>1, CollectReaches DEF Collected
<1>2. CASE ~MustCollect(m, n)
    BY <1>2, SameReached, FS_CardinalityType DEF Collected
<1> QED BY <1>1, <1>2

--------------------------------------------------------------------------------
\* The cells of a record and of a removal.
LEMMA WrittenCells ==
    ASSUME NEW k \in Keys
    PROVE  /\ \A v \in Values : RecordCells(k, v) \in Seq(SoundCell)
           /\ RemovalCells(k) \in Seq(SoundCell)
<1>1. ASSUME NEW what \in Kinds, NEW v \in Nat, NEW n \in Nat,
             what = "add" => HEAD + RecordLen(v) <= SECTION
      PROVE  Cells(what, k, v, n) \in Seq(SoundCell)
    <2>1. ASSUME NEW i \in 1 .. n PROVE <<what, k, v, i>> \in SoundCell
        BY <1>1 DEF SoundCell, RecordCell
    <2> QED BY <2>1 DEF Cells
<1>2. /\ META \in Nat /\ CRC \in Nat
      /\ {"add", "data", "dataCrc", "addCrc", "del", "delCrc"} \subseteq Kinds
    BY StoreAssumption DEF Kinds
<1>3. Cells("del", k, 0, META) \in Seq(SoundCell) /\ Cells("delCrc", k, 0, CRC) \in Seq(SoundCell)
    BY <1>1, <1>2
<1>4. ASSUME NEW v \in Values PROVE RecordCells(k, v) \in Seq(SoundCell)
    <2>1. v \in Nat /\ DataLen(v) \in Nat /\ HEAD + RecordLen(DataLen(v)) <= SECTION
        BY LengthsAre
    <2> DEFINE a == Cells("add", k, DataLen(v), META)
               d == Cells("data", k, v, DataLen(v))
               c == Cells("dataCrc", k, v, CRC)
               x == Cells("addCrc", k, DataLen(v), CRC)
    <2>2. a \in Seq(SoundCell) /\ d \in Seq(SoundCell) /\ c \in Seq(SoundCell) /\ x \in Seq(SoundCell)
        BY <1>1, <1>2, <2>1
    <2>3. RecordCells(k, v) = ((a \o d) \o c) \o x
        BY DEF RecordCells
    <2> HIDE DEF a, d, c, x
    <2>4. (a \o d) \in Seq(SoundCell)
        BY <2>2, ConcatProperties
    <2>5. ((a \o d) \o c) \in Seq(SoundCell)
        BY <2>2, <2>4, ConcatProperties
    <2> QED BY <2>2, <2>3, <2>5, ConcatProperties
<1>5. RemovalCells(k) \in Seq(SoundCell)
    <2> DEFINE d == Cells("del", k, 0, META)
               c == Cells("delCrc", k, 0, CRC)
    <2>1. RemovalCells(k) = d \o c
        BY DEF RemovalCells
    <2> HIDE DEF d, c
    <2>2. d \in Seq(SoundCell) /\ c \in Seq(SoundCell)
        BY <1>3 DEF d, c
    <2> QED BY <2>1, <2>2, ConcatProperties
<1> QED BY <1>4, <1>5

\* The operations open at most a section for each key, and one more.
LEMMA OperationsReach ==
    ASSUME IsFiniteSet(Keys), NEW m, Fit(m), m.count + Cardinality(Keys) + 1 < LOOPS
    PROVE  /\ \A k \in Keys, v \in Values : Fit(Written(m, k, v))
           /\ \A k \in Keys : Nodes(m, k) # {} => Fit(Deleted(m, k))
           /\ Fit(WrittenThrough(m))
<1> DEFINE C == Cardinality(Keys)
<1>1. C \in Nat /\ m.count \in Nat /\ LOOPS \in Nat
    BY FS_CardinalityType, SoundFields DEF Fit, Ranged
<1>2. m.count + C < LOOPS
    BY <1>1
<1>3. ASSUME NEW u, Fit(u), u.count = m.count, NEW c
      PROVE  /\ Fit(Collected(u, c)) /\ Collected(u, c).count + 1 < LOOPS
             /\ \A j : NoNode(u, j) => NoNode(Collected(u, c), j)
    <2>1. u.count + Cardinality(Keys) < LOOPS
        BY <1>2, <1>3
    <2>2. Reached(u, Collected(u, c), Cardinality(Keys))
        BY <1>3, <2>1, CollectedReaches
    <2> HIDE DEF C
    <2>3. Collected(u, c).count \in m.count .. m.count + C
        BY <1>3, <2>2 DEF Reached, C
    <2>4. Collected(u, c).count + 1 < LOOPS
        BY <1>1, <2>3 DEF C
    <2> QED BY <2>2, <2>4 DEF Reached
<1>4. ASSUME NEW k \in Keys, NEW v \in Values PROVE Fit(Written(m, k, v))
    <2> DEFINE u == Unlisted(m, k)
               p == Collected(u, RecordLen(DataLen(v)))
               cells == RecordCells(k, v)
               w == AppendNode(p, cells)
               at == NextAddr(p)
               n == Written(m, k, v)
    <2>1. Relisted(m, u, 1) /\ NoNode(u, k)
        BY UnlistedFits
    <2>2. Fit(p) /\ p.count + 1 < LOOPS
        BY <1>3, <2>1 DEF Relisted
    <2>3. /\ cells \in Seq(SoundCell) /\ Len(cells) = RecordLen(DataLen(v)) /\ DataLen(v) \in Nat
          /\ HEAD + RecordLen(DataLen(v)) <= SECTION /\ RecordLen(DataLen(v)) \in Nat \ {0}
        BY WrittenCells, RecordCellsAre, LengthsAre
    <2>4. n = Listed(w, k, DataLen(v), at)
        BY DEF Written, AppendRecord
    <2>5. NoNode(p, k)
        BY <1>3, <2>1 DEF Relisted
    <2> HIDE DEF u, p, cells, n, at, w
    <2>6. Ranged(w) /\ w.list = p.list
        BY <2>2, <2>3, CellsGo DEF Fit, w
    <2>7. Fit(w) /\ NoNode(w, k)
        BY <2>2, <2>5, <2>6 DEF Fit, KeysOnce, NoNode
    <2>8. at \in Sections \X (0 .. SECTION - 1)
        <3>1. SECTION > HEAD
            BY <2>3, LogAssumption DEF HEAD
        <3> QED BY <2>2, <3>1, NextAddrIs DEF Fit, at
    <2>9. Relisted(w, n, 0)
        BY <2>3, <2>4, <2>7, <2>8, ListedFits
    <2> QED BY <2>9 DEF Relisted, n
<1>5. ASSUME NEW k \in Keys, Nodes(m, k) # {} PROVE Fit(Deleted(m, k))
    <2> DEFINE p == Collected(m, RemovalLen)
               cells == RemovalCells(k)
               w == AppendNode(p, cells)
    <2>1. Fit(p) /\ p.count + 1 < LOOPS
        BY <1>3
    <2>2. cells \in Seq(SoundCell) /\ HEAD + Len(cells) <= SECTION
        <3>1. cells \in Seq(SoundCell) /\ Len(cells) = RemovalLen
            BY WrittenCells, RemovalCellsAre
        <3>2. PICK x \in Nodes(m, k) : TRUE
            BY <1>5
        <3>3. PICK s \in Sections : \E i \in DOMAIN m.list[s] : x = m.list[s][i]
            BY NodesAre
        <3>4. x \in SizedNode
            <4>1. m.list[s] \in Seq(SizedNode)
                BY SoundFields DEF Fit, Ranged
            <4> QED BY <3>3, <4>1
        <3>5. x \in Node /\ HEAD + RecordLen(x.length) <= SECTION
            BY <3>4 DEF SizedNode
        <3>6. /\ META + (x.length + CRC) <= RecordLen(x.length) /\ x.length \in Nat
              /\ META \in Nat /\ CRC \in Nat /\ RecordLen(x.length) \in Nat
            BY <3>5, NodeTypes
        <3>7. HEAD + RemovalLen <= SECTION
            BY <3>5, <3>6, LogAssumption DEF RemovalLen, HEAD
        <3> QED BY <3>1, <3>7
    <2>3. Deleted(m, k) = Unlisted(w, k)
        BY DEF Deleted
    <2> HIDE DEF p, cells, w
    <2>4. Ranged(w) /\ w.list = p.list
        BY <2>1, <2>2, CellsGo DEF Fit, w
    <2>5. Fit(w)
        BY <2>1, <2>4 DEF Fit, KeysOnce
    <2> QED BY <2>3, <2>5, UnlistedFits DEF Relisted
<1>6. Fit(WrittenThrough(m))
    <2> DEFINE padding == PAGE - (m.avail % PAGE)
    <2>1. CASE m.avail % PAGE = 0
        BY <2>1 DEF WrittenThrough
    <2>2. CASE m.avail % PAGE # 0 /\ MustCollect(m, padding)
        <3>1. WrittenThrough(m) = Collect(m)
            BY <2>2 DEF WrittenThrough
        <3>2. m.gc \in Sections
            BY <2>2, SoundFields DEF MustCollect, Fit, Ranged
        <3> QED BY <1>2, <3>1, <3>2, CollectReaches DEF Reached
    <2>3. CASE m.avail % PAGE # 0 /\ ~MustCollect(m, padding)
        <3>1. WrittenThrough(m) = WriteOut(m)
            BY <2>3 DEF WrittenThrough
        <3> QED BY <2>3, <3>1, WriteOutGoes DEF Further, Reached
    <2> QED BY <2>1, <2>2, <2>3
<1> QED BY <1>4, <1>5, <1>6

--------------------------------------------------------------------------------
(* Reading the sections back.                                               *)

\* The log while a start reads it: nothing but the lists, and how far the last section
\* goes, is other than in b.
ReadLogs ==
    [head : Sections, tail : Sections, gc : {INVALID}, avail : Nat, count : 0 .. LOOPS - 1,
     buf : {<<>>}, list : [Sections -> Seq(SizedNode)], ok : BOOLEAN,
     flash : Flashes(SoundCell), images : SUBSET Flashes(SoundCell)]

Reading(b, m) ==
    /\ m \in ReadLogs /\ KeysOnce(m)
    /\ m.head = b.head /\ m.tail = b.tail /\ m.count = b.count
    /\ m.flash = b.flash /\ m.images = b.images

\* A record that leaves the lists, and one that comes to them.
LEMMA ReadUnlisted ==
    ASSUME NEW b, Fit(b), NEW m, Reading(b, m), NEW k
    PROVE  LET u == Unlisted(m, k) IN Reading(b, u) /\ u.ok = m.ok /\ NoNode(u, k)
<1> DEFINE v == [b EXCEPT !.list = m.list]
           l == [s \in Sections |-> Without(m.list[s], k)]
           u == Unlisted(m, k)
           x == Unlisted(v, k)
<1>1. m.list \in [Sections -> Seq(SizedNode)] /\ m \in ReadLogs
    BY DEF Reading, ReadLogs
<1>2. Fit(v) /\ v.list = m.list
    <2>1. Ranged(v) /\ v.list = m.list
        BY <1>1, RangedLists DEF Fit
    <2> HIDE DEF v
    <2> QED BY <2>1 DEF Fit, Reading, KeysOnce
<1> HIDE DEF v
<1>3. x.list = l
    <2>1. v \in SoundLogs
        BY <1>2 DEF Fit, Ranged
    <2>2. x = [v EXCEPT !.list = [s \in Sections |-> Without(v.list[s], k)]]
        BY DEF Unlisted
    <2>3. x.list = [s \in Sections |-> Without(v.list[s], k)]
        BY <2>1, <2>2 DEF SoundLogs, Logs
    <2> QED BY <1>2, <2>3
<1>4. Fit(x) /\ NoNode(x, k)
    BY <1>2, UnlistedFits DEF Relisted
<1> HIDE DEF x
<1>5. l \in [Sections -> Seq(SizedNode)]
    BY <1>3, <1>4, SoundFields DEF Fit, Ranged
<1>6. u = [m EXCEPT !.list = l]
    BY DEF Unlisted
<1> HIDE DEF u, l
<1>7. /\ u \in ReadLogs /\ u.list = l /\ u.ok = m.ok /\ u.head = m.head /\ u.tail = m.tail
      /\ u.count = m.count /\ u.flash = m.flash /\ u.images = m.images
    BY <1>1, <1>5, <1>6 DEF ReadLogs
<1>8. KeysOnce(u) /\ NoNode(u, k)
    BY <1>3, <1>4, <1>7 DEF Fit, KeysOnce, NoNode
<1> QED BY <1>7, <1>8 DEF Reading, u

\* A record that a start finds comes to the lists.
LEMMA ReadListed ==
    ASSUME NEW b, Fit(b), NEW m, Reading(b, m), NEW k \in Keys, NEW length \in Nat,
           HEAD + RecordLen(length) <= SECTION, NEW at \in Sections \X (0 .. SECTION - 1),
           NoNode(m, k)
    PROVE  LET n == Listed(m, k, length, at) IN Reading(b, n) /\ n.ok = m.ok
<1> DEFINE v == [b EXCEPT !.list = m.list]
           node == [key |-> k, length |-> length, at |-> at]
           l == [m.list EXCEPT ![at[1]] = Append(@, node)]
           n == Listed(m, k, length, at)
           x == Listed(v, k, length, at)
<1>1. m.list \in [Sections -> Seq(SizedNode)] /\ m \in ReadLogs
    BY DEF Reading, ReadLogs
<1>2. Fit(v) /\ v.list = m.list
    <2>1. Ranged(v) /\ v.list = m.list
        BY <1>1, RangedLists DEF Fit
    <2> HIDE DEF v
    <2> QED BY <2>1 DEF Fit, Reading, KeysOnce
<1> HIDE DEF v
<1>3. x.list = l
    <2>1. v \in SoundLogs
        BY <1>2 DEF Fit, Ranged
    <2> DEFINE g == v.list
    <2>2. x = [v EXCEPT !.list = [g EXCEPT ![at[1]] = Append(@, node)]]
        BY DEF Listed
    <2> DEFINE y == [g EXCEPT ![at[1]] = Append(@, node)]
    <2>3. y = l
        BY <1>2
    <2>4. x = [v EXCEPT !.list = y]
        BY <2>2
    <2> HIDE DEF y, x
    <2>5. x.list = y
        BY <2>1, <2>4 DEF SoundLogs, Logs
    <2> QED BY <2>3, <2>5
<1>4. Fit(x)
    <2>1. NoNode(v, k)
        BY <1>2 DEF NoNode
    <2> QED BY <1>2, <2>1, ListedFits DEF Relisted
<1> HIDE DEF x
<1>5. l \in [Sections -> Seq(SizedNode)]
    <2>1. x.list \in [Sections -> Seq(SizedNode)]
        BY <1>4, SoundFields DEF Fit, Ranged
    <2> HIDE DEF l
    <2> QED BY <1>3, <2>1
<1>6. n = [m EXCEPT !.list = l]
    <2> DEFINE g == m.list
    <2>1. n = [m EXCEPT !.list = [g EXCEPT ![at[1]] = Append(@, node)]]
        BY DEF Listed
    <2> QED BY <2>1
<1> HIDE DEF n, l
<1>7. /\ n \in ReadLogs /\ n.list = l /\ n.ok = m.ok /\ n.head = m.head /\ n.tail = m.tail
      /\ n.count = m.count /\ n.flash = m.flash /\ n.images = m.images
    BY <1>1, <1>5, <1>6 DEF ReadLogs
<1>8. KeysOnce(n)
    BY <1>3, <1>4, <1>7 DEF Fit, KeysOnce
<1> QED BY <1>7, <1>8 DEF Reading, n

\* Where the next page begins.
LEMMA PageUpIs ==
    ASSUME NEW o \in Nat
    PROVE  PageUp(o) \in Nat /\ PageUp(o) > o /\ PageUp(o) % PAGE = 0
<1> DEFINE p == PAGE
           q == o \div p
           r == o % p
<1>1. p \in Nat \ {0}
    BY LogAssumption
<1> HIDE DEF p
<1>2. q \in Nat /\ o = p * q + r /\ r \in 0 .. p - 1
    BY <1>1
<1>3. PageUp(o) = (q + 1) * p
    BY DEF PageUp, p
<1> HIDE DEF q, r
<1>4. (q + 1) * p = p * q + p
    BY <1>1, <1>2
<1>5. PageUp(o) \in Nat /\ PageUp(o) > o
    BY <1>1, <1>2, <1>3, <1>4
<1>6. ((q + 1) * p) % p = 0
    BY <1>1, <1>2, Multiple
<1>7. PageUp(o) % p = 0
    BY <1>3, <1>6, Zenon
<1> QED BY <1>5, <1>7 DEF p

\* A step of nodes_info_load gets on in the section, or is at its end or at a blank page.
Got(b, m, w, s, o) ==
    /\ Reading(b, w[1]) /\ w[1].ok = m.ok /\ w[2] \in Nat
    /\ \/ w[2] >= o + 1
       \/ w = <<m, o>> /\ (o >= SECTION \/ o % PAGE = 0)

\* Whatever the cells at that place are.
LEMMA LoadNodeGoes ==
    ASSUME NEW b, Fit(b), NEW m, Reading(b, m), NEW s \in Sections, NEW o \in Nat
    PROVE  Got(b, m, LoadNode(m, s, o), s, o)
<1> DEFINE c == m.flash[s][o + 1]
           record == c # Erased /\ c[1] = "add" /\ IsRecord(m.flash, m.tail, s, o, c[2], c[3])
           removal == c # Erased /\ c[1] = "del" /\ IsRemoval(m.flash, m.tail, s, o, c[2])
           blank == BlankPage(m.flash, s, o)
           w == LoadNode(m, s, o)
<1>1. w = CASE o >= SECTION \/ (~record /\ ~removal /\ blank) -> <<m, o>>
            [] o < SECTION /\ record -> <<Parsed(m, c[2], c[3], <<s, o>>), o + RecordLen(c[3])>>
            [] o < SECTION /\ removal -> <<Unlisted(m, c[2]), o + RemovalLen>>
            [] OTHER -> <<m, PageUp(o)>>
    BY Zenon DEF LoadNode
<1>2. blank => o % PAGE = 0
    BY DEF BlankPage
<1>3. record => c # Erased /\ c[1] = "add"
    OBVIOUS
<1>4. ~(record /\ removal)
    OBVIOUS
<1>5. o < SECTION => c \in SoundCell
    <2>1. m.flash \in Flashes(SoundCell) /\ SECTION \in Nat
        BY LogAssumption DEF Reading, ReadLogs
    <2>2. o < SECTION => o + 1 \in 1 .. SECTION
        BY <2>1
    <2> QED BY <2>1, <2>2 DEF Flashes
<1> HIDE DEF c, record, removal, blank, w
<1>6. SECTION \in Nat /\ o \in Nat /\ META \in Nat \ {0} /\ CRC \in Nat \ {0}
    BY LogAssumption, StoreAssumption
<1>7. CASE o >= SECTION \/ (~record /\ ~removal /\ blank)
    <2>1. w = <<m, o>>
        BY <1>1, <1>4, <1>6, <1>7
    <2>2. w[1] = m /\ w[2] = o
        BY <2>1
    <2> QED BY <1>2, <1>6, <1>7, <2>1, <2>2 DEF Got, w
<1>8. CASE o < SECTION /\ record
    <2> DEFINE at == <<s, o>>
               u == Unlisted(m, c[2])
               n == Listed(u, c[2], c[3], at)
               e == o + RecordLen(c[3])
    <2>1. w = <<n, e>>
        BY <1>1, <1>4, <1>6, <1>8 DEF Parsed
    <2>2. c \in RecordCell
        BY <1>3, <1>5, <1>8 DEF SoundCell, HeadCells
    <2>3. c[2] \in Keys /\ c[3] \in Nat /\ HEAD + RecordLen(c[3]) <= SECTION
        BY <1>3, <1>8, <2>2 DEF RecordCell
    <2>4. at \in Sections \X (0 .. SECTION - 1)
        BY <1>6, <1>8
    <2>5. Reading(b, u) /\ u.ok = m.ok /\ NoNode(u, c[2])
        BY ReadUnlisted
    <2> HIDE DEF u, at
    <2>6. Reading(b, n) /\ n.ok = u.ok
        BY <2>3, <2>4, <2>5, ReadListed
    <2>7. e \in Nat /\ e >= o + 1
        BY <1>6, <2>3 DEF RecordLen
    <2> HIDE DEF n, e
    <2>8. w[1] = n /\ w[2] = e
        BY <2>1
    <2> QED BY <2>5, <2>6, <2>7, <2>8 DEF Got, w
<1>9. CASE o < SECTION /\ removal
    <2> DEFINE u == Unlisted(m, c[2])
               e == o + RemovalLen
    <2>1. w = <<u, e>>
        BY <1>1, <1>4, <1>6, <1>9
    <2>2. Reading(b, u) /\ u.ok = m.ok
        BY ReadUnlisted
    <2>3. e \in Nat /\ e >= o + 1
        BY <1>6 DEF RemovalLen
    <2> HIDE DEF u, e
    <2>4. w[1] = u /\ w[2] = e
        BY <2>1
    <2> QED BY <2>2, <2>3, <2>4 DEF Got, w
<1>10. CASE o < SECTION /\ ~record /\ ~removal /\ ~blank
    <2>1. w = <<m, PageUp(o)>>
        BY <1>1, <1>6, <1>10
    <2>2. PageUp(o) \in Nat /\ PageUp(o) >= o + 1
        BY <1>6, PageUpIs
    <2>3. w[1] = m /\ w[2] = PageUp(o)
        BY <2>1
    <2> QED BY <2>2, <2>3 DEF Got, w
<1> QED BY <1>6, <1>7, <1>8, <1>9, <1>10

\* The log after each of the nodes of a section.
ReadBy(m, s, o, N, w) ==
    /\ w[0] = <<m, o>>
    /\ \A k \in 1 .. N : w[k] = LoadNode(w[k - 1][1], s, w[k - 1][2])
    /\ LoadFrom(m, s, o) = [w[N][1] EXCEPT !.avail = w[N][2],
                                           !.ok = @ /\ (s = m.tail => w[N][2] <= SECTION)]

\* nodes_info_load comes to its end.
LEMMA LoadByNode ==
    ASSUME NEW m, NEW s, NEW o, NEW N \in Nat, N = SECTION
    PROVE  \E w : ReadBy(m, s, o, N, w)
<1> DEFINE u == <<m, o>>
           Is(g, k) == g = [i \in 0 .. k |-> IF i = 0 THEN u
                                             ELSE LoadNode(g[i - 1][1], s, g[i - 1][2])]
           T == {k \in 0 .. N : \E g : Is(g, k)}
<1>1. 0 \in T
    <2> DEFINE g == [i \in 0 .. 0 |-> u]
    <2>1. g = [i \in 0 .. 0 |-> IF i = 0 THEN u ELSE LoadNode(g[i - 1][1], s, g[i - 1][2])]
        <3>1. \A i \in 0 .. 0 : i = 0
            OBVIOUS
        <3> QED BY <3>1, Zenon
    <2>2. 0 \in 0 .. N
        OBVIOUS
    <2> HIDE DEF g
    <2> QED BY <2>1, <2>2
<1>2. ASSUME NEW k \in 0 .. N - 1, k \in T
      PROVE  k + 1 \in T
    <2>1. PICK g : Is(g, k)
        BY <1>2
    <2> DEFINE h == [i \in 0 .. k + 1 |-> IF i = k + 1 THEN LoadNode(g[k][1], s, g[k][2]) ELSE g[i]]
               hh == [i \in 0 .. k + 1 |-> IF i = 0 THEN u
                                           ELSE LoadNode(h[i - 1][1], s, h[i - 1][2])]
    <2>2. k \in Nat /\ k + 1 \in 0 .. N
        OBVIOUS
    <2> HIDE DEF u
    <2>3. ASSUME NEW i \in 0 .. k + 1 PROVE h[i] = hh[i]
        <3>1. CASE i = k + 1
            <4>1. h[i - 1] = g[k] /\ i # 0
                BY <2>2, <3>1
            <4> QED BY <3>1, <4>1
        <3>2. CASE i # k + 1
            <4>1. i \in 0 .. k /\ h[i] = g[i]
                BY <2>2, <3>2
            <4>2. g[i] = IF i = 0 THEN u ELSE LoadNode(g[i - 1][1], s, g[i - 1][2])
                BY <2>1, <4>1, Zenon
            <4>3. i # 0 => h[i - 1] = g[i - 1]
                BY <2>2, <4>1
            <4> QED BY <4>1, <4>2, <4>3
        <3> QED BY <3>1, <3>2
    <2>4. h = hh
        BY <2>3, Zenon
    <2>5. Is(h, k + 1)
        BY <2>4, Zenon
    <2> HIDE DEF h, hh, Is
    <2> QED BY <2>2, <2>5
<1> HIDE DEF T
<1>3. N \in T
    <2>1. \A k \in 0 .. N : k \in T
        BY <1>1, <1>2, Upward
    <2> QED BY <2>1
<1>4. PICK g : Is(g, N)
    BY <1>3 DEF T
<1> DEFINE w == CHOOSE x : Is(x, N)
<1>5. Is(w, N)
    BY <1>4, Zenon
<1>6. LoadFrom(m, s, o) = [w[N][1] EXCEPT !.avail = w[N][2],
                                          !.ok = @ /\ (s = m.tail => w[N][2] <= SECTION)]
    BY Zenon DEF LoadFrom
<1> HIDE DEF w, u
<1>7. w[0] = u
    BY <1>5
<1>8. ASSUME NEW k \in 1 .. N PROVE w[k] = LoadNode(w[k - 1][1], s, w[k - 1][2])
    <2>1. k \in 0 .. N /\ k # 0
        OBVIOUS
    <2> QED BY <1>5, <2>1, Zenon
<1> QED BY <1>6, <1>7, <1>8 DEF u, ReadBy

\* The log goes on at the beginning of a page, or there is no place for it.
LEMMA LoadFromGoes ==
    ASSUME NEW b, Fit(b), NEW m, Reading(b, m), NEW s \in Sections, NEW o \in Nat \ {0}
    PROVE  LET n == LoadFrom(m, s, o) IN
           /\ Reading(b, n)
           /\ s = m.tail /\ n.ok => n.avail \in 1 .. SECTION /\ n.avail % PAGE = 0
<1> DEFINE N == SECTION
<1>1. N \in Nat \ {0} /\ SECTION % PAGE = 0
    BY LogAssumption
<1> HIDE DEF N
<1>2. PICK w : ReadBy(m, s, o, N, w)
    <2>1. N \in Nat /\ N = SECTION
        BY <1>1 DEF N
    <2> QED BY <2>1, LoadByNode
<1> DEFINE Is(k) == /\ Reading(b, w[k][1]) /\ w[k][2] \in Nat
                    /\ \/ w[k][2] >= k + 1
                       \/ w[k][2] >= SECTION
                       \/ /\ w[k][2] # 0 /\ w[k][2] % PAGE = 0
                          /\ LoadNode(w[k][1], s, w[k][2]) = w[k]
           T == {k \in 0 .. N : Is(k)}
<1>3. 0 \in T
    <2>1. w[0][1] = m /\ w[0][2] = o
        BY <1>2 DEF ReadBy
    <2>2. Is(0)
        BY <2>1
    <2> HIDE DEF Is
    <2> QED BY <1>1, <2>2
<1>4. ASSUME NEW k \in 0 .. N - 1, k \in T PROVE k + 1 \in T
    <2>1. k + 1 \in 1 .. N /\ k + 1 \in 0 .. N /\ (k + 1) - 1 = k /\ k \in Nat
        BY <1>1
    <2> DEFINE v == w[k]
               a == v[1]
               p == v[2]
               x == w[k + 1]
    <2>2. x = LoadNode(a, s, p)
        BY <1>2, <2>1 DEF ReadBy
    <2>3. Reading(b, a) /\ p \in Nat /\ Is(k)
        BY <1>4
    <2>4. \/ p >= k + 1
          \/ p >= SECTION
          \/ p # 0 /\ p % PAGE = 0 /\ LoadNode(a, s, p) = v
        BY <2>3
    <2> HIDE DEF a, p, x
    <2>5. Got(b, a, x, s, p)
        BY <2>2, <2>3, LoadNodeGoes
    <2>6. Reading(b, x[1]) /\ x[2] \in Nat
        BY <2>5 DEF Got
    <2>7. \/ x[2] >= k + 2
          \/ x[2] >= SECTION
          \/ x[2] # 0 /\ x[2] % PAGE = 0 /\ LoadNode(x[1], s, x[2]) = x
        <3>1. CASE p >= SECTION
            <4>1. x[2] >= p
                <5>1. CASE x[2] >= p + 1
                    BY <2>3, <2>6, <5>1
                <5>2. CASE x = <<a, p>>
                    BY <2>3, <5>2
                <5> QED BY <2>5, <5>1, <5>2 DEF Got
            <4> QED BY <1>1, <2>3, <2>6, <3>1, <4>1 DEF N
        <3>2. CASE p # 0 /\ p % PAGE = 0 /\ LoadNode(a, s, p) = v
            <4>1. x = v /\ x[1] = a /\ x[2] = p
                BY <2>2, <3>2 DEF a, p
            <4> QED BY <3>2, <4>1
        <3>3. CASE p >= k + 1 /\ ~(p >= SECTION)
            <4>1. CASE x[2] >= p + 1
                BY <2>1, <2>3, <2>6, <3>3, <4>1
            <4>2. CASE x = <<a, p>> /\ p % PAGE = 0
                <5>1. x[1] = a /\ x[2] = p /\ p # 0
                    BY <2>1, <2>3, <3>3, <4>2
                <5> QED BY <2>2, <4>2, <5>1
            <4> QED BY <2>5, <3>3, <4>1, <4>2 DEF Got
        <3> QED BY <2>4, <3>1, <3>2, <3>3
    <2>8. Is(k + 1)
        <3>1. (k + 1) + 1 = k + 2
            BY <2>1
        <3> QED BY <2>6, <2>7, <3>1 DEF x
    <2> HIDE DEF Is
    <2> QED BY <2>1, <2>8
<1>5. Is(N)
    <2> HIDE DEF T, Is
    <2>1. \A k \in 0 .. N : k \in T
        BY <1>1, <1>3, <1>4, Upward
    <2>2. N \in T
        BY <1>1, <2>1
    <2> QED BY <2>2 DEF T
<1> DEFINE l == w[N][1]
           e == w[N][2]
           y == (s = m.tail => e <= SECTION)
           n == LoadFrom(m, s, o)
<1>6. /\ Reading(b, l) /\ e \in Nat /\ e # 0
      /\ e >= SECTION \/ e % PAGE = 0
    <2>1. Reading(b, l) /\ e \in Nat
        BY <1>5
    <2>2. \/ e >= N + 1 \/ e >= SECTION
          \/ e # 0 /\ e % PAGE = 0
        BY <1>5
    <2> HIDE DEF e, l
    <2> QED BY <1>1, <2>1, <2>2 DEF N
<1>7. n = [l EXCEPT !.avail = e, !.ok = @ /\ y]
    BY <1>2 DEF ReadBy
<1>8. y \in BOOLEAN /\ (y /\ s = m.tail => e <= SECTION)
    OBVIOUS
<1> HIDE DEF l, e, n, y
<1>9. l \in ReadLogs /\ l.ok \in BOOLEAN
    BY <1>6 DEF Reading, ReadLogs
<1> DEFINE z == l.ok /\ y
<1>10. z \in BOOLEAN /\ (z => y)
    OBVIOUS
<1>11. n = [l EXCEPT !.avail = e, !.ok = z]
    BY <1>7, <1>9 DEF ReadLogs
<1> HIDE DEF z
<1>12. /\ n \in ReadLogs /\ n.list = l.list /\ n.avail = e /\ n.ok = z /\ n.head = l.head
       /\ n.tail = l.tail /\ n.count = l.count /\ n.flash = l.flash /\ n.images = l.images
    BY <1>6, <1>9, <1>10, <1>11 DEF ReadLogs
<1>13. Reading(b, n)
    BY <1>6, <1>12 DEF Reading, KeysOnce
<1>14. ASSUME s = m.tail, n.ok PROVE n.avail \in 1 .. SECTION /\ n.avail % PAGE = 0
    <2>1. e <= SECTION
        BY <1>8, <1>10, <1>12, <1>14
    <2>2. CASE e = SECTION
        BY <1>1, <1>12, <2>2 DEF N
    <2>3. CASE e # SECTION
        BY <1>1, <1>6, <1>12, <2>1, <2>3 DEF N
    <2> QED BY <2>2, <2>3
<1> QED BY <1>13, <1>14 DEF n

\* The log after each of the sections.
SectionAt(m, d) == (m.tail + d) % SECTIONS

LoadAt(m, n, d) ==
    LET s == SectionAt(m, d) IN
    IF s \in ValidSections(m.flash) THEN LoadFrom(n, s, n.flash[s][1][3]) ELSE n

\* So does the loop over the sections.
LEMMA LoadBySection ==
    ASSUME NEW m, NEW N \in Nat, N = SECTIONS
    PROVE  \E w : /\ w[0] = m
                  /\ \A k \in 1 .. N : w[k] = LoadAt(m, w[k - 1], k)
                  /\ LoadNodes(m) = w[N]
<1> DEFINE Step(n, d) == LET s == (m.tail + d) % SECTIONS IN
                         IF s \in ValidSections(m.flash) THEN LoadFrom(n, s, n.flash[s][1][3]) ELSE n
           Is(g, k) == g = [i \in 0 .. k |-> IF i = 0 THEN m ELSE Step(g[i - 1], i)]
           T == {k \in 0 .. N : \E g : Is(g, k)}
           w == CHOOSE x : Is(x, N)
<1>6. LoadNodes(m) = w[N]
    BY Zenon DEF LoadNodes
<1>9. \A n, d : Step(n, d) = LoadAt(m, n, d)
    BY DEF LoadAt, SectionAt
<1> HIDE DEF Step
<1>1. 0 \in T
    <2> DEFINE g == [i \in 0 .. 0 |-> m]
    <2>1. g = [i \in 0 .. 0 |-> IF i = 0 THEN m ELSE Step(g[i - 1], i)]
        <3>1. \A i \in 0 .. 0 : i = 0
            OBVIOUS
        <3> QED BY <3>1, Zenon
    <2>2. 0 \in 0 .. N
        OBVIOUS
    <2> HIDE DEF g
    <2> QED BY <2>1, <2>2
<1>2. ASSUME NEW k \in 0 .. N - 1, k \in T
      PROVE  k + 1 \in T
    <2>1. PICK g : Is(g, k)
        BY <1>2
    <2> DEFINE h == [i \in 0 .. k + 1 |-> IF i = k + 1 THEN Step(g[k], k + 1) ELSE g[i]]
               hh == [i \in 0 .. k + 1 |-> IF i = 0 THEN m ELSE Step(h[i - 1], i)]
    <2>2. k \in Nat /\ k + 1 \in 0 .. N
        OBVIOUS
    <2>3. ASSUME NEW i \in 0 .. k + 1 PROVE h[i] = hh[i]
        <3>1. CASE i = k + 1
            <4>1. h[i - 1] = g[k] /\ i # 0
                BY <2>2, <3>1
            <4> QED BY <3>1, <4>1
        <3>2. CASE i # k + 1
            <4>1. i \in 0 .. k /\ h[i] = g[i]
                BY <2>2, <3>2
            <4>2. g[i] = IF i = 0 THEN m ELSE Step(g[i - 1], i)
                BY <2>1, <4>1, Zenon
            <4>3. i # 0 => h[i - 1] = g[i - 1]
                BY <2>2, <4>1
            <4> QED BY <4>1, <4>2, <4>3
        <3> QED BY <3>1, <3>2
    <2>4. h = hh
        BY <2>3, Zenon
    <2>5. Is(h, k + 1)
        BY <2>4, Zenon
    <2> HIDE DEF h, hh, Is
    <2> QED BY <2>2, <2>5
<1> HIDE DEF T
<1>3. N \in T
    <2>1. \A k \in 0 .. N : k \in T
        BY <1>1, <1>2, Upward
    <2> QED BY <2>1
<1>4. PICK g : Is(g, N)
    BY <1>3 DEF T
<1>5. Is(w, N)
    BY <1>4, Zenon
<1> HIDE DEF w
<1>7. w[0] = m
    BY <1>5
<1>8. ASSUME NEW k \in 1 .. N PROVE w[k] = LoadAt(m, w[k - 1], k)
    <2>1. k \in 0 .. N /\ k # 0
        OBVIOUS
    <2>2. w[k] = Step(w[k - 1], k)
        BY <1>5, <2>1, Zenon
    <2> QED BY <1>9, <2>2
<1> QED BY <1>6, <1>7, <1>8

\* What the sections say is in order, and the tail, which is read last, says where the log
\* goes on.
LEMMA LoadNodesGoes ==
    ASSUME NEW b, Fit(b), Reading(b, b), NEW c \in Nat, NEW n \in 1 .. SECTIONS,
           Rising(b.flash, b.tail, c, n)
    PROVE  LET m == LoadNodes(b) IN
           /\ Reading(b, m)
           /\ m.ok => m.avail \in 1 .. SECTION /\ m.avail % PAGE = 0
<1> DEFINE N == SECTIONS
<1>1. N \in Nat /\ N >= 3 /\ b.tail \in Sections
    BY LogAssumption, StoreAssumption, SoundFields DEF Fit, Ranged
<1>2. PICK w : /\ w[0] = b
               /\ \A k \in 1 .. N : w[k] = LoadAt(b, w[k - 1], k)
               /\ LoadNodes(b) = w[N]
    <2>1. N \in Nat /\ N = SECTIONS
        BY <1>1
    <2> HIDE DEF N
    <2> QED BY <2>1, LoadBySection
<1>3. ASSUME NEW k \in 1 .. N, NEW x, Reading(b, x)
      PROVE  LET y == LoadAt(b, x, k) IN
             /\ Reading(b, y)
             /\ k = N /\ y.ok => y.avail \in 1 .. SECTION /\ y.avail % PAGE = 0
    <2> DEFINE s == SectionAt(b, k)
               V == ValidSections(b.flash)
               o == x.flash[s][1][3]
               y == LoadAt(b, x, k)
    <2>1. s \in Sections
        BY <1>1, PlaceAfter DEF SectionAt
    <2>2. k = N => s = b.tail
        <3>1. b.tail \in 0 .. N - 1
            BY <1>1 DEF Sections
        <3>2. k = N => s = IF b.tail + N < SECTIONS THEN b.tail + N ELSE b.tail + N - SECTIONS
            BY <1>1, PlaceAfter DEF SectionAt
        <3> QED BY <1>1, <3>1, <3>2
    <2>3. b.tail \in V
        <3>1. Back(b.tail, b.tail) = 0
            BY <1>1, BackIs
        <3>2. b.flash[b.tail][1] \in HeadCells
            BY <1>1, <3>1 DEF Rising
        <3> QED BY <1>1, <3>2, HeadIsCell DEF ValidSections
    <2>4. CASE s \in V
        <3>1. b.flash[s][1] \in HeadCells
            <4>1. b.flash[s][1] # Erased
                BY <2>4 DEF ValidSections
            <4> QED BY <2>1, <4>1 DEF Rising
        <3>2. o \in Nat \ {0} /\ x.tail = b.tail
            BY <1>3, <3>1 DEF Reading, HeadCells
        <3>3. y = LoadFrom(x, s, o)
            BY <2>4 DEF LoadAt
        <3> HIDE DEF o, s, y
        <3>4. Reading(b, y) /\ (s = x.tail /\ y.ok => y.avail \in 1 .. SECTION /\ y.avail % PAGE = 0)
            BY <1>3, <2>1, <3>2, <3>3, LoadFromGoes
        <3> QED BY <2>2, <3>2, <3>4 DEF y
    <2>5. CASE s \notin V
        <3>1. y = x
            BY <2>5 DEF LoadAt
        <3>2. k # N
            BY <2>2, <2>3, <2>5
        <3> HIDE DEF y
        <3> QED BY <1>3, <3>1, <3>2 DEF y
    <2> QED BY <2>4, <2>5
<1> HIDE DEF N
<1> DEFINE T == {k \in 0 .. N : Reading(b, w[k])}
<1>4. 0 \in T
    BY <1>1, <1>2
<1>5. ASSUME NEW k \in 0 .. N - 1, k \in T PROVE k + 1 \in T
    <2>1. k + 1 \in 1 .. N /\ k + 1 \in 0 .. N /\ (k + 1) - 1 = k
        BY <1>1
    <2>2. w[k + 1] = LoadAt(b, w[k], k + 1)
        BY <1>2, <2>1
    <2>3. Reading(b, w[k + 1])
        BY <1>3, <1>5, <2>1, <2>2
    <2> QED BY <2>1, <2>3
<1>6. \A k \in 0 .. N : k \in T
    <2> HIDE DEF T
    <2> QED BY <1>1, <1>4, <1>5, Upward
<1>7. N - 1 \in 0 .. N /\ N \in 1 .. N
    BY <1>1
<1>8. Reading(b, w[N - 1]) /\ w[N] = LoadAt(b, w[N - 1], N)
    BY <1>2, <1>6, <1>7
<1> QED BY <1>2, <1>3, <1>7, <1>8

\* What a start knows before it reads the sections.
Before(f, h, t, c) == [Fresh(f) EXCEPT !.head = h, !.tail = t, !.count = c]

\* It is fit for the reading of them.
LEMMA BeforeReading ==
    ASSUME NEW f, NEW h \in Sections, NEW t \in Sections, NEW c \in 0 .. LOOPS - 1,
           NEW n \in 0 .. SECTIONS, f \in Flashes(SoundCell), Rising(f, t, c, n),
           NEW b, b = Before(f, h, t, c)
    PROVE  Fit(b) /\ Reading(b, b) /\ b.flash = f /\ b.tail = t /\ b.images = {f} /\ b.count = c
<1> DEFINE l == [s \in Sections |-> <<>>]
<1>1. /\ SECTION \in Nat \ {0} /\ PAGE \in Nat \ {0} /\ SECTION % PAGE = 0
      /\ SECTIONS \in Nat
    BY LogAssumption
<1>2. l \in [Sections -> Seq(SizedNode)] /\ \A s \in Sections : DOMAIN l[s] = {}
    OBVIOUS
<1>3. b = [head |-> h, tail |-> t, gc |-> INVALID, avail |-> SECTION, count |-> c,
           buf |-> <<>>, list |-> l, ok |-> TRUE, flash |-> f, images |-> {f}]
    <2> DEFINE p == Preceding(0)
               r == Fresh(f)
    <2>1. r = [head |-> 0, tail |-> p, gc |-> INVALID, avail |-> SECTION, count |-> 0,
               buf |-> <<>>, list |-> l, ok |-> TRUE, flash |-> f, images |-> {f}]
        BY DEF Fresh
    <2>2. b = [r EXCEPT !.head = h, !.tail = t, !.count = c]
        BY DEF Before
    <2> HIDE DEF r, p, l
    <2> QED BY <2>1, <2>2
<1> HIDE DEF l
<1>4. /\ b.list = l /\ b.buf = <<>> /\ b.avail = SECTION /\ b.flash = f /\ b.images = {f}
      /\ b.tail = t /\ b.count = c
    BY <1>3
<1>5. /\ SECTION \in 0 .. SECTION /\ SECTION \in Nat /\ <<>> \in Seq(SoundCell)
      /\ {f} \in SUBSET Flashes(SoundCell) /\ INVALID \in {INVALID}
    BY <1>1
<1>6. b \in SoundLogs
    BY <1>2, <1>3, <1>5 DEF SoundLogs, Logs
<1>7. b \in ReadLogs
    BY <1>2, <1>3, <1>5 DEF ReadLogs
<1>8. KeysOnce(b)
    BY <1>2, <1>4 DEF KeysOnce
<1>9. Len(b.buf) = 0 /\ From(b) = SECTION
    <2>1. Len(b.buf) = 0
        BY <1>4
    <2>2. From(b) = SECTION - 0
        BY <1>4, <2>1 DEF From
    <2> QED BY <1>1, <2>1, <2>2
<1>10. Chained(f) /\ Rises(f, t, c, SECTION, b.buf)
    BY <1>1 DEF Chained, Rises
<1>11. Ranged(b)
    BY <1>1, <1>4, <1>6, <1>9, <1>10 DEF Ranged
<1> QED BY <1>4, <1>7, <1>8, <1>11 DEF Fit, Reading

\* What a start has read is fit for the next operation.
LEMMA ReadIsFit ==
    ASSUME NEW b, Fit(b), NEW m, Reading(b, m), m.avail \in 1 .. SECTION, m.avail % PAGE = 0,
           NEW n \in 0 .. SECTIONS, Rising(b.flash, b.tail, b.count, n)
    PROVE  Fit(m)
<1>1. m \in ReadLogs /\ m.buf = <<>> /\ m.avail \in 0 .. SECTION /\ m.avail \in Nat \ {0}
      /\ PAGE \in Nat \ {0}
    BY LogAssumption DEF Reading, ReadLogs
<1>2. m \in SoundLogs
    <2>1. <<>> \in Seq(SoundCell)
        OBVIOUS
    <2> QED BY <1>1, <2>1 DEF ReadLogs, SoundLogs, Logs
<1>3. Len(m.buf) = 0 /\ From(m) = m.avail
    <2>1. Len(m.buf) = 0
        BY <1>1
    <2>2. From(m) = m.avail - 0
        BY <2>1 DEF From
    <2> QED BY <1>1, <2>1, <2>2
<1>4. Rises(m.flash, m.tail, m.count, From(m), m.buf)
    BY <1>1, <1>3 DEF Rises, Reading
<1>5. m.flash \in m.images /\ \A f \in m.images : Chained(f)
    BY DEF Reading, Fit, Ranged
<1>6. Ranged(m)
    BY <1>1, <1>2, <1>3, <1>4, <1>5 DEF Ranged
<1> QED BY <1>6 DEF Fit, Reading

\* A start finds the log fit for the next operation, or fails.
LEMMA LoadedFits ==
    ASSUME NEW f, Chained(f), 2 * SECTIONS <= LOOPS
    PROVE  /\ Loaded(f).images = {f}
           /\ Loaded(f).ok => Fit(Loaded(f))
<1>1. /\ SECTIONS \in Nat /\ SECTIONS >= 3 /\ SECTION \in Nat \ {0} /\ LOOPS \in Nat \ {0}
      /\ 0 \in Sections
    BY LogAssumption, StoreAssumption DEF Sections
<1>2. PICK t \in Sections, c \in 0 .. LOOPS - 1, n \in 0 .. SECTIONS : Rising(f, t, c, n)
    BY DEF Chained
<1>3. f \in Flashes(SoundCell)
    BY DEF Chained
<1>4. CASE ValidSections(f) = {}
    <2>1. Loaded(f) = Fresh(f)
        BY <1>4 DEF Loaded
    <2> DEFINE p == Preceding(0)
    <2>2. p \in Sections
        BY <1>1, PrecedingBack
    <2>3. Rising(f, p, 0, 0)
        <3>1. \A s \in Sections : f[s][1] = Erased
            BY <1>4 DEF ValidSections
        <3>2. \A s \in Sections : ~(Back(p, s) < 0)
            BY <1>1, <2>2, BackIs
        <3> QED BY <3>1, <3>2 DEF Rising
    <2> DEFINE b == [Fresh(f) EXCEPT !.head = 0, !.tail = p, !.count = 0]
    <2>4. b = Fresh(f)
        <3> DEFINE l == [s \in Sections |-> <<>>]
                   q == Fresh(f)
                   r == [head |-> 0, tail |-> p, gc |-> INVALID, avail |-> SECTION, count |-> 0,
                         buf |-> <<>>, list |-> l, ok |-> TRUE, flash |-> f, images |-> {f}]
        <3>1. q = r
            BY DEF Fresh
        <3> HIDE DEF q, l, p
        <3>2. ASSUME NEW u, u = [q EXCEPT !.head = 0, !.tail = p, !.count = 0] PROVE u = q
            <4>1. u = r
                BY <3>1, <3>2
            <4> QED BY <3>1, <4>1
        <3>3. b = q
            BY <3>2, Zenon DEF q
        <3> QED BY <3>3 DEF q
    <2> HIDE DEF p
    <2>5. 0 \in 0 .. LOOPS - 1 /\ 0 \in 0 .. SECTIONS
        BY <1>1
    <2>7. b = Before(f, 0, p, 0)
        BY DEF p, Before
    <2> HIDE DEF b
    <2>6. Fit(b) /\ b.images = {f}
        BY <2>7, <1>1, <1>3, <2>2, <2>3, <2>5, BeforeReading
    <2> QED BY <2>1, <2>4, <2>6
<1>5. CASE ValidSections(f) # {}
    <2>1. n \in 1 .. SECTIONS
        <3> SUFFICES ASSUME n = 0 PROVE FALSE
            BY <1>1
        <3>1. PICK s \in Sections : f[s][1] # Erased
            BY <1>5 DEF ValidSections
        <3>2. Back(t, s) \in 0 .. SECTIONS - 1
            BY BackIs
        <3>3. ~(Back(t, s) < n)
            BY <1>1, <3>2
        <3> QED BY <1>2, <3>1, <3>3 DEF Rising
    <2>2. c \in Nat
        BY <1>1
    <2>3. PICK h \in Sections : HeadAndTail(f) = <<h, t>>
        BY <1>2, <2>1, <2>2, FindsEnds
    <2>4. Count(f, t) = c
        <3>1. Back(t, t) = 0
            BY BackIs
        <3>2. Count(f, t) = c - 0
            BY <1>2, <2>1, <3>1 DEF Rising
        <3> QED BY <2>2, <3>2
    <2> DEFINE b == [Fresh(f) EXCEPT !.head = h, !.tail = t, !.count = c]
               m == LoadNodes(b)
               w == WithFirstLive(m)
    <2>5. Loaded(f) = w
        <3> DEFINE ht == HeadAndTail(f)
        <3>1. ht[1] = h /\ ht[2] = t
            BY <2>3
        <3>2. Loaded(f) = WithFirstLive(LoadNodes([Fresh(f) EXCEPT !.head = ht[1], !.tail = ht[2],
                                                                   !.count = Count(f, ht[2])]))
            BY <1>5, Zenon DEF Loaded
        <3> HIDE DEF ht
        <3> QED BY <2>4, <3>1, <3>2
    <2>12. b = Before(f, h, t, c)
        BY DEF Before
    <2> HIDE DEF b
    <2>6. Fit(b) /\ Reading(b, b) /\ b.flash = f /\ b.tail = t /\ b.images = {f} /\ b.count = c
        BY <1>2, <1>3, <2>12, BeforeReading
    <2>7. /\ Reading(b, m)
          /\ m.ok => m.avail \in 1 .. SECTION /\ m.avail % PAGE = 0
        BY <1>2, <2>1, <2>2, <2>6, LoadNodesGoes
    <2> HIDE DEF m
    <2>8. m.ok => Fit(m)
        BY <1>2, <2>6, <2>7, ReadIsFit
    <2>9. m \in ReadLogs /\ m.images = {f} /\ m.list \in [Sections -> Seq(SizedNode)]
          /\ m.head \in Sections
        BY <2>6, <2>7 DEF Reading, ReadLogs
    <2>10. CASE Lists(m) = {}
        <3>1. w = [m EXCEPT !.ok = FALSE]
            BY <2>10 DEF WithFirstLive
        <3> HIDE DEF w
        <3>2. w.ok = FALSE /\ w.images = {f}
            BY <2>9, <3>1 DEF ReadLogs
        <3> QED BY <2>5, <3>2
    <2>11. CASE Lists(m) # {}
        <3> DEFINE T == {s \in Sections : m.list[s] # <<>>}
                   p == Preceding(m.head)
                   g == FirstAfter(p, T)
        <3>1. w = [m EXCEPT !.gc = g]
            BY <2>11 DEF WithFirstLive
        <3>2. p \in Sections
            BY <2>9, PrecedingBack
        <3>3. T # {}
            <4>1. PICK s \in Sections : \E i \in DOMAIN m.list[s] : TRUE
                BY <2>11 DEF Lists
            <4>2. m.list[s] # <<>>
                BY <4>1
            <4> QED BY <4>2
        <3>4. g \in Sections
            <4> HIDE DEF p
            <4>1. T \in SUBSET Sections
                OBVIOUS
            <4> HIDE DEF T
            <4>2. g \in T
                BY <3>2, <3>3, <4>1, FirstIs
            <4> QED BY <4>1, <4>2
        <3> HIDE DEF w, g
        <3>5. w.images = {f} /\ w.ok = m.ok
            BY <2>9, <3>1 DEF ReadLogs
        <3>6. m.ok => Fit(w)
            BY <2>8, <3>1, <3>4, FitGc
        <3> QED BY <2>5, <3>5, <3>6
    <2> QED BY <2>10, <2>11
<1> QED BY <1>4, <1>5

\* Between two operations there is one content of the flash.
LEMMA SettledFits ==
    ASSUME NEW m, Fit(m)
    PROVE  Fit(Settled(m)) /\ Settled(m).images = {m.flash}
<1> DEFINE f == m.flash
           n == Settled(m)
<1>1. m \in SoundLogs /\ f \in Flashes(SoundCell) /\ f \in m.images
    BY SoundFields DEF Fit, Ranged
<1>2. n = [m EXCEPT !.images = {f}]
    BY DEF Settled
<1>3. {f} \in SUBSET Flashes(SoundCell)
    BY <1>1
<1> DEFINE i == {f}
<1> HIDE DEF n, i
<1>4. /\ n \in SoundLogs /\ n.list = m.list /\ n.buf = m.buf /\ n.tail = m.tail
      /\ n.avail = m.avail /\ n.count = m.count /\ n.flash = m.flash /\ n.images = i
    <2>1. n = [m EXCEPT !.images = i] /\ i \in SUBSET Flashes(SoundCell)
        BY <1>2, <1>3 DEF i
    <2> HIDE DEF f
    <2> QED BY <1>1, <2>1 DEF SoundLogs, Logs
<1>5. From(n) = From(m)
    BY <1>4 DEF From
<1>6. n.flash \in n.images /\ \A x \in n.images : Chained(x)
    BY <1>1, <1>4 DEF Fit, Ranged, i
<1>7. Ranged(n)
    BY <1>4, <1>5, <1>6 DEF Fit, Ranged
<1>8. KeysOnce(n)
    BY <1>4 DEF Fit, KeysOnce
<1> QED BY <1>4, <1>7, <1>8 DEF Fit, n, i

\* What holds whenever the power may be lost.
Startable == (\A f \in fs.images : Chained(f)) /\ (fs.ok => Fit(fs))

\* The search that begins at the first valid section ends at the oldest and the newest.
LEMMA ChainedIsFound ==
    ASSUME NEW f, Chained(f), ValidSections(f) # {}, 2 * SECTIONS <= LOOPS
    PROVE  LET ends == HeadAndTail(f) IN
           /\ {ends[1], ends[2]} \subseteq ValidSections(f)
           /\ \A s \in ValidSections(f) : Count(f, s) \in Count(f, ends[1]) .. Count(f, ends[2])
<1>1. SECTIONS \in Nat /\ LOOPS \in Nat \ {0}
    BY LogAssumption
<1>2. PICK t \in Sections, c \in 0 .. LOOPS - 1, n \in 0 .. SECTIONS : Rising(f, t, c, n)
    BY DEF Chained
<1>3. \A s \in Sections : Back(t, s) \in 0 .. SECTIONS - 1
    BY BackIs
<1>4. n \in 1 .. SECTIONS /\ c \in Nat
    <2> SUFFICES ASSUME n = 0 PROVE FALSE
        BY <1>1
    <2>1. PICK s \in Sections : f[s][1] # Erased
        BY DEF ValidSections
    <2>2. ~(Back(t, s) < n)
        BY <1>1, <1>3
    <2> QED BY <1>2, <2>1, <2>2 DEF Rising
<1>5. PICK h \in Sections : Back(t, h) = n - 1 /\ HeadAndTail(f) = <<h, t>>
    BY <1>2, <1>4, FindsEnds
<1>6. Back(t, t) = 0
    BY BackIs
<1>8. ASSUME NEW s \in Sections, Back(t, s) < n
      PROVE  s \in ValidSections(f) /\ Count(f, s) = c - Back(t, s)
    BY <1>2, <1>8, HeadIsCell DEF Rising, ValidSections
<1>9. ASSUME NEW s \in ValidSections(f) PROVE s \in Sections /\ Back(t, s) < n
    BY <1>2 DEF Rising, ValidSections
<1>10. /\ h \in ValidSections(f) /\ Count(f, h) = c - (n - 1)
       /\ t \in ValidSections(f) /\ Count(f, t) = c
    <2>1. Back(t, h) < n /\ Back(t, t) < n
        BY <1>4, <1>5, <1>6
    <2>2. Count(f, h) = c - (n - 1) /\ Count(f, t) = c - 0
        BY <1>5, <1>6, <1>8, <2>1
    <2> QED BY <1>4, <1>8, <2>1, <2>2
<1>11. ASSUME NEW s \in ValidSections(f) PROVE Count(f, s) \in Count(f, h) .. Count(f, t)
    <2>1. Count(f, s) = c - Back(t, s) /\ Back(t, s) \in 0 .. n - 1
        BY <1>3, <1>4, <1>8, <1>9
    <2> QED BY <1>4, <1>10, <2>1
<1> DEFINE ends == HeadAndTail(f)
<1>12. ends[1] = h /\ ends[2] = t
    BY <1>5
<1> HIDE DEF ends
<1> QED BY <1>10, <1>11, <1>12 DEF ends

\* The stack's first start.
LEMMA StartsStartable ==
    ASSUME IsFiniteSet(Keys), 2 * SECTIONS <= LOOPS, FsInit,
           fs.count + Cardinality(Keys) + 1 < LOOPS
    PROVE  Startable
<1> DEFINE f == [s \in Sections |-> BlankSection]
           b == Loaded(f)
<1>1. PICK v \in Values : fs = Settled(WrittenThrough(Written(b, Own, v)))
    BY RunAssumption DEF FsInit
<1> DEFINE n == Written(b, Own, v)
           m == WrittenThrough(n)
<1>2. /\ SECTIONS \in Nat /\ SECTIONS >= 3 /\ SECTION \in Nat \ {0} /\ LOOPS \in Nat \ {0}
      /\ 0 \in Sections /\ 1 \in 1 .. SECTION
    BY LogAssumption, StoreAssumption DEF Sections
<1>3. n.gc = 0 /\ n.tail = 0
    BY FirstWrite
<1>4. f \in Flashes(SoundCell)
    BY DEF Flashes, BlankSection, SoundCell
<1>5. \A s \in Sections : f[s][1] = Erased
    BY <1>2 DEF BlankSection
<1> HIDE DEF n, f
<1>6. Rising(f, 0, 0, 0)
    <2>1. \A s \in Sections : ~(Back(0, s) < 0)
        BY <1>2, BackIs
    <2> QED BY <1>5, <2>1 DEF Rising
<1>7. Chained(f)
    <2>1. 0 \in 0 .. LOOPS - 1 /\ 0 \in 0 .. SECTIONS
        BY <1>2
    <2> QED BY <1>2, <1>4, <1>6, <2>1 DEF Chained
<1>8. b.ok = TRUE /\ b.count = 0
    <2>1. b = Fresh(f)
        BY <1>5 DEF Loaded, ValidSections
    <2> HIDE DEF b
    <2> QED BY <2>1 DEF Fresh
<1>9. Fit(b)
    BY <1>7, <1>8, LoadedFits
<1>10. b.count + Cardinality(Keys) + 1 < LOOPS
    <2>1. fs.count \in Nat
        <3>1. fs.count \in 0 .. LOOPS - 1
            BY StartsSound DEF Live, GoodLog, Logs
        <3> QED BY <1>2, <3>1
    <2>2. Cardinality(Keys) \in Nat
        BY FS_CardinalityType
    <2> HIDE DEF b
    <2> QED BY <1>2, <1>8, <2>1, <2>2
<1> HIDE DEF b
<1>11. Fit(n)
    BY <1>9, <1>10, OperationsReach, RunAssumption DEF n
<1>12. ~MustCollect(n, PAGE - (n.avail % PAGE))
    <2>1. Following(0) = 1 /\ Preceding(0) = SECTIONS - 1
        BY <1>2, FollowingIs, PrecedingIs
    <2> QED BY <1>2, <1>3, <2>1 DEF MustCollect
<1>13. Fit(m)
    <2>1. CASE n.avail % PAGE = 0
        BY <1>11, <2>1 DEF WrittenThrough
    <2>2. CASE n.avail % PAGE # 0
        <3>1. m = WriteOut(n)
            BY <1>12, <2>2 DEF WrittenThrough
        <3>2. Fit(WriteOut(n))
            BY <1>11, <2>2, WriteOutGoes DEF Further, Reached
        <3> QED BY <3>1, <3>2
    <2> QED BY <2>1, <2>2
<1>14. fs = Settled(m)
    BY <1>1 DEF n
<1> HIDE DEF m
<1> QED BY <1>13, <1>14, SettledFits DEF Startable, Fit, Ranged

\* Every step of the store, a loss of power at any point of it too.
LEMMA StepStartable ==
    ASSUME IsFiniteSet(Keys), 2 * SECTIONS <= LOOPS, Startable, FsNext,
           fs.count + Cardinality(Keys) + 1 < LOOPS
    PROVE  Startable'
<1>1. ASSUME NEW m, Done(m), Fit(m) PROVE Startable'
    <2>1. fs' = Settled(m)
        BY <1>1 DEF Done
    <2>2. Fit(Settled(m)) /\ Settled(m).images = {m.flash} /\ Chained(m.flash)
        BY <1>1, SettledFits DEF Fit, Ranged
    <2> QED BY <2>1, <2>2 DEF Startable
<1>2. ASSUME NEW m, NEW c, CutOff(m, c), Fit(m) PROVE Startable'
    <2>1. PICK f \in m.images : fs' = Loaded(f)
        BY <1>2 DEF CutOff
    <2>2. Chained(f)
        BY <1>2 DEF Fit, Ranged
    <2>3. Loaded(f).images = {f} /\ (Loaded(f).ok => Fit(Loaded(f)))
        BY <2>2, LoadedFits
    <2> QED BY <2>1, <2>2, <2>3 DEF Startable
<1>3. fs.ok => /\ Fit(fs)
               /\ \A k \in Keys, v \in Values : Fit(Written(fs, k, v))
               /\ \A k \in Keys : Nodes(fs, k) # {} => Fit(Deleted(fs, k))
               /\ Fit(WrittenThrough(fs))
    BY OperationsReach DEF Startable
<1>4. ASSUME NEW k \in Keys, NEW v \in Values, tinyfs_write(k, v) PROVE Startable'
    BY <1>1, <1>3, <1>4 DEF tinyfs_write, CanChange, CanGrow
<1>5. ASSUME NEW k \in Keys, tinyfs_del_record(k) PROVE Startable'
    BY <1>1, <1>3, <1>5 DEF tinyfs_del_record, CanChange, CanGrow
<1>6. CASE tinyfs_write_through
    BY <1>1, <1>3, <1>6 DEF tinyfs_write_through
<1>7. CASE LossOfPower
    BY <1>2, <1>3, <1>7 DEF LossOfPower
<1> QED BY <1>4, <1>5, <1>6, <1>7 DEF FsNext

\* Wherever the power is lost, also in a collection and between the erase of a section and
\* the program of its head, a start finds the oldest and the newest section
\* (tinyfs.c:255-276), as long as the loop count (877-905) does not come round.
THEOREM StartsFindEnds ==
    ASSUME IsFiniteSet(Keys), 2 * SECTIONS <= LOOPS
    PROVE  FsSpec /\ [](fs.count + Cardinality(Keys) + 1 < LOOPS) => []EndsAreFound
<1> DEFINE Low == fs.count + Cardinality(Keys) + 1 < LOOPS
<1>1. FsInit /\ Low => Startable
    BY StartsStartable
<1>2. Startable /\ Low /\ Low' /\ [FsNext]_fsVars => Startable'
    <2>1. CASE FsNext
        BY <2>1, StepStartable
    <2>2. CASE UNCHANGED fsVars
        BY <2>2 DEF fsVars, Startable
    <2> QED BY <2>1, <2>2
<1>3. Startable => EndsAreFound
    BY ChainedIsFound DEF Startable, EndsAreFound
<1> HIDE DEF Low
<1>4. FsSpec /\ []Low => []EndsAreFound
    BY <1>1, <1>2, <1>3, PTL DEF FsSpec
<1> QED BY <1>4 DEF Low
================================================================================
