--------------------------- MODULE FotaService_proofs --------------------------
(***************************************************************************)
(* The safety of a firmware update for any number of images, sectors and   *)
(* segments, and any number of updates, losses and power failures.         *)
(*                                                                         *)
(* First the layout of a sector (FotaSegments), which makes it right to    *)
(* take a segment for one cell of flash.  Then the log of a setting: in    *)
(* every state its slots are used in order, only the last one used may     *)
(* hold a value, so what settings_get returns is the only value there is.  *)
(* Then the update itself.                                                 *)
(***************************************************************************)
EXTENDS FotaService, FotaSegments, SequenceTheorems, TLAPS

--------------------------------------------------------------------------------
(* Division.                                                               *)

\* Division and its rest.
LEMMA DivRest ==
    ASSUME NEW a \in Nat, NEW b \in Nat \ {0}
    PROVE  /\ a \div b \in Nat /\ a % b \in 0..(b - 1)
           /\ a = (a \div b) * b + (a % b)
<1> QED
  BY SMTT(60)

--------------------------------------------------------------------------------
(* The pieces of a segment.                                                 *)

\* No program of a segment crosses the end of a page.
THEOREM PieceInPage ==
    ASSUME NEW start \in Nat, NEW len \in Nat \ {0}, NEW p \in Pieces(start, len)
    PROVE  /\ p.at \in Nat /\ p.len \in 1..PageSize
           /\ p.at \div PageSize = (p.at + p.len - 1) \div PageSize
<1> DEFINE page == (start \div PageSize + 1) * PageSize
           rest == start + len - page
           whole == rest \div PageSize
<1>1. page \in Nat /\ start < page /\ page <= start + PageSize /\ page % PageSize = 0
  BY DEF PageSize
<1>2. CASE start + len <= page
  <2>1. p = [at |-> start, len |-> len]
    BY <1>2 DEF Pieces
  <2> QED
    BY <1>1, <1>2, <2>1 DEF PageSize
<1>3. CASE start + len > page
  <2>1. rest \in Nat /\ whole \in Nat
    BY <1>1, <1>3 DEF PageSize
  <2>2. CASE p = [at |-> start, len |-> page - start]
    BY <1>1, <2>2 DEF PageSize
  <2>3. CASE \E k \in 0..(whole - 1) : p = [at |-> page + k * PageSize, len |-> PageSize]
    BY <1>1, <2>1, <2>3 DEF PageSize
  <2>4. CASE p = [at |-> page + whole * PageSize, len |-> rest % PageSize] /\ p.len > 0
    BY <1>1, <2>1, <2>4 DEF PageSize
  <2>5. Pieces(start, len) =
            {[at |-> start, len |-> page - start]}
            \cup {[at |-> page + k * PageSize, len |-> PageSize] : k \in 0..(whole - 1)}
            \cup {q \in {[at |-> page + whole * PageSize, len |-> rest % PageSize]} : q.len > 0}
    BY <1>1, <1>3 DEF Pieces
  <2> QED
    BY <2>2, <2>3, <2>4, <2>5
<1> QED
  BY <1>1, <1>2, <1>3 DEF PageSize

\* The programs of a segment write the bytes of the segment and no other.
THEOREM PiecesCover ==
    ASSUME NEW start \in Nat, NEW len \in Nat \ {0}
    PROVE  UNION {Bytes(p) : p \in Pieces(start, len)} = start .. (start + len - 1)
<1> DEFINE page == (start \div PageSize + 1) * PageSize
           rest == start + len - page
           whole == rest \div PageSize
           First == [at |-> start, len |-> page - start]
           Body(k) == [at |-> page + k * PageSize, len |-> PageSize]
           Last == [at |-> page + whole * PageSize, len |-> rest % PageSize]
<1>1. page \in Nat /\ start < page
  BY DEF PageSize
<1>2. CASE start + len <= page
  <2>1. Pieces(start, len) = {[at |-> start, len |-> len]}
    BY <1>2 DEF Pieces
  <2> QED
    BY <2>1 DEF Bytes
<1>3. CASE start + len > page
  <2>1. /\ rest \in Nat /\ whole \in Nat /\ rest % PageSize \in Nat
        /\ rest = whole * PageSize + (rest % PageSize)
    <3>1. rest \in Nat
      BY <1>1, <1>3
    <3>2. PageSize \in Nat \ {0}
      BY DEF PageSize
    <3>3. whole \in Nat /\ rest % PageSize \in 0..(PageSize - 1)
      BY <3>1, <3>2, DivRest, Zenon
    <3>4. rest = whole * PageSize + (rest % PageSize)
      BY <3>1, <3>2, DivRest, Zenon
    <3>5. rest % PageSize \in Nat
      BY <3>2, <3>3
    <3> QED
      BY <3>1, <3>3, <3>4, <3>5
  <2>2. Pieces(start, len) =
            {First} \cup {Body(k) : k \in 0..(whole - 1)} \cup {q \in {Last} : q.len > 0}
    BY <1>1, <1>3 DEF Pieces
  <2>3. ASSUME NEW p \in Pieces(start, len), NEW b \in Bytes(p)
        PROVE  b \in start .. (start + len - 1)
    <3>1. CASE p = First
      BY <1>1, <1>3, <2>1, <2>3, <3>1 DEF Bytes, PageSize
    <3>2. CASE \E k \in 0..(whole - 1) : p = Body(k)
      BY <1>1, <1>3, <2>1, <2>3, <3>2 DEF Bytes, PageSize
    <3>3. CASE p = Last
      BY <1>1, <1>3, <2>1, <2>3, <3>3 DEF Bytes, PageSize
    <3> QED
      BY <2>2, <2>3, <3>1, <3>2, <3>3
  <2>4. ASSUME NEW b \in start .. (start + len - 1)
        PROVE  \E p \in Pieces(start, len) : b \in Bytes(p)
    <3>1. CASE b < page
      <4>1. b \in Bytes(First)
        BY <1>1, <2>4, <3>1 DEF Bytes
      <4> HIDE DEF First
      <4> QED
        BY <2>2, <4>1
    <3>2. CASE b >= page /\ b < page + whole * PageSize
      <4>1. PICK k \in 0..(whole - 1) : page + k * PageSize <= b /\ b < page + k * PageSize + PageSize
        <5> DEFINE k == (b - page) \div PageSize
        <5>1. b - page \in Nat /\ b - page < whole * PageSize
          BY <1>1, <2>1, <2>4, <3>2 DEF PageSize
        <5>2. k \in Int /\ k * PageSize <= b - page /\ b - page < k * PageSize + PageSize
          BY <5>1 DEF PageSize
        <5>3. k \in 0..(whole - 1)
          BY <2>1, <5>1, <5>2 DEF PageSize
        <5> HIDE DEF k
        <5> QED
          BY <1>1, <2>4, <5>2, <5>3 DEF PageSize
      <4>2. b \in Bytes(Body(k))
        BY <1>1, <2>1, <2>4, <4>1 DEF Bytes, PageSize
      <4> QED
        BY <2>2, <4>1, <4>2
    <3>3. CASE b >= page + whole * PageSize
      <4>1. rest % PageSize > 0 /\ Last.len > 0 /\ b \in Bytes(Last)
        BY <1>1, <1>3, <2>1, <2>4, <3>3 DEF Bytes, PageSize
      <4> HIDE DEF Last
      <4> QED
        BY <2>2, <4>1
    <3> QED
      BY <1>1, <2>1, <2>4, <3>1, <3>2, <3>3 DEF PageSize
  <2> QED
    BY <2>3, <2>4
<1> QED
  BY <1>1, <1>2, <1>3

--------------------------------------------------------------------------------
(* The segments of a sector.                                                *)

\* The number of segments by its two bounds.
LEMMA CountBounds ==
    ASSUME NEW max \in Lengths
    PROVE  /\ Count(max) \in Nat \ {0}
           /\ (Count(max) - 1) * max < SectorSize
           /\ SectorSize <= Count(max) * max
<1>1. max \in Int /\ max >= 19 /\ max <= 515
  BY DEF Lengths
<1> QED
  BY <1>1, Z3 DEF Count, SectorSize

\* The segments of a sector lie one after the other, and the last one ends
\* where the sector does: no segment reaches into another one or beyond the
\* sector.
THEOREM SegmentsPartition ==
    ASSUME NEW max \in Lengths
    PROVE  /\ \A seg \in 0..(Count(max) - 2) :
                  Start(seg, max) + Length(seg, max) = Start(seg + 1, max)
           /\ Start(Count(max) - 1, max) + Length(Count(max) - 1, max) = SectorSize
<1>1. max \in Int /\ max >= 19 /\ max <= 515
  BY DEF Lengths
<1> DEFINE n == Count(max)
<1>2. n \in Nat \ {0} /\ (n - 1) * max < SectorSize /\ SectorSize <= n * max
  BY CountBounds
<1>3. ASSUME NEW seg \in 0..(n - 2)
      PROVE  Start(seg, max) + Length(seg, max) = Start(seg + 1, max)
  <2>1. seg # n - 1 /\ seg \in Int
    BY <1>2, <1>3
  <2>2. Length(seg, max) = max
    BY <2>1 DEF Length
  <2>3. (seg + 1) * max = seg * max + max
    BY <1>1, <2>1
  <2> QED
    BY <2>2, <2>3 DEF Start
<1>4. Start(n - 1, max) + Length(n - 1, max) = SectorSize
  <2> DEFINE q == SectorSize \div max
             r == SectorSize % max
  <2>1. SectorSize \in Nat /\ max \in Nat \ {0}
    BY <1>1 DEF SectorSize
  <2>2. q \in Nat /\ r \in 0..(max - 1) /\ SectorSize = q * max + r
    BY <2>1, DivRest, Zenon
  <2>3. Length(n - 1, max) = IF r # 0 THEN r ELSE max
    BY DEF Length
  <2> HIDE DEF q, r, n
  <2>4. n = IF r # 0 THEN q + 1 ELSE q
    BY <1>1, <1>2, <2>1, <2>2, Z3
  <2>5. (n - 1) * max = IF r # 0 THEN q * max ELSE q * max - max
    BY <1>1, <2>2, <2>4, Z3
  <2> QED
    BY <1>1, <2>2, <2>3, <2>5 DEF Start, n
<1> QED
  BY <1>3, <1>4

\* Every segment has its bit in the acknowledgement, and its number fits the
\* byte of the packet.
THEOREM SegmentHasBit ==
    ASSUME NEW max \in Lengths
    PROVE  Count(max) <= AckBits /\ AckBits <= 256
<1> QED
  BY CountBounds, Z3 DEF Lengths, SectorSize, AckBits

--------------------------------------------------------------------------------
USE FotaAssumption

--------------------------------------------------------------------------------
(* The log of a setting.                                                    *)

Free == {"BLANK", "SET"}

\* Behind a slot that is blank or holds the value all slots are blank.
Ordered(slots) ==
    \A n \in Settings : \A i, j \in 1..Slots[n] :
        i < j /\ slots[n][i] \in Free => slots[n][j] = "BLANK"

LEMMA SlotsRange == \A n \in Settings : Slots[n] \in 1..6
BY DEF Settings, Slots

LEMMA LogsType ==
    ASSUME NEW l
    PROVE  l \in Logs <=> /\ l = [n \in Settings |-> l[n]]
                          /\ \A n \in Settings : l[n] \in [1..Slots[n] -> Slot]
<1>1. ASSUME l \in Logs
      PROVE  l = [n \in Settings |-> l[n]] /\ \A n \in Settings : l[n] \in [1..Slots[n] -> Slot]
  BY <1>1 DEF Logs
<1>2. ASSUME l = [n \in Settings |-> l[n]], \A n \in Settings : l[n] \in [1..Slots[n] -> Slot]
      PROVE  l \in Logs
  BY <1>2 DEF Logs
<1> QED
  BY <1>1, <1>2

\* The search of _settings_get.
LEMMA OffsetIs ==
    ASSUME NEW l \in Logs, NEW n \in Settings
    PROVE  /\ Offset(l, n) \in 0..Slots[n]
           /\ Offset(l, n) = 0 => \A i \in 1..Slots[n] : l[n][i] \notin Free
           /\ Offset(l, n) # 0 => /\ l[n][Offset(l, n)] \in Free
                                  /\ \A i \in 1..Slots[n] : i < Offset(l, n) => l[n][i] \notin Free
<1> DEFINE ends == {i \in 1..Slots[n] : l[n][i] \in {"BLANK", "SET"}}
<1>1. Slots[n] \in 1..6
  BY SlotsRange
<1>2. CASE ends = {}
  BY <1>1, <1>2 DEF Offset, Free
<1>3. CASE ends # {}
  <2>1. ends \subseteq 1..6
    BY <1>1
  <2>2. \E i \in ends : \A j \in ends : i <= j
    <3> HIDE DEF ends
    <3>1. CASE \E k \in {1, 2, 3} : k \in ends
      BY <2>1, <3>1
    <3>2. CASE (\A k \in {1, 2, 3} : k \notin ends) /\ 4 \in ends
      BY <2>1, <3>2
    <3>3. CASE (\A k \in {1, 2, 3, 4} : k \notin ends) /\ 5 \in ends
      BY <2>1, <3>3
    <3>4. CASE (\A k \in {1, 2, 3, 4, 5} : k \notin ends) /\ 6 \in ends
      BY <2>1, <3>4
    <3>5. \E k \in {1, 2, 3, 4, 5, 6} : k \in ends
      <4>1. PICK k : k \in ends
        BY <1>3, Zenon
      <4>2. k \in 1..6
        BY <2>1, <4>1
      <4> QED
        BY <4>1, <4>2
    <3>6. \/ \E k \in {1, 2, 3} : k \in ends
          \/ (\A k \in {1, 2, 3} : k \notin ends) /\ 4 \in ends
          \/ (\A k \in {1, 2, 3, 4} : k \notin ends) /\ 5 \in ends
          \/ (\A k \in {1, 2, 3, 4, 5} : k \notin ends) /\ 6 \in ends
      BY <3>5
    <3> QED
      BY <3>1, <3>2, <3>3, <3>4, <3>6, Zenon
  <2>3. Offset(l, n) \in ends /\ \A j \in ends : Offset(l, n) <= j
    BY <1>3, <2>2 DEF Offset
  <2> QED
    BY <1>1, <2>3 DEF Free
<1> QED
  BY <1>2, <1>3

\* In an ordered log a value is found if and only if there is one.
LEMMA FoundIfThere ==
    ASSUME NEW l \in Logs, Ordered(l), NEW n \in Settings
    PROVE  IsSet(l, n) <=> \E i \in 1..Slots[n] : l[n][i] = "SET"
<1>1. Slots[n] \in 1..6
  BY SlotsRange
<1>2. ASSUME IsSet(l, n)
      PROVE  \E i \in 1..Slots[n] : l[n][i] = "SET"
  BY <1>1, <1>2, OffsetIs DEF IsSet
<1>3. ASSUME NEW i \in 1..Slots[n], l[n][i] = "SET"
      PROVE  IsSet(l, n)
  <2>1. Offset(l, n) # 0
    BY <1>3, OffsetIs DEF Free
  <2>2. Offset(l, n) \in 1..Slots[n] /\ Offset(l, n) <= i
    BY <1>1, <1>3, <2>1, OffsetIs DEF Free
  <2>3. CASE Offset(l, n) = i
    BY <1>3, <2>1, <2>3 DEF IsSet
  <2>4. CASE Offset(l, n) < i
    BY <1>3, <2>1, <2>2, <2>4, OffsetIs DEF Ordered
  <2> QED
    BY <1>1, <2>2, <2>3, <2>4
<1> QED
  BY <1>2, <1>3

\* Whether a setting is set depends on its own log only.
LEMMA OwnLog ==
    ASSUME NEW l, NEW k, NEW n \in Settings, l[n] = k[n]
    PROVE  IsSet(l, n) <=> IsSet(k, n)
BY DEF IsSet, Offset

\* The erased page: every setting may be written, none is set.
LEMMA ErasedLog ==
    /\ Erased \in Logs /\ Ordered(Erased)
    /\ \A n \in Settings : ~IsSet(Erased, n)
<1>1. \A n \in Settings : Erased[n] = [i \in 1..Slots[n] |-> "BLANK"]
  BY DEF Erased
<1>2. Erased \in Logs
  BY <1>1, LogsType DEF Erased, Slot
<1>3. Ordered(Erased)
  BY <1>1 DEF Ordered
<1> QED
  BY <1>1, <1>2, <1>3, FoundIfThere

\* Making a value invalid leaves none, the next slot and those behind it blank,
\* and those before it used.
LEMMA InvalidLog ==
    ASSUME NEW l \in Logs, Ordered(l), NEW n \in Settings
    PROVE  /\ MakeInvalid(l, n) \in Logs /\ Ordered(MakeInvalid(l, n))
           /\ ~IsSet(MakeInvalid(l, n), n)
           /\ \A m \in Settings : m # n => MakeInvalid(l, n)[m] = l[m]
           /\ IsSet(l, n) =>
                \A i \in 1..Slots[n] :
                    IF i <= Offset(l, n) THEN MakeInvalid(l, n)[n][i] \notin Free
                    ELSE MakeInvalid(l, n)[n][i] = "BLANK"
<1> DEFINE at == Offset(l, n)
           k == MakeInvalid(l, n)
<1>1. Slots[n] \in 1..6
  BY SlotsRange
<1>2. CASE ~IsSet(l, n)
  BY <1>2 DEF MakeInvalid
<1>3. CASE IsSet(l, n)
  <2>1. at \in 1..Slots[n] /\ l[n][at] = "SET"
    BY <1>1, <1>3, OffsetIs DEF IsSet
  <2>2. k = [l EXCEPT ![n][at] = "INVALID"]
    BY <1>3 DEF MakeInvalid
  <2>3. /\ l = [m \in Settings |-> l[m]]
        /\ \A m \in Settings : l[m] \in [1..Slots[m] -> Slot]
    BY LogsType
  <2>4. /\ k = [m \in Settings |-> k[m]]
        /\ \A m \in Settings : m # n => k[m] = l[m]
        /\ k[n] = [l[n] EXCEPT ![at] = "INVALID"]
    BY <2>2, <2>3
  <2>5. /\ k[n] \in [1..Slots[n] -> Slot] /\ k[n][at] = "INVALID"
        /\ \A i \in 1..Slots[n] : i # at => k[n][i] = l[n][i]
    <3> HIDE DEF k, at
    <3>1. "INVALID" \in Slot
      BY DEF Slot
    <3>2. l[n] \in [1..Slots[n] -> Slot]
      BY <2>3
    <3> QED
      BY <2>1, <2>4, <3>1, <3>2
  <2> HIDE DEF k
  <2>6. k \in Logs
    BY <2>3, <2>4, <2>5, LogsType
  <2> HIDE DEF at
  <2>7. \A i \in 1..Slots[n] : IF i <= at THEN k[n][i] \notin Free ELSE k[n][i] = "BLANK"
    <3> SUFFICES ASSUME NEW i \in 1..Slots[n]
                 PROVE  IF i <= at THEN k[n][i] \notin Free ELSE k[n][i] = "BLANK"
      OBVIOUS
    <3>1. CASE i = at
      BY <1>1, <2>1, <2>5, <3>1 DEF Free
    <3>2. CASE i < at
      BY <1>1, <2>1, <2>5, <3>2, OffsetIs DEF at
    <3>3. CASE i > at
      BY <1>1, <2>1, <2>5, <3>3 DEF Ordered, Free
    <3> QED
      BY <1>1, <2>1, <3>1, <3>2, <3>3
  <2>8. Ordered(k)
    <3> SUFFICES ASSUME NEW m \in Settings, NEW i \in 1..Slots[m], NEW j \in 1..Slots[m],
                        i < j, k[m][i] \in Free
                 PROVE  k[m][j] = "BLANK"
      BY DEF Ordered
    <3>1. CASE m = n
      BY <1>1, <2>1, <2>7, <3>1
    <3>2. CASE m # n
      BY <2>4, <3>2 DEF Ordered
    <3> QED
      BY <3>1, <3>2
  <2>9. ~IsSet(k, n)
    BY <1>1, <2>1, <2>6, <2>7, <2>8, FoundIfThere DEF Free
  <2> QED
    BY <2>4, <2>6, <2>7, <2>8, <2>9 DEF k, at
<1> QED
  BY <1>2, <1>3

\* A slot that may be programmed: it and those behind it are blank, those
\* before it are used up.
NextSlot(slots, n, at) ==
    \A i \in 1..Slots[n] : IF i < at THEN slots[n][i] \notin Free ELSE slots[n][i] = "BLANK"

\* Programming it, whether to the end or not, keeps the order.
LEMMA WrittenLog ==
    ASSUME NEW l \in Logs, Ordered(l), NEW n \in Settings, NEW at \in Nat \ {0},
           NextSlot(l, n, at), NEW s \in {"SET", "TORN"}
    PROVE  /\ Write(l, n, at, s) \in Logs /\ Ordered(Write(l, n, at, s))
           /\ \A m \in Settings : m # n => Write(l, n, at, s)[m] = l[m]
<1> DEFINE k == Write(l, n, at, s)
<1>1. Slots[n] \in 1..6
  BY SlotsRange
<1>2. CASE at \notin 1..Slots[n]
  BY <1>2 DEF Write
<1>3. CASE at \in 1..Slots[n]
  <2>1. k = [l EXCEPT ![n][at] = s]
    BY <1>3 DEF Write
  <2>2. /\ l = [m \in Settings |-> l[m]]
        /\ \A m \in Settings : l[m] \in [1..Slots[m] -> Slot]
    BY LogsType
  <2>3. /\ k = [m \in Settings |-> k[m]]
        /\ \A m \in Settings : m # n => k[m] = l[m]
        /\ k[n] = [l[n] EXCEPT ![at] = s]
    BY <2>1, <2>2
  <2>4. /\ k[n] \in [1..Slots[n] -> Slot] /\ k[n][at] = s
        /\ \A i \in 1..Slots[n] : i # at => k[n][i] = l[n][i]
    <3> HIDE DEF k
    <3>1. s \in Slot
      BY DEF Slot
    <3>2. l[n] \in [1..Slots[n] -> Slot]
      BY <2>2
    <3> QED
      BY <1>3, <2>3, <3>1, <3>2
  <2> HIDE DEF k
  <2>5. k \in Logs
    BY <2>2, <2>3, <2>4, LogsType
  <2>6. Ordered(k)
    <3> SUFFICES ASSUME NEW m \in Settings, NEW i \in 1..Slots[m], NEW j \in 1..Slots[m],
                        i < j, k[m][i] \in Free
                 PROVE  k[m][j] = "BLANK"
      BY DEF Ordered
    <3>1. CASE m = n
      <4>1. i >= at
        BY <1>1, <1>3, <2>4, <3>1 DEF NextSlot
      <4>2. j > at
        BY <1>1, <1>3, <3>1, <4>1
      <4> QED
        BY <1>1, <1>3, <2>4, <3>1, <4>2 DEF NextSlot
    <3>2. CASE m # n
      BY <2>3, <3>2 DEF Ordered
    <3> QED
      BY <3>1, <3>2
  <2> QED
    BY <2>3, <2>5, <2>6 DEF k
<1> QED
  BY <1>2, <1>3

\* Where the search stops without a value the next one may be programmed.
LEMMA StopIsNext ==
    ASSUME NEW l \in Logs, Ordered(l), NEW n \in Settings, ~IsSet(l, n), Offset(l, n) # 0
    PROVE  NextSlot(l, n, Offset(l, n))
<1>1. Slots[n] \in 1..6
  BY SlotsRange
<1>2. Offset(l, n) \in 1..Slots[n] /\ l[n][Offset(l, n)] = "BLANK"
  BY <1>1, OffsetIs DEF IsSet, Free
<1>3. \A i \in 1..Slots[n] : i < Offset(l, n) => l[n][i] \notin Free
  BY OffsetIs
<1>4. \A i \in 1..Slots[n] : i > Offset(l, n) => l[n][i] = "BLANK"
  BY <1>1, <1>2 DEF Ordered, Free
<1> QED
  BY <1>1, <1>2, <1>3, <1>4 DEF NextSlot

--------------------------------------------------------------------------------
(* The inductive invariant.                                                 *)

\* A slot chosen by settings_set is the one behind the value it made invalid.
SlotChosen ==
    cpu.slot # 0 =>
        /\ cpu.mode = "FINISH" /\ cpu.todo # <<>>
        /\ ~IsSet(log, Setting) /\ NextSlot(log, Setting, cpu.slot)

\* A copy is requested from the last write of FINISH_CMD to ota_copy_done_set,
\* and of a whole image.
CopyRequest ==
    /\ cpu.mode \in {"APP", "SETTINGS"} => ~IsSet(log, "copy")
    /\ cpu.mode \in {"COPY", "PROGRAM"} => IsSet(log, "copy")
    /\ cpu.mode = "FINISH" => client.pc = "FINISH"
    /\ CopyIsWhole

\* What the region that runs holds: an image, or the part that is copied.
RunRegion ==
    /\ cpu.mode = "SETTINGS" => \E i \in Images : run = Whole(i)
    /\ cpu.mode \in {"COPY", "PROGRAM"} => \A s \in Sectors : s < cpu.at => run[s] = load[s]
    /\ cpu.mode = "PROGRAM" => cpu.at \in Sectors /\ \A g \in Segs : run[cpu.at][g] = {}
    /\ RunsWhole

\* What the load region holds: the sectors that are done, the one that is
\* being sent, and nothing behind it.
LoadRegion ==
    /\ cpu.mode \notin {"APP", "FINISH"} => client.pc = "OFF"
    /\ client.pc \in {"NEXT", "SENDING"} => client.sector \in Sectors
    /\ client.pc \in {"VERIFY", "FINISH"} => client.sector = NSECTORS
    /\ client.pc \in {"NEXT", "SENDING", "VERIFY", "FINISH"} =>
         \A s \in Sectors, g \in Segs :
            /\ s < client.sector => load[s][g] = {client.image}
            /\ s > client.sector => load[s][g] = {}
            /\ s = client.sector /\ client.pc = "NEXT" => load[s][g] = {}
            /\ s = client.sector /\ client.pc = "SENDING" => load[s][g] \in {{}, {client.image}}
    /\ client.pc = "SENDING" => env.current_sector = client.sector
    /\ AckedIsStored

IInv ==
    /\ TypeOK /\ Ordered(log) /\ SlotChosen
    /\ CopyRequest /\ RunRegion /\ LoadRegion /\ BusyIsConnected

--------------------------------------------------------------------------------
(* Initial states and steps.                                                *)

LEMMA Rows ==
    /\ \A s \in Sectors : Blank[s] = [g \in Segs |-> {}]
    /\ \A i \in Images, s \in Sectors : Whole(i)[s] = [g \in Segs |-> {i}]
    /\ \A i \in Images : Whole(i) \in [Sectors -> [Segs -> SUBSET Images]]
    /\ Blank \in [Sectors -> [Segs -> SUBSET Images]]
    /\ 0 \in Sectors /\ 0 \in 0..NSECTORS
BY DEF Blank, Whole, Sectors

LEMMA InitInv == Init => IInv
<1> SUFFICES ASSUME Init
             PROVE  IInv
  OBVIOUS
<1>1. TypeOK
  BY Rows, ErasedLog DEF Init, TypeOK, App, IdleEnv, Modes, Stages
<1>2. Ordered(log) /\ ~IsSet(log, "copy")
  BY ErasedLog DEF Init, Settings
<1>3. cpu.mode = "APP" /\ cpu.slot = 0 /\ client.pc = "OFF" /\ env.state = "IDLE"
  BY DEF Init, App, IdleEnv
<1>4. \E i \in Images : run = Whole(i)
  BY DEF Init
<1> QED
  BY <1>1, <1>2, <1>3, <1>4
  DEF IInv, SlotChosen, CopyRequest, RunRegion, LoadRegion, BusyIsConnected, RunsWhole,
      CopyIsWhole, AckedIsStored

\* Power comes back, with settings in order and a copy requested only of a
\* whole image.
LEMMA StartsInv ==
    ASSUME IInv, NEW l \in Logs, Ordered(l), StartsWith(l),
           IsSet(l, "copy") => \E i \in Images : load = Whole(i),
           \/ cpu.mode \notin {"COPY", "PROGRAM"}
           \/ IsSet(l, "copy")
    PROVE  IInv'
<1>1. /\ log' = l /\ load' = load /\ run' = run
      /\ env' = IdleEnv /\ client' = Gone
      /\ cpu' = [App EXCEPT !.mode = IF IsSet(l, "copy") THEN "COPY" ELSE "SETTINGS"]
  BY DEF StartsWith
<1>2. TypeOK'
  <2>1. TypeOK
    BY DEF IInv
  <2>2. cpu' \in [mode : Modes, at : 0..NSECTORS, todo : Seq(Settings), slot : 0..7]
    <3> DEFINE m == IF IsSet(l, "copy") THEN "COPY" ELSE "SETTINGS"
    <3>1. m \in Modes
      BY DEF Modes
    <3> HIDE DEF m
    <3>2. cpu' = [mode |-> m, at |-> 0, todo |-> <<>>, slot |-> 0]
      BY <1>1 DEF App, m
    <3> QED
      BY <3>1, <3>2, Rows
  <2>3. env' \in [state : {"IDLE", "BUSY"}, current_sector : Sectors, ack : SUBSET Segs]
    BY <1>1, Rows DEF IdleEnv
  <2>4. client' \in [pc : Stages, image : Images, sector : 0..NSECTORS, todo : SUBSET Segs]
    BY <1>1, <2>1, Rows DEF TypeOK, Gone, Stages
  <2> QED
    BY <1>1, <2>1, <2>2, <2>3, <2>4 DEF TypeOK
<1>3. /\ cpu'.mode = IF IsSet(l, "copy") THEN "COPY" ELSE "SETTINGS"
      /\ cpu'.at = 0 /\ cpu'.slot = 0
  BY <1>1 DEF App
<1>4. client'.pc = "OFF" /\ env'.state = "IDLE"
  BY <1>1 DEF IInv, TypeOK, Gone, IdleEnv
<1>5. ~IsSet(l, "copy") => \E i \in Images : run = Whole(i)
  <2>1. cpu.mode \in Modes
    BY DEF IInv, TypeOK
  <2> QED
    BY <2>1 DEF IInv, RunRegion, RunsWhole, Modes
<1>6. SlotChosen'
  BY <1>3 DEF SlotChosen
<1>7. CopyRequest'
  BY <1>1, <1>3 DEF CopyRequest, CopyIsWhole
<1>8. RunRegion'
  BY <1>1, <1>3, <1>5 DEF RunRegion, RunsWhole, Sectors
<1>9. LoadRegion' /\ BusyIsConnected'
  BY <1>4 DEF LoadRegion, AckedIsStored, BusyIsConnected
<1> QED
  BY <1>1, <1>2, <1>6, <1>7, <1>8, <1>9 DEF IInv

\* The requests of the application and the connection: the settings and the
\* region that runs are left alone.
LEMMA RequestInv ==
    ASSUME IInv,
           \/ Connect \/ Disconnect \/ CancelUpdate
           \/ \E i \in Images : START_REQ(i)
           \/ NEW_SECTOR_CMD
           \/ \E g \in Segs : DATA(g) \/ DataLost(g)
           \/ ReadAck \/ INTEGRITY_CHECK_REQ
    PROVE  IInv'
<1>1. /\ cpu' = cpu /\ run' = run /\ log' = log /\ cpu.mode = "APP"
  BY DEF Connect, Disconnect, CancelUpdate, START_REQ, NEW_SECTOR_CMD, DATA, DataLost, Sends,
         ReadAck, INTEGRITY_CHECK_REQ, Asks
<1>2. /\ TypeOK /\ ~IsSet(log, "copy") /\ LoadRegion /\ BusyIsConnected
      /\ Ordered(log) /\ SlotChosen /\ RunRegion
  BY <1>1 DEF IInv, CopyRequest
<1>3. Ordered(log)' /\ SlotChosen' /\ CopyRequest' /\ RunRegion'
  BY <1>1, <1>2 DEF SlotChosen, CopyRequest, CopyIsWhole, RunRegion, RunsWhole, Ordered
<1>4. TypeOK' /\ LoadRegion' /\ BusyIsConnected'
  <2>1. CASE Connect
    BY <1>1, <1>2, <2>1
    DEF Connect, TypeOK, Stages, LoadRegion, AckedIsStored, BusyIsConnected
  <2>2. CASE Disconnect
    <3>1. client' = Gone /\ env' = [env EXCEPT !.state = "IDLE"] /\ load' = load
      BY <2>2 DEF Disconnect
    <3>2. /\ client'.pc = "OFF" /\ env'.state = "IDLE"
          /\ client' \in [pc : Stages, image : Images, sector : 0..NSECTORS, todo : SUBSET Segs]
          /\ env' \in [state : {"IDLE", "BUSY"}, current_sector : Sectors, ack : SUBSET Segs]
      BY <1>2, <3>1, Rows DEF Gone, TypeOK, Stages
    <3> QED
      BY <1>1, <1>2, <3>1, <3>2 DEF TypeOK, LoadRegion, AckedIsStored, BusyIsConnected
  <2>3. CASE CancelUpdate
    BY <1>1, <1>2, <2>3
    DEF CancelUpdate, Asks, TypeOK, Stages, LoadRegion, AckedIsStored, BusyIsConnected
  <2>4. ASSUME NEW i \in Images, START_REQ(i)
        PROVE  TypeOK' /\ LoadRegion' /\ BusyIsConnected'
    <3>1. /\ client' = [client EXCEPT !.pc = "NEXT", !.image = i, !.sector = 0]
          /\ env' = [env EXCEPT !.state = "BUSY"] /\ load' = Blank
      BY <2>4 DEF START_REQ
    <3>2. /\ client'.pc = "NEXT" /\ client'.image = i /\ client'.sector = 0
          /\ client' \in [pc : Stages, image : Images, sector : 0..NSECTORS, todo : SUBSET Segs]
          /\ env' \in [state : {"IDLE", "BUSY"}, current_sector : Sectors, ack : SUBSET Segs]
      BY <1>2, <3>1, Rows DEF TypeOK, Stages
    <3>3. \A s \in Sectors, g \in Segs : load'[s][g] = {} /\ ~(s < 0)
      BY <3>1, Rows DEF Sectors
    <3> QED
      BY <1>1, <1>2, <3>1, <3>2, <3>3, Rows
      DEF TypeOK, LoadRegion, AckedIsStored, BusyIsConnected
  <2>5. CASE NEW_SECTOR_CMD
    <3> DEFINE at == client.sector
    <3>1. /\ client.pc = "NEXT" /\ load' = load
          /\ client' = [client EXCEPT !.pc = "SENDING", !.todo = Segs]
          /\ env' = [env EXCEPT !.current_sector = at, !.ack = {}]
      BY <2>5 DEF NEW_SECTOR_CMD, Asks
    <3>2. at \in Sectors
      BY <1>2, <3>1 DEF LoadRegion
    <3>3. /\ client'.pc = "SENDING" /\ client'.image = client.image /\ client'.sector = at
          /\ client' \in [pc : Stages, image : Images, sector : 0..NSECTORS, todo : SUBSET Segs]
          /\ env' \in [state : {"IDLE", "BUSY"}, current_sector : Sectors, ack : SUBSET Segs]
          /\ env'.current_sector = at /\ env'.ack = {}
      BY <1>2, <3>1, <3>2 DEF TypeOK, Stages
    <3>4. TypeOK' /\ BusyIsConnected'
      BY <1>1, <1>2, <3>1, <3>3 DEF TypeOK, BusyIsConnected
    <3>5. LoadRegion'
      BY <1>1, <1>2, <3>1, <3>2, <3>3 DEF LoadRegion, AckedIsStored
    <3> QED
      BY <3>4, <3>5
  <2>6. ASSUME NEW g \in Segs, DATA(g)
        PROVE  TypeOK' /\ LoadRegion' /\ BusyIsConnected'
    <3> DEFINE s0 == client.sector
    <3>1. /\ client.pc = "SENDING" /\ env.current_sector = s0 /\ s0 \in Sectors
          /\ client' = [client EXCEPT !.todo = @ \ {g}]
          /\ env' = [env EXCEPT !.ack = @ \cup {g}]
          /\ load' = [load EXCEPT ![s0][g] = @ \cup {client.image}]
      BY <1>2, <2>6 DEF DATA, Sends, Asks, LoadRegion
    <3>2. /\ client'.pc = "SENDING" /\ client'.image = client.image /\ client'.sector = s0
          /\ client' \in [pc : Stages, image : Images, sector : 0..NSECTORS, todo : SUBSET Segs]
          /\ env' \in [state : {"IDLE", "BUSY"}, current_sector : Sectors, ack : SUBSET Segs]
          /\ env'.current_sector = s0 /\ env'.ack = env.ack \cup {g}
      BY <1>2, <3>1 DEF TypeOK
    <3>3. /\ load' \in [Sectors -> [Segs -> SUBSET Images]]
          /\ load'[s0][g] = load[s0][g] \cup {client.image}
          /\ \A s \in Sectors, h \in Segs : s # s0 \/ h # g => load'[s][h] = load[s][h]
      BY <1>2, <3>1 DEF TypeOK
    <3>4. load[s0][g] \in {{}, {client.image}}
      BY <1>2, <3>1 DEF LoadRegion
    <3>5. load'[s0][g] = {client.image}
      BY <3>3, <3>4
    <3>6. TypeOK' /\ BusyIsConnected'
      BY <1>1, <1>2, <3>2, <3>3 DEF TypeOK, BusyIsConnected
    <3>7. \A s \in Sectors : s \in Nat /\ s0 \in Nat
      BY <3>1 DEF Sectors
    <3>8. \A s \in Sectors, h \in Segs :
            /\ s < s0 => load'[s][h] = {client.image}
            /\ s > s0 => load'[s][h] = {}
            /\ s = s0 => load'[s][h] \in {{}, {client.image}}
      BY <1>2, <3>1, <3>3, <3>5, <3>7 DEF LoadRegion
    <3>9. \A h \in env'.ack : load'[s0][h] = {client.image}
      <4>1. \A h \in env.ack : h \in Segs /\ load[s0][h] = {client.image}
        BY <1>2, <3>1 DEF LoadRegion, AckedIsStored, TypeOK
      <4> QED
        BY <3>1, <3>2, <3>3, <3>5, <4>1
    <3> HIDE DEF s0
    <3> QED
      BY <1>1, <3>1, <3>2, <3>6, <3>8, <3>9 DEF LoadRegion, AckedIsStored
  <2>7. ASSUME NEW g \in Segs, DataLost(g)
        PROVE  TypeOK' /\ LoadRegion' /\ BusyIsConnected'
    BY <1>1, <1>2, <2>7
    DEF DataLost, Sends, Asks, TypeOK, Stages, LoadRegion, AckedIsStored, BusyIsConnected
  <2>8. CASE ReadAck
    <3>1. /\ client.pc = "SENDING" /\ load' = load /\ env' = env
          /\ client.sector \in Sectors /\ env.current_sector = client.sector
      BY <1>2, <2>8 DEF ReadAck, Asks, LoadRegion
    <3>2. CASE env.ack # Segs
      <4>1. client' = [client EXCEPT !.todo = Segs \ env.ack]
        BY <2>8, <3>2 DEF ReadAck
      <4>2. /\ client'.pc = client.pc /\ client'.image = client.image /\ client'.sector = client.sector
            /\ client' \in [pc : Stages, image : Images, sector : 0..NSECTORS, todo : SUBSET Segs]
        BY <1>2, <4>1 DEF TypeOK
      <4> QED
        BY <1>1, <1>2, <3>1, <4>2 DEF TypeOK, LoadRegion, AckedIsStored, BusyIsConnected
    <3>3. CASE env.ack = Segs
      <4>1. client' = [client EXCEPT !.sector = @ + 1,
                          !.pc = IF client.sector + 1 = NSECTORS THEN "VERIFY" ELSE "NEXT"]
        BY <2>8, <3>3 DEF ReadAck
      <4>2. client.sector \in Nat /\ client.sector + 1 \in 0..NSECTORS
        BY <3>1 DEF Sectors
      <4>3. /\ client'.pc = IF client.sector + 1 = NSECTORS THEN "VERIFY" ELSE "NEXT"
            /\ client'.image = client.image /\ client'.sector = client.sector + 1
            /\ client' \in [pc : Stages, image : Images, sector : 0..NSECTORS, todo : SUBSET Segs]
        <5>1. (IF client.sector + 1 = NSECTORS THEN "VERIFY" ELSE "NEXT") \in Stages
          BY DEF Stages
        <5> QED
          BY <1>2, <4>1, <4>2, <5>1 DEF TypeOK
      <4>4. \A g \in Segs : load[client.sector][g] = {client.image}
        BY <1>2, <3>1, <3>3 DEF LoadRegion, AckedIsStored
      <4>5. \A s \in Sectors : s \in Nat /\ s < NSECTORS
        BY DEF Sectors
      <4>6. \A s \in Sectors, g \in Segs :
              /\ s < client.sector + 1 => load[s][g] = {client.image}
              /\ s >= client.sector + 1 => load[s][g] = {}
        BY <1>2, <3>1, <4>2, <4>4, <4>5 DEF LoadRegion
      <4>7. client.sector + 1 # NSECTORS => client.sector + 1 \in Sectors
        BY <4>2 DEF Sectors
      <4>8. TypeOK' /\ BusyIsConnected'
        BY <1>1, <1>2, <3>1, <4>3 DEF TypeOK, BusyIsConnected
      <4>9. CASE client'.pc = "NEXT"
        BY <1>1, <3>1, <4>2, <4>3, <4>5, <4>6, <4>7, <4>8, <4>9 DEF LoadRegion, AckedIsStored
      <4>10. CASE client'.pc = "VERIFY"
        BY <1>1, <3>1, <4>2, <4>3, <4>5, <4>6, <4>8, <4>10 DEF LoadRegion, AckedIsStored
      <4> QED
        BY <4>3, <4>9, <4>10
    <3> QED
      BY <3>2, <3>3
  <2>9. CASE INTEGRITY_CHECK_REQ
    <3>1. /\ client.pc = "VERIFY" /\ load' = load /\ env' = env
          /\ \/ client' = [client EXCEPT !.pc = "FINISH"]
             \/ client' = [client EXCEPT !.pc = "READY", !.sector = 0]
      BY <2>9 DEF INTEGRITY_CHECK_REQ, Asks
    <3>2. /\ client' \in [pc : Stages, image : Images, sector : 0..NSECTORS, todo : SUBSET Segs]
          /\ \/ /\ client'.pc = "FINISH" /\ client'.image = client.image
                /\ client'.sector = client.sector
             \/ client'.pc = "READY"
      BY <1>2, <3>1, Rows DEF TypeOK, Stages
    <3> QED
      BY <1>1, <1>2, <3>1, <3>2 DEF TypeOK, LoadRegion, AckedIsStored, BusyIsConnected
  <2> QED
    BY <2>1, <2>2, <2>3, <2>4, <2>5, <2>6, <2>7, <2>8, <2>9
<1> QED
  BY <1>3, <1>4 DEF IInv

\* An application that has had every sector acknowledged has its image in the
\* load region.
LEMMA LoadIsWhole ==
    ASSUME TypeOK, LoadRegion, client.pc = "FINISH"
    PROVE  load = Whole(client.image) /\ client.image \in Images
<1>1. \A s \in Sectors, g \in Segs : load[s][g] = {client.image}
  BY DEF LoadRegion, Sectors
<1>2. load \in [Sectors -> [Segs -> SUBSET Images]] /\ client.image \in Images
  BY DEF TypeOK
<1> QED
  BY <1>1, <1>2 DEF Whole

\* FINISH_CMD and the settings it writes: the load region holds the image, so
\* any copy requested is one of a whole image.
LEMMA FinishInv ==
    ASSUME IInv,
           \/ \E cmd \in FinishCmds : FINISH_CMD(cmd)
           \/ InvalidateOld \/ WriteNew \/ AssertFails
    PROVE  IInv'
<1>1. load' = load /\ run' = run
  BY DEF FINISH_CMD, InvalidateOld, WriteNew, AssertFails
<1>2. /\ TypeOK /\ Ordered(log) /\ SlotChosen /\ LoadRegion /\ RunsWhole /\ BusyIsConnected
      /\ cpu.mode \in {"APP", "FINISH"} /\ client.pc = "FINISH"
  BY DEF IInv, CopyRequest, RunRegion, FINISH_CMD, Asks, InvalidateOld, WriteNew, AssertFails,
         MayWrite, Finishing
<1>3. (\E i \in Images : run = Whole(i)) /\ \E i \in Images : load = Whole(i)
  BY <1>2, LoadIsWhole DEF RunsWhole
<1>4. CopyIsWhole' /\ RunsWhole'
  BY <1>1, <1>3 DEF CopyIsWhole, RunsWhole
<1>5. ASSUME NEW cmd \in FinishCmds, FINISH_CMD(cmd)
      PROVE  IInv'
  <2>1. /\ cpu' = [cpu EXCEPT !.mode = "FINISH", !.todo = Plan(cmd)]
        /\ env' = env /\ log' = log /\ client' = client /\ cpu.mode = "APP"
    BY <1>5 DEF FINISH_CMD, Asks
  <2>2. Plan(cmd) \in Seq(Settings)
    <3>1. \A n \in Settings : <<n>> \in Seq(Settings)
      OBVIOUS
    <3>2. "boot" \in Settings /\ "erase" \in Settings /\ "copy" \in Settings
      BY DEF Settings
    <3> QED
      BY <3>1, <3>2 DEF Plan
  <2>3. /\ cpu'.mode = "FINISH" /\ cpu'.slot = 0
        /\ cpu' \in [mode : Modes, at : 0..NSECTORS, todo : Seq(Settings), slot : 0..7]
    <3>1. cpu.slot = 0
      BY <1>2, <2>1 DEF SlotChosen
    <3> QED
      BY <1>2, <2>1, <2>2, <3>1 DEF TypeOK, Modes
  <2>4. TypeOK'
    BY <1>1, <1>2, <2>1, <2>3 DEF TypeOK
  <2> QED
    BY <1>1, <1>2, <1>4, <2>1, <2>3, <2>4
    DEF IInv, SlotChosen, CopyRequest, RunRegion, LoadRegion, AckedIsStored, BusyIsConnected
<1>6. ASSUME Finishing
      PROVE  /\ cpu.mode = "FINISH" /\ Setting \in Settings
             /\ Tail(cpu.todo) \in Seq(Settings) /\ cpu.todo # <<>>
  BY <1>2, <1>6 DEF Finishing, Setting, TypeOK
<1>7. CASE InvalidateOld
  <2>1. /\ Finishing /\ IsSet(log, Setting) /\ log' = MakeInvalid(log, Setting)
        /\ cpu' = [cpu EXCEPT !.slot = Offset(log, Setting) + 1]
        /\ env' = env /\ client' = client
    BY <1>7 DEF InvalidateOld
  <2>2. Setting \in Settings /\ cpu.todo # <<>> /\ cpu.mode = "FINISH"
    BY <1>6, <2>1
  <2> DEFINE n == Setting
  <2>3. Offset(log, n) \in 1..Slots[n] /\ Slots[n] \in 1..6 /\ log \in Logs
    BY <1>2, <2>1, <2>2, OffsetIs, SlotsRange DEF IsSet, TypeOK
  <2>4. /\ log' \in Logs /\ Ordered(log') /\ ~IsSet(log', n)
        /\ \A i \in 1..Slots[n] : IF i <= Offset(log, n) THEN log'[n][i] \notin Free
                                                        ELSE log'[n][i] = "BLANK"
    BY <1>2, <2>1, <2>2, <2>3, InvalidLog
  <2>5. /\ cpu'.mode = "FINISH" /\ cpu'.todo = cpu.todo /\ cpu'.slot = Offset(log, n) + 1
        /\ cpu' \in [mode : Modes, at : 0..NSECTORS, todo : Seq(Settings), slot : 0..7]
    <3>1. Offset(log, n) + 1 \in 0..7
      BY <2>3
    <3> QED
      BY <1>2, <2>1, <2>2, <3>1 DEF TypeOK
  <2>6. Setting' = n
    BY <2>5 DEF Setting
  <2>7. NextSlot(log', n, Offset(log, n) + 1)
    BY <2>3, <2>4 DEF NextSlot
  <2>8. SlotChosen'
    BY <2>2, <2>4, <2>5, <2>6, <2>7 DEF SlotChosen
  <2>9. TypeOK'
    BY <1>1, <1>2, <2>1, <2>4, <2>5 DEF TypeOK
  <2>10. LoadRegion' /\ BusyIsConnected'
    BY <1>1, <1>2, <2>1, <2>5 DEF LoadRegion, AckedIsStored, BusyIsConnected
  <2> QED
    BY <1>2, <1>4, <2>1, <2>4, <2>5, <2>8, <2>9, <2>10 DEF IInv, CopyRequest, RunRegion
<1>8. CASE WriteNew
  <2>1. /\ Finishing /\ MayWrite /\ Target # 0
        /\ log' = Write(log, Setting, Target, "SET")
        /\ cpu' = [cpu EXCEPT !.todo = Tail(@), !.slot = 0]
        /\ env' = env /\ client' = client
    BY <1>8 DEF WriteNew, MayWrite
  <2>2. /\ Setting \in Settings /\ cpu.mode = "FINISH" /\ log \in Logs
        /\ Tail(cpu.todo) \in Seq(Settings)
    BY <1>2, <1>6, <2>1 DEF TypeOK
  <2>3. Target \in Nat \ {0} /\ NextSlot(log, Setting, Target)
    <3>1. CASE cpu.slot # 0
      BY <1>2, <2>1, <3>1 DEF Target, SlotChosen, TypeOK
    <3>2. CASE cpu.slot = 0
      <4>1. Target = Offset(log, Setting) /\ ~IsSet(log, Setting)
        BY <2>1, <3>2 DEF Target, MayWrite
      <4>2. Slots[Setting] \in 1..6
        BY <2>2, SlotsRange
      <4> QED
        BY <1>2, <2>1, <2>2, <4>1, <4>2, StopIsNext, OffsetIs
    <3> QED
      BY <3>1, <3>2
  <2>4. log' \in Logs /\ Ordered(log')
    BY <1>2, <2>1, <2>2, <2>3, WrittenLog
  <2>5. /\ cpu'.mode = "FINISH" /\ cpu'.slot = 0
        /\ cpu' \in [mode : Modes, at : 0..NSECTORS, todo : Seq(Settings), slot : 0..7]
    <3>1. /\ cpu \in [mode : Modes, at : 0..NSECTORS, todo : Seq(Settings), slot : 0..7]
          /\ 0 \in 0..7
      BY <1>2 DEF TypeOK
    <3> QED
      BY <2>1, <2>2, <3>1
  <2>6. TypeOK'
    BY <1>1, <1>2, <2>1, <2>4, <2>5 DEF TypeOK
  <2>7. LoadRegion' /\ BusyIsConnected'
    BY <1>1, <1>2, <2>1, <2>5 DEF LoadRegion, AckedIsStored, BusyIsConnected
  <2> QED
    BY <1>2, <1>4, <2>1, <2>4, <2>5, <2>6, <2>7 DEF IInv, SlotChosen, CopyRequest, RunRegion
<1>9. CASE AssertFails
  <2>1. /\ Finishing /\ MayWrite /\ Target = 0 /\ log' = log /\ client' = Gone
        /\ cpu' = [cpu EXCEPT !.mode = "STUCK", !.todo = <<>>]
        /\ env' = [env EXCEPT !.state = "IDLE"]
    BY <1>9 DEF AssertFails, MayWrite
  <2>2. cpu.slot = 0
    BY <2>1 DEF Target
  <2>3. /\ cpu'.mode = "STUCK" /\ cpu'.slot = 0
        /\ cpu' \in [mode : Modes, at : 0..NSECTORS, todo : Seq(Settings), slot : 0..7]
    <3>1. /\ cpu \in [mode : Modes, at : 0..NSECTORS, todo : Seq(Settings), slot : 0..7]
          /\ <<>> \in Seq(Settings) /\ "STUCK" \in Modes
      BY <1>2 DEF TypeOK, Modes
    <3> QED
      BY <2>1, <2>2, <3>1
  <2>4. /\ client'.pc = "OFF" /\ env'.state = "IDLE"
        /\ client' \in [pc : Stages, image : Images, sector : 0..NSECTORS, todo : SUBSET Segs]
        /\ env' \in [state : {"IDLE", "BUSY"}, current_sector : Sectors, ack : SUBSET Segs]
    BY <1>2, <2>1, Rows DEF Gone, TypeOK, Stages
  <2>5. TypeOK'
    BY <1>1, <1>2, <2>1, <2>3, <2>4 DEF TypeOK
  <2> QED
    BY <1>1, <1>2, <1>4, <2>1, <2>3, <2>4, <2>5
    DEF IInv, SlotChosen, CopyRequest, RunRegion, LoadRegion, AckedIsStored, BusyIsConnected
<1> QED
  BY <1>5, <1>7, <1>8, <1>9

\* Reset and power loss.
LEMMA ResetInv ==
    ASSUME IInv, platform_reset \/ Crash \/ CrashInWrite
    PROVE  IInv'
<1>1. CASE platform_reset
  BY <1>1, StartsInv DEF platform_reset, IInv, TypeOK, CopyRequest, CopyIsWhole
<1>2. CASE Crash
  BY <1>2, StartsInv DEF Crash, IInv, TypeOK, CopyRequest, CopyIsWhole
<1>3. CASE CrashInWrite
  <2>1. /\ MayWrite /\ Finishing /\ Target # 0
        /\ StartsWith(Write(log, Setting, Target, "TORN"))
    BY <1>3 DEF CrashInWrite, MayWrite
  <2>2. /\ TypeOK /\ Ordered(log) /\ SlotChosen /\ LoadRegion /\ log \in Logs
        /\ cpu.mode = "FINISH" /\ client.pc = "FINISH" /\ Setting \in Settings
    BY <2>1 DEF IInv, CopyRequest, Finishing, Setting, TypeOK
  <2>3. Target \in Nat \ {0} /\ NextSlot(log, Setting, Target)
    <3>1. CASE cpu.slot # 0
      BY <2>1, <2>2, <3>1 DEF Target, SlotChosen, TypeOK
    <3>2. CASE cpu.slot = 0
      <4>1. Target = Offset(log, Setting) /\ ~IsSet(log, Setting)
        BY <2>1, <3>2 DEF Target, MayWrite
      <4>2. Slots[Setting] \in 1..6
        BY <2>2, SlotsRange
      <4> QED
        BY <2>1, <2>2, <4>1, <4>2, StopIsNext, OffsetIs
    <3> QED
      BY <3>1, <3>2
  <2> DEFINE l == Write(log, Setting, Target, "TORN")
  <2>4. l \in Logs /\ Ordered(l)
    BY <2>2, <2>3, WrittenLog
  <2>5. \E i \in Images : load = Whole(i)
    BY <2>2, LoadIsWhole
  <2> HIDE DEF l
  <2>6. StartsWith(l)
    BY <2>1 DEF l
  <2> QED
    BY <2>2, <2>4, <2>5, <2>6, StartsInv
<1> QED
  BY <1>1, <1>2, <1>3

\* The boot code: the copy, its end, and the settings.
LEMMA BootInv ==
    ASSUME IInv, Boot
    PROVE  IInv'
<1>1. /\ TypeOK /\ Ordered(log) /\ SlotChosen /\ CopyRequest /\ RunRegion /\ LoadRegion
      /\ BusyIsConnected /\ log \in Logs
      /\ env' = env /\ load' = load /\ client' = client
      /\ cpu.mode \in {"COPY", "PROGRAM", "SETTINGS"} /\ cpu.slot = 0 /\ client.pc = "OFF"
  BY DEF IInv, TypeOK, SlotChosen, LoadRegion, Boot, CopyErase, CopyProgram, CopyDone, EraseAndBoot
<1>2. LoadRegion' /\ BusyIsConnected'
  BY <1>1 DEF LoadRegion, AckedIsStored, BusyIsConnected
<1>3. CASE CopyErase
  <2>1. /\ cpu.mode = "COPY" /\ cpu.at \in Sectors /\ log' = log
        /\ run' = [run EXCEPT ![cpu.at] = [g \in Segs |-> {}]]
        /\ cpu' = [cpu EXCEPT !.mode = "PROGRAM"]
    BY <1>1, <1>3 DEF CopyErase, TypeOK, Sectors
  <2>2. /\ cpu'.mode = "PROGRAM" /\ cpu'.at = cpu.at /\ cpu'.slot = 0
        /\ cpu' \in [mode : Modes, at : 0..NSECTORS, todo : Seq(Settings), slot : 0..7]
    BY <1>1, <2>1 DEF TypeOK, Modes
  <2>3. /\ run' \in [Sectors -> [Segs -> SUBSET Images]]
        /\ \A g \in Segs : run'[cpu.at][g] = {}
        /\ \A s \in Sectors : s # cpu.at => run'[s] = run[s]
    BY <1>1, <2>1 DEF TypeOK
  <2>4. TypeOK'
    BY <1>1, <2>1, <2>2, <2>3 DEF TypeOK
  <2>5. RunRegion'
    BY <1>1, <2>1, <2>2, <2>3 DEF RunRegion, RunsWhole, Sectors
  <2> QED
    BY <1>1, <1>2, <2>1, <2>2, <2>4, <2>5 DEF IInv, SlotChosen, CopyRequest, CopyIsWhole
<1>4. CASE CopyProgram
  <2>1. /\ cpu.mode = "PROGRAM" /\ cpu.at \in Sectors /\ log' = log
        /\ run' = [run EXCEPT ![cpu.at] = [g \in Segs |-> @[g] \cup load[cpu.at][g]]]
        /\ cpu' = [cpu EXCEPT !.mode = "COPY", !.at = @ + 1]
        /\ \A g \in Segs : run[cpu.at][g] = {}
    BY <1>1, <1>4 DEF CopyProgram, RunRegion
  <2>2. /\ cpu'.mode = "COPY" /\ cpu'.at = cpu.at + 1 /\ cpu'.slot = 0
        /\ cpu' \in [mode : Modes, at : 0..NSECTORS, todo : Seq(Settings), slot : 0..7]
    <3>1. cpu.at + 1 \in 0..NSECTORS
      BY <2>1 DEF Sectors
    <3> QED
      BY <1>1, <2>1, <3>1 DEF TypeOK, Modes
  <2>3. /\ run'[cpu.at] = [g \in Segs |-> load[cpu.at][g]]
        /\ \A s \in Sectors : s # cpu.at => run'[s] = run[s]
    BY <1>1, <2>1 DEF TypeOK
  <2>4. run'[cpu.at] = load[cpu.at]
    BY <1>1, <2>1, <2>3 DEF TypeOK
  <2>5. run' \in [Sectors -> [Segs -> SUBSET Images]]
    BY <1>1, <2>1, <2>4 DEF TypeOK
  <2>6. TypeOK'
    BY <1>1, <2>1, <2>2, <2>5 DEF TypeOK
  <2>7. \A s \in Sectors : s < cpu.at + 1 => run'[s] = load[s]
    <3>1. \A s \in Sectors : s < cpu.at => run'[s] = load[s]
      BY <1>1, <2>1, <2>3 DEF RunRegion, Sectors
    <3>2. \A s \in Sectors : s < cpu.at + 1 => s < cpu.at \/ s = cpu.at
      BY <2>1 DEF Sectors
    <3> QED
      BY <2>4, <3>1, <3>2
  <2>8. RunRegion'
    BY <1>1, <2>2, <2>7 DEF RunRegion, RunsWhole
  <2> QED
    BY <1>1, <1>2, <2>1, <2>2, <2>6, <2>8 DEF IInv, SlotChosen, CopyRequest, CopyIsWhole
<1>5. CASE CopyDone
  <2>1. /\ cpu.mode = "COPY" /\ cpu.at = NSECTORS /\ run' = run
        /\ log' = MakeInvalid(log, "copy")
        /\ cpu' = [cpu EXCEPT !.mode = "SETTINGS"]
    BY <1>5 DEF CopyDone
  <2>2. log' \in Logs /\ Ordered(log') /\ ~IsSet(log', "copy")
    BY <1>1, <2>1, InvalidLog DEF Settings
  <2>3. /\ cpu'.mode = "SETTINGS" /\ cpu'.slot = 0
        /\ cpu' \in [mode : Modes, at : 0..NSECTORS, todo : Seq(Settings), slot : 0..7]
    BY <1>1, <2>1 DEF TypeOK, Modes
  <2>4. TypeOK'
    BY <1>1, <2>1, <2>2, <2>3 DEF TypeOK
  <2>5. \E i \in Images : run = Whole(i)
    <3>1. \A s \in Sectors : run[s] = load[s]
      BY <1>1, <2>1 DEF RunRegion, Sectors
    <3>2. run = load
      BY <1>1, <3>1 DEF TypeOK
    <3> QED
      BY <1>1, <2>1, <3>2 DEF CopyRequest, CopyIsWhole
  <2>6. RunRegion' /\ CopyRequest'
    BY <2>1, <2>2, <2>3, <2>5 DEF RunRegion, RunsWhole, CopyRequest, CopyIsWhole
  <2> QED
    BY <1>1, <1>2, <2>2, <2>3, <2>4, <2>6 DEF IInv, SlotChosen
<1>6. CASE EraseAndBoot
  <2>1. /\ cpu.mode = "SETTINGS" /\ cpu' = App /\ run' = run
        /\ log' = IF IsSet(log, "erase") THEN Erased ELSE log
    BY <1>6 DEF EraseAndBoot
  <2>2. log' \in Logs /\ Ordered(log') /\ ~IsSet(log', "copy")
    BY <1>1, <2>1, ErasedLog DEF CopyRequest, Settings
  <2>3. /\ cpu'.mode = "APP" /\ cpu'.slot = 0
        /\ cpu' \in [mode : Modes, at : 0..NSECTORS, todo : Seq(Settings), slot : 0..7]
    BY <2>1, Rows DEF App, Modes
  <2>4. TypeOK'
    BY <1>1, <2>1, <2>2, <2>3 DEF TypeOK
  <2>5. RunRegion' /\ CopyRequest'
    BY <1>1, <2>1, <2>2, <2>3 DEF RunRegion, RunsWhole, CopyRequest, CopyIsWhole
  <2> QED
    BY <1>1, <1>2, <2>2, <2>3, <2>4, <2>5 DEF IInv, SlotChosen
<1> QED
  BY <1>3, <1>4, <1>5, <1>6 DEF Boot

--------------------------------------------------------------------------------
(* The theorems.                                                            *)

\* The inductive invariant holds in every state.
THEOREM InvHolds == Spec => []IInv
<1>1. IInv /\ [Next]_vars => IInv'
  <2> SUFFICES ASSUME IInv, [Next]_vars
               PROVE  IInv'
    OBVIOUS
  <2>1. CASE Connect \/ Disconnect \/ CancelUpdate \/ \E i \in Images : START_REQ(i)
    BY <2>1, RequestInv
  <2>2. CASE Update
    BY <2>2, RequestInv, FinishInv DEF Update
  <2>3. CASE Lose
    BY <2>3, RequestInv DEF Lose
  <2>4. CASE Finish
    BY <2>4, FinishInv, ResetInv DEF Finish
  <2>5. CASE PowerLoss
    BY <2>5, ResetInv DEF PowerLoss
  <2>6. CASE Boot
    BY <2>6, BootInv
  <2>7. CASE UNCHANGED vars
    BY <2>7
    DEF vars, IInv, TypeOK, SlotChosen, Setting, CopyRequest, CopyIsWhole, RunRegion, RunsWhole,
        LoadRegion, AckedIsStored, BusyIsConnected
  <2> QED
    BY <2>1, <2>2, <2>3, <2>4, <2>5, <2>6, <2>7 DEF Next
<1> QED
  BY <1>1, InitInv, PTL DEF Spec

\* Every variable of the update keeps its type.
THEOREM TypeCorrect == Spec => []TypeOK
<1>1. IInv => TypeOK
  BY DEF IInv
<1> QED
  BY <1>1, InvHolds, PTL

\* Whenever the program runs it is one image and all of it, whatever was lost
\* and whenever power failed, up to the copy of the boot code (fw_copy,
\* ota_copy_done_set).
THEOREM AlwaysRunsWhole == Spec => []RunsWhole
<1>1. IInv => RunsWhole
  BY DEF IInv, RunRegion
<1> QED
  BY <1>1, InvHolds, PTL

\* A copy is requested only of a load region that holds one whole image, and
\* stays whole as long as the request stands (START_REQ erases it only after).
THEOREM AlwaysCopyIsWhole == Spec => []CopyIsWhole
<1>1. IInv => CopyIsWhole
  BY DEF IInv, CopyRequest
<1> QED
  BY <1>1, InvHolds, PTL

\* The acknowledgement read by the application tells the truth (fotas_env.ack).
THEOREM AckHonest == Spec => []AckedIsStored
<1>1. IInv => AckedIsStored
  BY DEF IInv, LoadRegion
<1> QED
  BY <1>1, InvHolds, PTL

\* The service is not busy without a connection (fota_clean_state).
THEOREM ServiceHonest == Spec => []BusyIsConnected
<1>1. IInv => BusyIsConnected
  BY DEF IInv
<1> QED
  BY <1>1, InvHolds, PTL

--------------------------------------------------------------------------------
(* An update as one step.                                                   *)

\* Two sequences put together, element by element.
LEMMA ConcatIs ==
    ASSUME NEW S, NEW s \in Seq(S), NEW t \in Seq(S), NEW u \in Seq(S),
           Len(u) = Len(s) + Len(t),
           \A i \in 1..Len(u) : u[i] = IF i <= Len(s) THEN s[i] ELSE t[i - Len(s)]
    PROVE  s \o t = u
<1>1. s \o t \in Seq(S) /\ Len(s \o t) = Len(u) /\ \A i \in 1..Len(u) : (s \o t)[i] = u[i]
  BY ConcatProperties
<1> QED
  BY <1>1, SeqEqual, Zenon

\* Short plans put together.
LEMMA PairOf ==
    ASSUME NEW S, NEW a \in S, NEW b \in S
    PROVE  <<a>> \o <<b>> = <<a, b>>
<1>1. <<a>> \in Seq(S) /\ <<b>> \in Seq(S) /\ <<a, b>> \in Seq(S)
  OBVIOUS
<1>2. /\ Len(<<a, b>>) = Len(<<a>>) + Len(<<b>>)
      /\ \A i \in 1..Len(<<a, b>>) :
            <<a, b>>[i] = IF i <= Len(<<a>>) THEN <<a>>[i] ELSE <<b>>[i - Len(<<a>>)]
  OBVIOUS
<1> QED
  BY <1>1, <1>2, ConcatIs, Zenon

LEMMA TripleOf ==
    ASSUME NEW S, NEW a \in S, NEW b \in S, NEW c \in S
    PROVE  <<a, b>> \o <<c>> = <<a, b, c>>
<1>1. <<a, b>> \in Seq(S) /\ <<c>> \in Seq(S) /\ <<a, b, c>> \in Seq(S)
  OBVIOUS
<1>2. /\ Len(<<a, b, c>>) = Len(<<a, b>>) + Len(<<c>>)
      /\ \A i \in 1..Len(<<a, b, c>>) :
            <<a, b, c>>[i] = IF i <= Len(<<a, b>>) THEN <<a, b>>[i] ELSE <<c>>[i - Len(<<a, b>>)]
  OBVIOUS
<1> QED
  BY <1>1, <1>2, ConcatIs, Zenon

\* The request to copy is the last setting FINISH_CMD writes: none stands while
\* there is one to write.
CopyLast ==
    cpu.mode = "FINISH" =>
        /\ cpu.todo \in {<<>>, <<"copy">>, <<"boot", "copy">>, <<"erase", "copy">>,
                         <<"boot", "erase", "copy">>}
        /\ cpu.todo # <<>> => ~IsSet(log, "copy")

\* What is left to write after a setting, and what that setting may be.
LEMMA CopyIsLast ==
    ASSUME CopyLast, Finishing
    PROVE  /\ ~IsSet(log, "copy") /\ Setting \in Settings
           /\ Tail(cpu.todo) \in {<<>>, <<"copy">>, <<"erase", "copy">>}
           /\ Setting = "copy" => Tail(cpu.todo) = <<>>
<1>1. /\ ~IsSet(log, "copy")
      /\ \/ cpu.todo = <<"copy">>
         \/ cpu.todo = <<"boot", "copy">>
         \/ cpu.todo = <<"erase", "copy">>
         \/ cpu.todo = <<"boot", "erase", "copy">>
  BY DEF CopyLast, Finishing
<1>2. /\ Head(<<"copy">>) = "copy" /\ Tail(<<"copy">>) = <<>>
      /\ Head(<<"boot", "copy">>) = "boot" /\ Tail(<<"boot", "copy">>) = <<"copy">>
      /\ Head(<<"erase", "copy">>) = "erase" /\ Tail(<<"erase", "copy">>) = <<"copy">>
      /\ Head(<<"boot", "erase", "copy">>) = "boot"
      /\ Tail(<<"boot", "erase", "copy">>) = <<"erase", "copy">>
  OBVIOUS
<1>3. CASE cpu.todo = <<"copy">>
  BY <1>1, <1>2, <1>3, Zenon DEF Setting, Settings
<1>4. CASE cpu.todo = <<"boot", "copy">>
  BY <1>1, <1>2, <1>4, Zenon DEF Setting, Settings
<1>5. CASE cpu.todo = <<"erase", "copy">>
  BY <1>1, <1>2, <1>5, Zenon DEF Setting, Settings
<1>6. CASE cpu.todo = <<"boot", "erase", "copy">>
  BY <1>1, <1>2, <1>6, Zenon DEF Setting, Settings
<1> QED
  BY <1>1, <1>3, <1>4, <1>5, <1>6

\* The log and the slot of a write of settings_set.
LEMMA OtherLogsStay ==
    ASSUME IInv, MayWrite, Target # 0, Setting \in Settings, NEW s \in {"SET", "TORN"}
    PROVE  /\ Write(log, Setting, Target, s) \in Logs /\ Ordered(Write(log, Setting, Target, s))
           /\ \A m \in Settings : m # Setting => Write(log, Setting, Target, s)[m] = log[m]
<1>1. /\ TypeOK /\ Ordered(log) /\ SlotChosen /\ log \in Logs
  BY DEF IInv, TypeOK
<1>2. Target \in Nat \ {0} /\ NextSlot(log, Setting, Target)
  <2>1. CASE cpu.slot # 0
    BY <1>1, <2>1 DEF Target, SlotChosen, TypeOK
  <2>2. CASE cpu.slot = 0
    <3>1. Target = Offset(log, Setting) /\ ~IsSet(log, Setting)
      BY <2>2 DEF Target, MayWrite
    <3>2. Slots[Setting] \in 1..6
      BY SlotsRange
    <3> QED
      BY <1>1, <3>1, <3>2, StopIsNext, OffsetIs
  <2> QED
    BY <2>1, <2>2
<1> QED
  BY <1>1, <1>2, WrittenLog

\* A torn slot is no value: the settings found after power loss in the middle of
\* a write are those before it.
LEMMA TornIsUnset ==
    ASSUME IInv, MayWrite, Target # 0, Setting \in Settings, NEW m \in Settings,
           ~IsSet(log, m)
    PROVE  ~IsSet(Write(log, Setting, Target, "TORN"), m)
<1> DEFINE l == Write(log, Setting, Target, "TORN")
<1>1. log \in Logs /\ Ordered(log)
  BY DEF IInv, TypeOK
<1>2. l \in Logs /\ Ordered(l) /\ \A n \in Settings : n # Setting => l[n] = log[n]
  BY OtherLogsStay
<1>3. CASE m # Setting
  <2> HIDE DEF l
  <2>1. l[m] = log[m]
    BY <1>2, <1>3
  <2> QED
    BY <2>1, OwnLog DEF l
<1>4. CASE m = Setting
  <2>1. \A i \in 1..Slots[m] : log[m][i] # "SET"
    BY <1>1, FoundIfThere
  <2>2. \A i \in 1..Slots[m] : l[m][i] # "SET"
    BY <1>1, <1>4, <2>1, LogsType DEF Write
  <2> HIDE DEF l
  <2> QED
    BY <1>2, <2>2, FoundIfThere DEF l
<1> QED
  BY <1>3, <1>4

\* FINISH_CMD plans the copy last, and nothing but its last write requests it.
LEMMA CopyLastInv ==
    ASSUME IInv, CopyLast, [Next]_vars
    PROVE  CopyLast'
<1>1. CASE UNCHANGED vars
  BY <1>1 DEF vars, CopyLast
<1>2. CASE \/ Connect \/ Disconnect \/ CancelUpdate
           \/ \E i \in Images : START_REQ(i)
           \/ NEW_SECTOR_CMD
           \/ \E g \in Segs : DATA(g) \/ DataLost(g)
           \/ ReadAck \/ INTEGRITY_CHECK_REQ
  BY <1>2
  DEF CopyLast, Connect, Disconnect, CancelUpdate, START_REQ, NEW_SECTOR_CMD, DATA, DataLost,
      Sends, ReadAck, INTEGRITY_CHECK_REQ, Asks
<1>3. ASSUME NEW cmd \in FinishCmds, FINISH_CMD(cmd)
      PROVE  CopyLast'
  <2>1. /\ cpu.mode = "APP" /\ log' = log /\ cpu'.todo = Plan(cmd)
        /\ ~IsSet(log, "copy")
    BY <1>3 DEF FINISH_CMD, Asks, IInv, TypeOK, CopyRequest
  <2>2. Plan(cmd) \in {<<"copy">>, <<"boot", "copy">>, <<"erase", "copy">>,
                       <<"boot", "erase", "copy">>}
    <3>1. cmd.copy = TRUE
      OBVIOUS
    <3>2. (<<>> \o <<>>) \o <<"copy">> = <<"copy">>
      OBVIOUS
    <3>3. /\ <<"boot">> \o <<>> = <<"boot">> /\ <<>> \o <<"erase">> = <<"erase">>
      OBVIOUS
    <3>4. "boot" \in Settings /\ "erase" \in Settings /\ "copy" \in Settings
      BY DEF Settings
    <3>5. (<<"boot">> \o <<>>) \o <<"copy">> = <<"boot", "copy">>
      BY <3>3, <3>4, PairOf, Zenon
    <3>6. (<<>> \o <<"erase">>) \o <<"copy">> = <<"erase", "copy">>
      BY <3>3, <3>4, PairOf, Zenon
    <3>7. <<"boot">> \o <<"erase">> = <<"boot", "erase">>
      BY <3>4, PairOf, Zenon
    <3>8. <<"boot", "erase">> \o <<"copy">> = <<"boot", "erase", "copy">>
      BY <3>4, TripleOf, Zenon
    <3> QED
      BY <3>1, <3>2, <3>5, <3>6, <3>7, <3>8, Zenon DEF Plan
  <2>3. IsSet(log, "copy")' <=> IsSet(log, "copy")
    BY <2>1
  <2> QED
    BY <2>1, <2>2, <2>3 DEF CopyLast
<1>4. CASE InvalidateOld
  <2>1. /\ Finishing /\ IsSet(log, Setting) /\ log' = MakeInvalid(log, Setting)
        /\ cpu'.todo = cpu.todo /\ cpu.mode = "FINISH" /\ log \in Logs /\ Ordered(log)
    BY <1>4 DEF InvalidateOld, Finishing, IInv, TypeOK
  <2>2. ~IsSet(log, "copy") /\ Setting \in Settings /\ Setting # "copy"
    BY <2>1, CopyIsLast
  <2>3. log'["copy"] = log["copy"]
    BY <2>1, <2>2, InvalidLog DEF Settings
  <2>4. ~IsSet(log', "copy")
    BY <2>2, <2>3, OwnLog DEF Settings
  <2> QED
    BY <2>1, <2>4 DEF CopyLast
<1>5. CASE WriteNew
  <2>1. /\ Finishing /\ MayWrite /\ Target # 0 /\ log' = Write(log, Setting, Target, "SET")
        /\ cpu'.todo = Tail(cpu.todo)
    BY <1>5 DEF WriteNew, MayWrite, IInv, TypeOK
  <2>2. /\ ~IsSet(log, "copy") /\ Setting \in Settings
        /\ Tail(cpu.todo) \in {<<>>, <<"copy">>, <<"erase", "copy">>}
        /\ Setting = "copy" => Tail(cpu.todo) = <<>>
    BY <2>1, CopyIsLast
  <2>3. ASSUME Setting # "copy"
        PROVE  ~IsSet(log', "copy")
    <3>1. log'["copy"] = log["copy"]
      BY <2>1, <2>2, <2>3, OtherLogsStay DEF Settings
    <3> QED
      BY <2>2, <3>1, OwnLog DEF Settings
  <2> QED
    BY <2>1, <2>2, <2>3 DEF CopyLast
<1>6. CASE AssertFails \/ platform_reset \/ Crash \/ CrashInWrite \/ Boot
  <2>1. CASE AssertFails
    BY <2>1 DEF AssertFails, IInv, TypeOK, CopyLast
  <2>2. CASE platform_reset \/ Crash \/ CrashInWrite
    <3>1. cpu'.mode \in {"COPY", "SETTINGS"}
      BY <2>2 DEF platform_reset, Crash, CrashInWrite, StartsWith, App
    <3> QED
      BY <3>1 DEF CopyLast
  <2>3. CASE Boot
    <3>1. cpu \in [mode : Modes, at : 0..NSECTORS, todo : Seq(Settings), slot : 0..7]
      BY DEF IInv, TypeOK
    <3>2. CASE CopyErase
      BY <3>1, <3>2 DEF CopyErase, CopyLast
    <3>3. CASE CopyProgram
      BY <3>1, <3>3 DEF CopyProgram, CopyLast
    <3>4. CASE CopyDone
      BY <3>1, <3>4 DEF CopyDone, CopyLast
    <3>5. CASE EraseAndBoot
      BY <3>5 DEF EraseAndBoot, App, CopyLast
    <3> QED
      BY <2>3, <3>2, <3>3, <3>4, <3>5 DEF Boot
  <2> QED
    BY <1>6, <2>1, <2>2, <2>3
<1> QED
  BY <1>1, <1>2, <1>3, <1>4, <1>5, <1>6 DEF Next, Update, Lose, Finish, PowerLoss

\* A region holds one image if it holds the whole of it.
LEMMA ImageOfWhole == \A i \in Images : ImageIn(Whole(i)) = {i}
<1>1. \A i, j \in Images : Whole(i) = Whole(j) => i = j
  <2> SUFFICES ASSUME NEW i \in Images, NEW j \in Images, Whole(i) = Whole(j)
               PROVE  i = j
    OBVIOUS
  <2>1. 0 \in Sectors /\ 0 \in Segs
    BY DEF Sectors, Segs
  <2>2. Whole(i)[0][0] = {i} /\ Whole(j)[0][0] = {j}
    BY <2>1 DEF Whole
  <2> QED
    BY <2>2
<1> QED
  BY <1>1 DEF ImageIn

\* What the abstract update sees of a state.
Running == cpu.mode \in {"APP", "FINISH", "STUCK"}
RunsNow == IF Running THEN ImageIn(run) ELSE {}
NextNow == ImageIn(IF IsSet(log, "copy") THEN load ELSE run)

\* The program that runs is one image, and the next one is known as well.
LEMMA SeenImages ==
    ASSUME IInv
    PROVE  /\ Running => RunsNow # {}
           /\ ~Running => RunsNow = {}
           /\ ~IsSet(log, "copy") => NextNow = ImageIn(run)
           /\ IsSet(log, "copy") => NextNow = ImageIn(load)
<1>1. Running => \E i \in Images : run = Whole(i)
  BY DEF IInv, RunRegion, RunsWhole, Running
<1> QED
  BY <1>1, ImageOfWhole DEF RunsNow, NextNow

\* A step that changes neither image is one of the application, or none.
LEMMA Unseen ==
    ASSUME IInv, IInv', Running, Running', run' = run, NextNow' = NextNow
    PROVE  Promised!Next
<1>1. RunsNow # {} /\ RunsNow' = RunsNow
  BY SeenImages DEF RunsNow
<1>2. client'.image \in Images
  BY DEF IInv, TypeOK
<1>3. Promised!Offer
  BY <1>1, <1>2 DEF Promised!Offer, RunsNow, NextNow, Running
<1> QED
  BY <1>3 DEF Promised!Next

\* A step into the boot code or inside of it, which leaves the next image as it is.
LEMMA Stopped ==
    ASSUME IInv, IInv', ~Running', NextNow' = NextNow, client'.image = client.image
    PROVE  Promised!Next
<1>1. Promised!Stop
  BY DEF Promised!Stop, RunsNow, NextNow, Running
<1> QED
  BY <1>1 DEF Promised!Next

\* The application and its requests never touch the settings or the image that runs.
LEMMA RequestsUnseen ==
    ASSUME IInv, IInv',
           \/ Connect \/ Disconnect \/ CancelUpdate
           \/ \E i \in Images : START_REQ(i)
           \/ NEW_SECTOR_CMD
           \/ \E g \in Segs : DATA(g) \/ DataLost(g)
           \/ ReadAck \/ INTEGRITY_CHECK_REQ
           \/ \E cmd \in FinishCmds : FINISH_CMD(cmd)
    PROVE  Promised!Next
<1>1. run' = run /\ log' = log /\ cpu.mode = "APP"
  BY DEF Connect, Disconnect, CancelUpdate, START_REQ, NEW_SECTOR_CMD, DATA, DataLost, Sends,
         ReadAck, INTEGRITY_CHECK_REQ, FINISH_CMD, Asks
<1>2. cpu'.mode \in {"APP", "FINISH"}
  <2>1. cpu \in [mode : Modes, at : 0..NSECTORS, todo : Seq(Settings), slot : 0..7]
    BY DEF IInv, TypeOK
  <2> QED
    BY <1>1, <2>1
    DEF Connect, Disconnect, CancelUpdate, START_REQ, NEW_SECTOR_CMD, DATA, DataLost, Sends,
        ReadAck, INTEGRITY_CHECK_REQ, FINISH_CMD, Asks
<1>3. ~IsSet(log, "copy") /\ IsSet(log, "copy")' = IsSet(log, "copy")
  BY <1>1 DEF IInv, CopyRequest
<1>4. NextNow' = NextNow
  BY <1>1, <1>3 DEF NextNow
<1>5. Running /\ Running'
  BY <1>1, <1>2 DEF Running
<1> QED
  BY <1>1, <1>4, <1>5, Unseen

\* FINISH_CMD adopts the image with its last write, and with no other.
LEMMA FinishAdopts ==
    ASSUME IInv, IInv', CopyLast, InvalidateOld \/ WriteNew \/ AssertFails
    PROVE  Promised!Next
<1>1. /\ run' = run /\ load' = load /\ Finishing /\ cpu.mode = "FINISH" /\ Running
      /\ log \in Logs /\ Ordered(log)
      /\ cpu \in [mode : Modes, at : 0..NSECTORS, todo : Seq(Settings), slot : 0..7]
  BY DEF InvalidateOld, WriteNew, AssertFails, MayWrite, Finishing, Running, IInv, TypeOK
<1>2. ~IsSet(log, "copy") /\ Setting \in Settings /\ NextNow = ImageIn(run)
  BY <1>1, CopyIsLast DEF NextNow
<1>3. cpu'.mode \in {"FINISH", "STUCK"} /\ Running'
  BY <1>1 DEF InvalidateOld, WriteNew, AssertFails, Running
<1>4. ASSUME ~IsSet(log', "copy")
      PROVE  Promised!Next
  <2>1. NextNow' = NextNow
    BY <1>1, <1>2, <1>4 DEF NextNow
  <2> QED
    BY <1>1, <1>3, <2>1, Unseen
<1>5. CASE InvalidateOld
  <2>1. log' = MakeInvalid(log, Setting) /\ IsSet(log, Setting)
    BY <1>5 DEF InvalidateOld
  <2>2. log'["copy"] = log["copy"]
    BY <1>1, <1>2, <2>1, InvalidLog DEF Settings
  <2> QED
    BY <1>2, <1>4, <2>2, OwnLog DEF Settings
<1>6. CASE WriteNew
  <2>1. CASE IsSet(log', "copy")
    <3>1. /\ client' = client /\ TypeOK /\ LoadRegion /\ client.pc = "FINISH"
      BY <1>1, <1>6 DEF WriteNew, IInv, CopyRequest
    <3>2. load' = Whole(client.image) /\ client.image \in Images
      BY <1>1, <3>1, LoadIsWhole
    <3>3. NextNow' = {client.image}
      BY <2>1, <3>2, ImageOfWhole DEF NextNow
    <3>4. RunsNow # {} /\ RunsNow' = RunsNow
      BY <1>1, <1>3, SeenImages DEF RunsNow
    <3>5. Promised!Adopt
      BY <3>1, <3>3, <3>4 DEF Promised!Adopt, RunsNow, NextNow, Running
    <3> QED
      BY <3>5 DEF Promised!Next
  <2> QED
    BY <1>4, <2>1
<1>7. CASE AssertFails
  <2>1. log' = log
    BY <1>7 DEF AssertFails
  <2> QED
    BY <1>2, <1>4, <2>1
<1> QED
  BY <1>5, <1>6, <1>7

\* A reset or a loss of power only stops the program: what the settings ask for
\* is what they asked for before.
LEMMA ResetStops ==
    ASSUME IInv, IInv', CopyLast, platform_reset \/ Crash \/ CrashInWrite
    PROVE  Promised!Next
<1>1. ASSUME NEW l, StartsWith(l), IsSet(l, "copy") <=> IsSet(log, "copy")
      PROVE  Promised!Next
  <2>1. /\ log' = l /\ run' = run /\ load' = load /\ client' = Gone
        /\ cpu'.mode \in {"COPY", "SETTINGS"}
    BY <1>1 DEF StartsWith, App
  <2>2. NextNow' = NextNow
    BY <1>1, <2>1 DEF NextNow
  <2>3. client'.image = client.image
    BY <2>1 DEF Gone, IInv, TypeOK
  <2>4. ~Running'
    BY <2>1 DEF Running
  <2> QED
    BY <2>2, <2>3, <2>4, Stopped
<1>2. CASE platform_reset \/ Crash
  BY <1>1, <1>2 DEF platform_reset, Crash
<1>3. CASE CrashInWrite
  <2>1. /\ MayWrite /\ Finishing /\ Target # 0
        /\ StartsWith(Write(log, Setting, Target, "TORN"))
    BY <1>3 DEF CrashInWrite, MayWrite
  <2>2. ~IsSet(log, "copy") /\ Setting \in Settings
    BY <2>1, CopyIsLast
  <2>3. ~IsSet(Write(log, Setting, Target, "TORN"), "copy")
    BY <2>1, <2>2, TornIsUnset DEF Settings
  <2> QED
    BY <1>1, <2>1, <2>2, <2>3
<1> QED
  BY <1>2, <1>3

\* The boot code starts the image that was adopted: while it copies, that is the
\* one in the load region, and then the region that runs holds it too.
LEMMA BootStarts ==
    ASSUME IInv, IInv', Boot
    PROVE  Promised!Next
<1>1. /\ load' = load /\ client' = client /\ ~Running
      /\ cpu \in [mode : Modes, at : 0..NSECTORS, todo : Seq(Settings), slot : 0..7]
  BY DEF Boot, CopyErase, CopyProgram, CopyDone, EraseAndBoot, Running, IInv, TypeOK
<1>2. CASE CopyErase \/ CopyProgram
  <2>1. cpu.mode \in {"COPY", "PROGRAM"} /\ log' = log
    BY <1>2 DEF CopyErase, CopyProgram
  <2>2. IsSet(log, "copy") /\ IsSet(log', "copy")
    BY <2>1 DEF IInv, CopyRequest
  <2>3. NextNow' = NextNow
    BY <1>1, <2>2 DEF NextNow
  <2>4. CASE CopyErase
    BY <1>1, <2>3, <2>4, Stopped DEF CopyErase, Running
  <2>5. CASE CopyProgram
    BY <1>1, <2>3, <2>5, Stopped DEF CopyProgram, Running
  <2> QED
    BY <1>2, <2>4, <2>5
<1>3. CASE CopyDone
  <2>1. /\ cpu.mode = "COPY" /\ cpu.at = NSECTORS /\ run' = run
        /\ log' = MakeInvalid(log, "copy") /\ cpu'.mode = "SETTINGS"
    BY <1>1, <1>3 DEF CopyDone
  <2>2. IsSet(log, "copy") /\ ~IsSet(log', "copy")
    BY <2>1, InvalidLog DEF IInv, TypeOK, CopyRequest, Settings
  <2>3. run = load
    <3>1. \A s \in Sectors : run[s] = load[s]
      BY <2>1 DEF IInv, RunRegion, Sectors
    <3> QED
      BY <3>1 DEF IInv, TypeOK
  <2>4. NextNow' = NextNow
    BY <2>1, <2>2, <2>3 DEF NextNow
  <2>5. ~Running'
    BY <2>1 DEF Running
  <2> QED
    BY <1>1, <2>4, <2>5, Stopped
<1>4. CASE EraseAndBoot
  <2>1. /\ cpu.mode = "SETTINGS" /\ cpu' = App /\ run' = run
        /\ log' = IF IsSet(log, "erase") THEN Erased ELSE log
    BY <1>4 DEF EraseAndBoot
  <2>2. ~IsSet(log, "copy") /\ ~IsSet(log', "copy")
    BY <2>1, ErasedLog DEF IInv, CopyRequest, Settings
  <2>3. NextNow = ImageIn(run) /\ NextNow' = ImageIn(run)
    BY <2>1, <2>2 DEF NextNow
  <2>4. RunsNow = {} /\ RunsNow' = ImageIn(run)
    BY <1>1, <2>1 DEF RunsNow, Running, App
  <2>5. Promised!Start
    BY <1>1, <2>3, <2>4 DEF Promised!Start, RunsNow, NextNow, Running
  <2> QED
    BY <2>5 DEF Promised!Next
<1> QED
  BY <1>2, <1>3, <1>4 DEF Boot

\* The initial image runs and is the next one.
LEMMA InitPromised == Init => Promised!Init
<1> SUFFICES ASSUME Init
             PROVE  Promised!Init
  OBVIOUS
<1>1. cpu.mode = "APP" /\ ~IsSet(log, "copy") /\ client.image \in Images
  BY ErasedLog DEF Init, App, Settings
<1>2. PICK i \in Images : run = Whole(i)
  BY DEF Init
<1>3. RunsNow = {i} /\ NextNow = {i}
  BY <1>1, <1>2, ImageOfWhole DEF RunsNow, NextNow, Running
<1> QED
  BY <1>1, <1>3 DEF Promised!Init, RunsNow, NextNow, Running

LEMMA StepPromised ==
    ASSUME IInv, IInv', CopyLast, [Next]_vars
    PROVE  [Promised!Next]_(Promised!vars)
<1>1. CASE UNCHANGED vars
  BY <1>1 DEF vars, Promised!vars
<1>2. CASE Next
  <2>1. CASE Connect \/ Disconnect \/ CancelUpdate \/ \E i \in Images : START_REQ(i)
    BY <2>1, RequestsUnseen
  <2>2. CASE Update
    BY <2>2, RequestsUnseen DEF Update
  <2>3. CASE Lose
    BY <2>3, RequestsUnseen DEF Lose
  <2>4. CASE Finish
    BY <2>4, FinishAdopts, ResetStops DEF Finish
  <2>5. CASE PowerLoss
    BY <2>5, ResetStops DEF PowerLoss
  <2>6. CASE Boot
    BY <2>6, BootStarts
  <2> QED
    BY <1>2, <2>1, <2>2, <2>3, <2>4, <2>5, <2>6 DEF Next
<1> QED
  BY <1>1, <1>2

\* Over all the writes to flash, the resets and the losses of power an update is
\* one step: the image that runs is replaced then and only then, by the image the
\* application sent (FINISH_CMD, the settings, fw_copy and ota_copy_done_set).
THEOREM UpdateIsOneStep == Spec => ImplementsFirmware
<1>1. Init => CopyLast
  BY DEF Init, App, CopyLast
<1>2. IInv /\ CopyLast /\ [Next]_vars => CopyLast'
  BY CopyLastInv
<1>3. IInv /\ IInv' /\ CopyLast /\ [Next]_vars => [Promised!Next]_(Promised!vars)
  BY StepPromised
<1> QED
  BY <1>1, <1>2, <1>3, InvHolds, InitPromised, PTL DEF Spec, ImplementsFirmware, Promised!Spec
================================================================================
