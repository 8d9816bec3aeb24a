------------------------------ MODULE FotaSegments -----------------------------
(***************************************************************************)
(* How fota_svc_server.c lays the segments of a sector out in flash.  A    *)
(* sector is sent in segments of the length named by START_REQ, the last   *)
(* one shorter; a segment is programmed in pieces that end at the pages of *)
(* the flash, since a program beyond the end of a page wraps to its start. *)
(***************************************************************************)
EXTENDS Integers

SectorSize == 4096  \* FOTAS_SECTOR_SIZE
PageSize   == 256   \* FOTAS_PAGE_SIZE
AckBits    == 216   \* FOTAS_ACK_BUF_LENGTH_MAX bytes

\* The lengths a client may name: 19 is what the least MTU leaves
\* (MTU - 3 - 1), 515 what USER_MAX_MTU does.
Lengths == 19..515

\* Number of segments of a sector.
Count(max) == (SectorSize + max - 1) \div max

\* Start in the sector and length of a segment.
Start(seg, max) == seg * max
Length(seg, max) ==
    IF seg = Count(max) - 1 /\ SectorSize % max # 0 THEN SectorSize % max ELSE max

\* The programs of hal_flash_multi_io_page_program for `len` bytes at `start`.
Pieces(start, len) ==
    LET page == (start \div PageSize + 1) * PageSize   \* page_aligned_addr
        rest == start + len - page
        whole == rest \div PageSize
    IN  IF start + len <= page THEN {[at |-> start, len |-> len]}
        ELSE {[at |-> start, len |-> page - start]}
             \cup {[at |-> page + k * PageSize, len |-> PageSize] : k \in 0..(whole - 1)}
             \cup {p \in {[at |-> page + whole * PageSize, len |-> rest % PageSize]} : p.len > 0}

Bytes(p) == p.at .. (p.at + p.len - 1)
================================================================================
