------------------------------- MODULE OtaSettings -----------------------------
(***************************************************************************)
(* One setting of the update, kept in flash as a log of slots              *)
(* (inflash_settings.c): a new value makes the slot of the old one invalid *)
(* and is programmed into the next one.  Slots are never programmed twice; *)
(* only erasing the page frees them.  A program cut off by a reset leaves  *)
(* a torn slot, which inversion_data_check rejects.                        *)
(*                                                                         *)
(* What the value is does not matter here, a slot that holds one is SET.   *)
(* The ranges of the three settings of ota_settings.c are taken to be      *)
(* apart; the sixth boot address would overlap the first copy request.     *)
(***************************************************************************)
EXTENDS Naturals

Slot == {"BLANK", "TORN", "SET", "INVALID"}

\* Slots of each setting: its range over the size of a slot, rounded up.
Slots == [boot |-> 6, erase |-> 2, copy |-> 5]
Settings == {"boot", "erase", "copy"}

Logs == {log \in [Settings -> UNION {[1..Slots[n] -> Slot] : n \in Settings}] :
            \A n \in Settings : log[n] \in [1..Slots[n] -> Slot]}

Erased == [n \in Settings |-> [i \in 1..Slots[n] |-> "BLANK"]]

\* The slot at which _settings_get stops: the first one neither invalid nor
\* torn; 0 when there is none.
Offset(log, n) ==
    LET ends == {i \in 1..Slots[n] : log[n][i] \in {"BLANK", "SET"}}
    IN  IF ends = {} THEN 0 ELSE CHOOSE i \in ends : \A j \in ends : i <= j

\* settings_get: is there a value?
IsSet(log, n) == Offset(log, n) # 0 /\ log[n][Offset(log, n)] = "SET"

\* settings_make_invalid, also the first half of settings_set.
MakeInvalid(log, n) ==
    IF IsSet(log, n) THEN [log EXCEPT ![n][Offset(log, n)] = "INVALID"] ELSE log

\* inversion_data_write; beyond the range nobody reads the slot again.
Write(log, n, at, slot) ==
    IF at \in 1..Slots[n] THEN [log EXCEPT ![n][at] = slot] ELSE log
================================================================================
