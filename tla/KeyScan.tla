--------------------------------- MODULE KeyScan -------------------------------
(***************************************************************************)
(* How a press of the two keys is recognised, every 10 ms: the scan of the *)
(* pins and its debouncing (on_key_10ms_handle, analog_key_deebounce), and *)
(* what control_timer10ms makes of the result.  A code is the set of the   *)
(* keys that are down.                                                     *)
(***************************************************************************)
EXTENDS Naturals, Sequences, SequencesExt

CONSTANTS
    PAIR_AT, OFF_AT,    \* key_repeat of a long press: 200 and 500
    REPEAT_MAX          \* UINT16_MAX

\* Both lie below the limit: a hold would act in every tick, were it met there.
ASSUME KeyAssumption ==
    /\ REPEAT_MAX \in Nat
    /\ PAIR_AT \in 1..(REPEAT_MAX - 1) /\ OFF_AT \in 1..(REPEAT_MAX - 1)

Keys == {"LEVEL", "PAIR"}               \* app_key_num3 and app_key_num4
Codes == SUBSET Keys
DEBOUNCE_MAX_COUNT == 3

VARIABLES
    deb_old_val,    \* code of the last scan
    deb_arr,        \* changes of the last scans, as a sequence, oldest first
    current_key,    \* code after debouncing (button_status)
    last_key,       \* that code one tick before
    key_repeat,     \* ticks a key has been held, up to REPEAT_MAX
    keys_ignore,    \* the hold has acted: its release is no press
    act             \* what this tick did: "NEXT", "OFF", "PAIR" or "NONE"

scan == <<deb_old_val, deb_arr, current_key>>
vars == <<scan, last_key, key_repeat, keys_ignore, act>>

Init ==
    /\ deb_old_val = {} /\ current_key = {} /\ last_key = {}
    /\ deb_arr = [i \in 1..DEBOUNCE_MAX_COUNT |-> {}]
    /\ key_repeat = 0 /\ keys_ignore = FALSE
    /\ act = "NONE"

--------------------------------------------------------------------------------
(* The scan.                                                                *)

SymmetricDifference(a, b) == (a \ b) \cup (b \ a)

\* mutant: the scan before is not looked at any more.
DebounceOneShort(down, arr, status) ==
    LET changed == UNION {arr[i] : i \in 2..DEBOUNCE_MAX_COUNT}
    IN  (down \ changed) \cup (changed \cap status)

\* Keys that changed in the last scans keep their status, the others have it.
Debounced(down, arr, status) ==
    LET changed == UNION ToSet(arr)
    IN  (down \ changed) \cup (changed \cap status)

\* The pins read `down`.
on_key_10ms_handle(down) ==
    /\ deb_arr' = Append(Tail(deb_arr), SymmetricDifference(deb_old_val, down))
    /\ deb_old_val' = down
    /\ current_key' = Debounced(down, deb_arr', current_key)

--------------------------------------------------------------------------------
(* What a tick makes of the code `key`.                                     *)

\* A key goes down.  The counters are what the last press left of them.
Press(key) ==
    /\ last_key = {} /\ key # {}
    /\ act' = "NONE"
    /\ UNCHANGED <<key_repeat, keys_ignore>>

\* mutant: the counter wraps at its limit.
RepeatWraps == (key_repeat + 1) % (REPEAT_MAX + 1)

\* The counter stops at its limit.
NextRepeat == IF key_repeat < REPEAT_MAX THEN key_repeat + 1 ELSE key_repeat

LongPress(key, repeat) ==
    CASE repeat = PAIR_AT /\ key = {"PAIR"} -> "PAIR"
      [] repeat = OFF_AT /\ key = {"LEVEL"} -> "OFF"
      [] OTHER -> "NONE"

\* mutant: a hold that did something is not kept from being a press as well.
HoldKeepsIgnore(key) ==
    /\ last_key = key /\ key # {}
    /\ key_repeat' = NextRepeat
    /\ act' = LongPress(key, key_repeat')
    /\ UNCHANGED keys_ignore

\* The same keys stay down.
Hold(key) ==
    /\ last_key = key /\ key # {}
    /\ key_repeat' = NextRepeat
    /\ act' = LongPress(key, key_repeat')
    /\ keys_ignore' = (keys_ignore \/ act' # "NONE")

\* All keys are up again.
Release(key) ==
    /\ last_key # {} /\ key = {}
    /\ act' = IF last_key = {"LEVEL"} /\ ~keys_ignore THEN "NEXT" ELSE "NONE"
    /\ UNCHANGED <<key_repeat, keys_ignore>>

\* No key is down as before, or other keys are.
Other(key) ==
    /\ \/ last_key = {} /\ key = {}
       \/ last_key # {} /\ key # {} /\ last_key # key
    /\ key_repeat' = 0 /\ keys_ignore' = FALSE
    /\ act' = "NONE"

control_timer10ms(key) ==
    /\ Press(key) \/ Hold(key) \/ Release(key) \/ Other(key)
    /\ last_key' = key

Tick10ms(down) == on_key_10ms_handle(down) /\ control_timer10ms(current_key')

Next == \E down \in Codes : Tick10ms(down)

Spec == Init /\ [][Next]_vars
================================================================================
