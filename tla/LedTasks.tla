-------------------------------- MODULE LedTasks -------------------------------
(***************************************************************************)
(* The task engine of app_led_ctrl.c for one LED, as operators from the    *)
(* record of its task and its lit pins to the record left behind.  A task  *)
(* replaces another one of the same or a lower priority, and ends by its   *)
(* timeout, by its number of blinks, or when it is switched off.           *)
(*                                                                         *)
(* A tick is the 100 ms step of led_ctrl_10ms_handler; intervals, counted  *)
(* in 10 ms in the code, are multiples of it.  Every caller asks for a     *)
(* colour its LED has, so the lookup in led_pin_map is left out.  The red  *)
(* pin is shared by the LEDs 0, 1 and 2 but used by tasks of LED 0 only.   *)
(***************************************************************************)
EXTENDS Naturals

NORMAL   == 0       \* LED_PRIORITY_NORMAL
HIGH     == 5       \* LED_PRIORITY_HIGH
CRITICAL == 10      \* LED_PRIORITY_CRITICAL

Colors == {"BLUE", "GREEN", "RED"}
Callbacks == {"NONE", "RESTORE_BLUE", "PAIR_TIMEOUT"}

\* led_ctrl_t, and the pins of the LED that are lit.
Led == [mode : {"OFF", "ON", "PERMANENT", "FLASH"}, color : Colors \cup {"NONE"},
        timeout : Nat, interval : Nat, phase : Nat, blinks : Nat,
        priority : {NORMAL, HIGH, CRITICAL}, callback : Callbacks, lit : SUBSET Colors]

\* led_ctrl_init: no task, all pins dark.
Dark == [mode |-> "OFF", color |-> "NONE", timeout |-> 0, interval |-> 0, phase |-> 0,
         blinks |-> 0, priority |-> NORMAL, callback |-> "NONE", lit |-> {}]

\* A task of a higher priority is not replaced.
Busy(l, priority) == l.mode # "OFF" /\ l.priority > priority

\* mutant: a task in another colour leaves the old colour lit.
OnKeepsColor(l, color, timeout, priority, callback) ==
    IF Busy(l, priority) THEN l
    ELSE [l EXCEPT !.mode = IF timeout = 0 THEN "PERMANENT" ELSE "ON",
                   !.color = color, !.timeout = timeout, !.priority = priority,
                   !.callback = callback, !.lit = @ \cup {color}]

led_ctrl_set_on(l, color, timeout, priority, callback) ==
    IF Busy(l, priority) THEN l
    ELSE [l EXCEPT !.mode = IF timeout = 0 THEN "PERMANENT" ELSE "ON",
                   !.color = color, !.timeout = timeout, !.priority = priority,
                   !.callback = callback, !.lit = (@ \ {l.color}) \cup {color}]

\* `times` blinks; without a number the timeout alone ends the task.
led_ctrl_set_flash(l, color, interval, times, timeout, priority, callback) ==
    IF Busy(l, priority) THEN l
    ELSE [l EXCEPT !.mode = "FLASH", !.color = color, !.interval = interval,
                   !.phase = 0, !.blinks = 2 * times, !.timeout = timeout,
                   !.priority = priority, !.callback = callback,
                   !.lit = @ \ {l.color, color}]

\* Also led_ctrl_force_off, and led_task_finish but for the callback.
led_ctrl_set_off(l) ==
    [l EXCEPT !.mode = "OFF", !.color = "NONE", !.timeout = 0, !.priority = NORMAL,
              !.callback = "NONE", !.lit = @ \ {l.color}]

\* The LED is toggled whenever its interval is over.
Toggles(l) == l.mode = "FLASH" /\ l.phase + 1 >= l.interval

Blink(l) ==
    IF l.mode # "FLASH" THEN l
    ELSE IF ~Toggles(l) THEN [l EXCEPT !.phase = @ + 1]
    ELSE [l EXCEPT !.phase = 0,
                   !.blinks = IF @ > 0 THEN @ - 1 ELSE 0,
                   !.lit = IF l.color \in @ THEN @ \ {l.color} ELSE @ \cup {l.color}]

\* mutant: the timeout is looked at for a flash only.
OverFlashOnly(l) == l.mode = "FLASH" /\ ((Toggles(l) /\ l.blinks = 1) \/ l.timeout = 1)

\* The task is over with this tick, by its last blink or its timeout.
Over(l) ==
    /\ l.mode # "OFF"
    /\ (Toggles(l) /\ l.blinks = 1) \/ l.timeout = 1

\* The callback that runs with this tick.
Called(l) == IF Over(l) THEN l.callback ELSE "NONE"

\* One LED in the loop of led_ctrl_10ms_handler, before the callback.
Elapse(l) ==
    IF l.mode = "OFF" THEN l
    ELSE IF Over(l) THEN led_ctrl_set_off(Blink(l))
    ELSE [Blink(l) EXCEPT !.timeout = IF @ > 0 THEN @ - 1 ELSE 0]
================================================================================
