------------------------------- MODULE LevelLeds -------------------------------
(***************************************************************************)
(* LEDs 0, 1 and 2, shared by the level of the snore intervention (blue,   *)
(* one LED per level), its switching off (all flash) and the charging      *)
(* station of the dock: green on LED 1 while it charges, the common red    *)
(* pin, driven by the task of LED 0, when the station reports a fault.     *)
(*                                                                         *)
(* Sources: app_led_ctrl.c, x_control.c (control_timer10ms for the key,    *)
(* control_timer1000ms for the station) and x_ble_com.c (11 B7).           *)
(***************************************************************************)
EXTENDS LedTasks

CONSTANTS
    LEVEL_TIMEOUT,  \* ticks the level is shown: 10 s
    GREEN_TIMEOUT,  \* charging: 15 s
    RED_TIMEOUT,    \* fault: 30 s
    FLASH_TIMEOUT,  \* bound of the flash that switches off: 3 s
    FAST            \* its interval, 200 ms

ASSUME LedTimeAssumption ==
    {LEVEL_TIMEOUT, GREEN_TIMEOUT, RED_TIMEOUT, FLASH_TIMEOUT, FAST} \subseteq Nat \ {0}

VARIABLES
    led,                    \* led_ctrl[LED_ID_0 .. LED_ID_2]
    AntiSnore_intensity,
    chargeAbnormal_flag,    \* the fault has been shown
    last_charge_status,
    charge                  \* what the pins of the station say

vars == <<led, AntiSnore_intensity, chargeAbnormal_flag, last_charge_status, charge>>

LevelLed == 0..2

\* on_WirelessCharege_status_get: 0, 1 and 0xff.
ChargeStatus == {"ABNORMAL", "NORMAL", "NONE"}

TypeOK ==
    /\ led \in [LevelLed -> Led]
    /\ AntiSnore_intensity \in 0..3
    /\ chargeAbnormal_flag \in BOOLEAN
    /\ last_charge_status \in ChargeStatus /\ charge \in ChargeStatus

\* The level is read from flash, the LEDs are dark.
Init ==
    /\ led = [i \in LevelLed |-> Dark]
    /\ AntiSnore_intensity \in 0..3
    /\ chargeAbnormal_flag = FALSE
    /\ last_charge_status = "NONE" /\ charge \in ChargeStatus

--------------------------------------------------------------------------------
(* Indications, from the LEDs before to the LEDs after.                     *)

\* mutant: the LEDs of the other levels are left to their timeouts.
LevelKeepsOthers(leds, level) ==
    [i \in LevelLed |->
        IF level = 0 THEN led_ctrl_set_off(leds[i])
        ELSE IF i # level - 1 THEN leds[i]
        ELSE led_ctrl_set_on(leds[i], "BLUE", LEVEL_TIMEOUT, NORMAL, "NONE")]

\* The other LEDs go off whatever they show; the level's own may be refused.
led_snore_level_set(leds, level) ==
    [i \in LevelLed |->
        IF i # level - 1 THEN led_ctrl_set_off(leds[i])
        ELSE led_ctrl_set_on(leds[i], "BLUE", LEVEL_TIMEOUT, NORMAL, "NONE")]

led_snore_disabled_flash(leds) ==
    [i \in LevelLed |->
        led_ctrl_set_flash(leds[i], "BLUE", FAST, 2, FLASH_TIMEOUT, CRITICAL, "NONE")]

\* Refused by itself while LED 1 shows something more important.
led_charge_normal(leds) ==
    [leds EXCEPT ![1] = led_ctrl_set_on(@, "GREEN", GREEN_TIMEOUT, NORMAL, "NONE")]

led_charge_stop(leds) ==
    [leds EXCEPT ![1] = IF @.color = "GREEN" /\ @.mode # "OFF" THEN led_ctrl_set_off(@) ELSE @]

\* Blue tasks end; their timeout stays behind.
led_ctrl_clear_all_snore_leds(leds) ==
    [i \in LevelLed |->
        IF leds[i].color # "BLUE" THEN leds[i]
        ELSE [led_ctrl_set_off(leds[i]) EXCEPT !.timeout = leds[i].timeout]]

\* mutant: the blue LEDs are not cleared before the red one.
ErrorKeepsBlue(leds) ==
    [leds EXCEPT ![0] = led_ctrl_set_on(@, "RED", RED_TIMEOUT, CRITICAL, "NONE")]

led_charge_error(leds) ==
    [led_ctrl_clear_all_snore_leds(leds) EXCEPT
        ![0] = led_ctrl_set_on(@, "RED", RED_TIMEOUT, CRITICAL, "NONE")]

\* io_write_pin of the red pin: the task of LED 0 does not learn of it.
RedPinDark(leds) == [leds EXCEPT ![0].lit = @ \ {"RED"}]

--------------------------------------------------------------------------------
(* Steps.                                                                   *)

\* led_ctrl_10ms_handler; no task of these LEDs has a callback.
LedTick ==
    /\ led' = [i \in LevelLed |-> Elapse(led[i])]
    /\ UNCHANGED <<AntiSnore_intensity, chargeAbnormal_flag, last_charge_status, charge>>

\* A fault not shown yet.
ShowAbnormal ==
    /\ charge = "ABNORMAL" /\ ~chargeAbnormal_flag
    /\ chargeAbnormal_flag' = TRUE
    /\ led' = led_charge_error(IF last_charge_status = "NORMAL" THEN led_charge_stop(led) ELSE led)

ShowNormal ==
    /\ charge = "NORMAL"
    /\ chargeAbnormal_flag' = FALSE
    /\ led' = CASE last_charge_status = "NORMAL" -> led
                [] last_charge_status = "NONE" -> led_charge_normal(led)
                [] last_charge_status = "ABNORMAL" ->
                       led_charge_normal([RedPinDark(led) EXCEPT ![0] = led_ctrl_set_off(@)])

\* mutant: the green light is left to its timeout.
NoneKeepsGreen ==
    /\ charge = "NONE"
    /\ chargeAbnormal_flag' = FALSE
    /\ led' = IF chargeAbnormal_flag THEN RedPinDark(led) ELSE led

ShowNone ==
    /\ charge = "NONE"
    /\ chargeAbnormal_flag' = FALSE
    /\ led' = LET stopped == IF last_charge_status = "NORMAL" THEN led_charge_stop(led) ELSE led
              IN  IF chargeAbnormal_flag THEN RedPinDark(stopped) ELSE stopped

\* A fault already shown.
KeepAbnormal ==
    /\ charge = "ABNORMAL" /\ chargeAbnormal_flag
    /\ UNCHANGED <<led, chargeAbnormal_flag>>

control_timer1000ms ==
    /\ ShowAbnormal \/ KeepAbnormal \/ ShowNormal \/ ShowNone
    /\ last_charge_status' = charge
    /\ UNCHANGED <<AntiSnore_intensity, charge>>

\* The level key released: the next level, and a fault is shown once more.
KeyShort ==
    /\ chargeAbnormal_flag' = FALSE
    /\ AntiSnore_intensity' = IF AntiSnore_intensity < 3 THEN AntiSnore_intensity + 1 ELSE 1
    /\ led' = led_snore_level_set(led, AntiSnore_intensity')
    /\ UNCHANGED <<last_charge_status, charge>>

\* The level key held for five seconds.
KeyHeld ==
    /\ led' = led_snore_disabled_flash(led)
    /\ AntiSnore_intensity' = 0
    /\ UNCHANGED <<chargeAbnormal_flag, last_charge_status, charge>>

\* 11 B7 of the application.
BleSetSnore(intensity) ==
    /\ AntiSnore_intensity' = intensity
    /\ led' = led_snore_level_set(led, intensity)
    /\ UNCHANGED <<chargeAbnormal_flag, last_charge_status, charge>>

\* The dock is put on the station, taken off it, or the station finds a fault.
ChargeChange ==
    /\ charge' \in ChargeStatus \ {charge}
    /\ UNCHANGED <<led, AntiSnore_intensity, chargeAbnormal_flag, last_charge_status>>

Next ==
    \/ LedTick
    \/ control_timer1000ms
    \/ KeyShort
    \/ KeyHeld
    \/ \E intensity \in 0..3 : BleSetSnore(intensity)
    \/ ChargeChange

\* Both timers of the main loop expire again and again.
Fairness == WF_vars(LedTick) /\ WF_vars(control_timer1000ms)

Spec == Init /\ [][Next]_vars /\ Fairness

--------------------------------------------------------------------------------
(* Safety.                                                                  *)

\* No pin of an LED is lit but that of its task, also after the red pin was
\* written past the task and after clearing left a timeout behind: a pin lit by
\* a replaced task would never go dark (app_led_ctrl.c:192, 485).
LitIsOwned == \A i \in LevelLed : led[i].lit \subseteq {led[i].color}

\* Red and blue are never lit together, whatever key, application and station do
\* in whatever order (app_led_ctrl.c:476 and 585).
RedNotBlue == "RED" \in led[0].lit => \A i \in LevelLed : "BLUE" \notin led[i].lit

\* A steady blue LED is that of the level in force, so there is at most one:
\* keys, application and refusals by priority leave no LED of a former level.
LevelIsShown ==
    \A i \in LevelLed : led[i].mode = "ON" /\ led[i].color = "BLUE" => AntiSnore_intensity = i + 1

\* LED 1 is green only while the station was found charging last: every change
\* of the station ends the green task, also when another one came in between.
GreenOnlyCharging == led[1].color = "GREEN" => last_charge_status = "NORMAL"

--------------------------------------------------------------------------------
(* Liveness.                                                                *)

\* With no more requests all indications end.
AllGoDark == <>[](\A i \in LevelLed : led[i].mode = "OFF" /\ led[i].lit = {})
================================================================================
