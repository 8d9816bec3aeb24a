------------------------------ MODULE VoicePairing -----------------------------
(***************************************************************************)
(* LED 3 and the two functions that share it: offline voice (the switch    *)
(* that chooses the wake word, the session of the voice chip) and pairing  *)
(* (the key, advertising, the connection).  The thirty seconds of pairing  *)
(* are the timeout of its LED task, whose callback ends it.                *)
(*                                                                         *)
(* Sources: x_control.c, offline_voice.c, app_led_ctrl.c, main.c and the   *)
(* configuration of the voice chip in x_uart.c.                            *)
(***************************************************************************)
EXTENDS LedTasks

CONSTANTS
    PAIR_TIMEOUT,   \* ticks of the pairing indication: 30 s
    GREEN_TIMEOUT,  \* of the confirmation of a command: 3 s
    CLOSE_TIMEOUT,  \* bound of the flash that closes a session: 3 s
    SLOW, FAST      \* intervals of the pairing flash, 500 ms, and of the closing one, 200 ms

ASSUME LedTimeAssumption ==
    /\ {PAIR_TIMEOUT, GREEN_TIMEOUT, CLOSE_TIMEOUT} \subseteq Nat \ {0}
    /\ {SLOW, FAST} \subseteq Nat \ {0}

VARIABLES
    led3,           \* led_ctrl[LED_ID_3]
    s_stable,       \* the switch position acted upon last
    key_enable, wake_word, enabled,     \* g_offline_voice
    state,          \* the static state of offline_voice_Handle
    shadow,         \* of ci1302_uart2_voice_config_sync: sh_en and sh_ww
    chip,           \* the wake word the voice chip was configured for last
    ble_pair_flag,
    ble_pair_time,  \* 0 or 3000: nothing counts it down
    adv,            \* the dock advertises
    ble_connect

voiceVars == <<s_stable, key_enable, wake_word, enabled, state, shadow, chip>>
pairVars == <<ble_pair_flag, ble_pair_time, adv, ble_connect>>
vars == <<led3, voiceVars, pairVars>>

WakeWords == {"ERGO", "BED"}
Positions == WakeWords \cup {"OFF"}

\* Frames of the voice chip: 0x81 with a wake word or a command, 0x82.
Frames == WakeWords \cup {"COMMAND", "END"}

TypeOK ==
    /\ led3 \in Led
    /\ s_stable \in Positions \cup {"UNKNOWN"}
    /\ key_enable \in BOOLEAN /\ enabled \in BOOLEAN
    /\ wake_word \in WakeWords \cup {"NONE"}
    /\ state \in {"DISABLED", "WAKE_WORD_DETECTED", "ACTIVE"}
    /\ shadow \in [en : BOOLEAN, ww : WakeWords \cup {"NONE"}]
    /\ chip \in Positions
    /\ ble_pair_flag \in BOOLEAN /\ ble_pair_time \in {0, 3000}
    /\ adv \in BOOLEAN /\ ble_connect \in BOOLEAN

\* Boot: x_uart_init configures the chip before the switch position is known.
Init ==
    /\ led3 = Dark
    /\ s_stable = "UNKNOWN"
    /\ key_enable = FALSE /\ wake_word = "NONE" /\ enabled = FALSE
    /\ state = "DISABLED"
    /\ shadow = [en |-> FALSE, ww |-> "NONE"] /\ chip = "OFF"
    /\ ble_pair_flag = FALSE /\ ble_pair_time = 0
    /\ adv = FALSE /\ ble_connect = FALSE

--------------------------------------------------------------------------------
(* Indications on LED 3.                                                    *)

led_voice_wakeup(l) ==
    IF l.priority > NORMAL THEN l ELSE led_ctrl_set_on(l, "BLUE", 0, NORMAL, "NONE")

led_voice_command_confirm(l) ==
    IF l.priority > NORMAL THEN l
    ELSE led_ctrl_set_on(l, "GREEN", GREEN_TIMEOUT, NORMAL, "RESTORE_BLUE")

led_voice_close_flash(l) ==
    led_ctrl_set_flash(l, "BLUE", FAST, 2, CLOSE_TIMEOUT, NORMAL, "NONE")

led_voice_restore_blue(l) ==
    IF l.priority > NORMAL THEN l ELSE led_ctrl_set_on(l, "BLUE", 0, NORMAL, "NONE")

led_bt_pairing(l, connected) ==
    IF connected THEN led_ctrl_set_on(l, "BLUE", PAIR_TIMEOUT, HIGH, "PAIR_TIMEOUT")
    ELSE led_ctrl_set_flash(l, "BLUE", SLOW, 0, PAIR_TIMEOUT, HIGH, "PAIR_TIMEOUT")

led_bt_pairing_stop(l) ==
    IF enabled THEN led_voice_wakeup(led_ctrl_set_off(l)) ELSE led_ctrl_set_off(l)

\* led_ctrl_10ms_handler, and the callback of a task that ends.
LedTick ==
    /\ led3' = IF Called(led3) = "RESTORE_BLUE" THEN led_voice_restore_blue(Elapse(led3))
               ELSE Elapse(led3)
    /\ IF Called(led3) = "PAIR_TIMEOUT"
       THEN ble_pair_flag' = FALSE /\ ble_pair_time' = 0 /\ adv' = FALSE
       ELSE UNCHANGED <<ble_pair_flag, ble_pair_time, adv>>
    /\ UNCHANGED <<voiceVars, ble_connect>>

--------------------------------------------------------------------------------
(* Offline voice.                                                           *)

\* mutant: only the on and off of the voice is compared with the chip's.
SyncIgnoresWord(en, ww) ==
    IF shadow.en = en THEN UNCHANGED <<shadow, chip>>
    ELSE /\ shadow' = [en |-> en, ww |-> ww]
         /\ chip' = IF en THEN ww ELSE "OFF"

\* The chip is configured when its last configuration differs.
ci1302_uart2_voice_config_sync(en, ww) ==
    IF shadow.en = en /\ (~en \/ shadow.ww = ww) THEN UNCHANGED <<shadow, chip>>
    ELSE /\ shadow' = [en |-> en, ww |-> ww]
         /\ chip' = IF en THEN ww ELSE "OFF"

\* mutant: the light of the session is left to the voice chip's end frame.
SwitchKeepsLight(raw) ==
    /\ raw # s_stable /\ s_stable' = raw
    /\ key_enable' = (raw # "OFF")
    /\ wake_word' = IF raw = "OFF" THEN "NONE" ELSE raw
    /\ enabled' = IF raw = "OFF" /\ key_enable THEN FALSE ELSE enabled
    /\ ci1302_uart2_voice_config_sync(key_enable', wake_word')
    /\ UNCHANGED <<led3, state, pairVars>>

\* mutant: the session of the voice stays open for the application.
SwitchKeepsEnabled(raw) ==
    /\ raw # s_stable /\ s_stable' = raw
    /\ key_enable' = (raw # "OFF")
    /\ wake_word' = IF raw = "OFF" THEN "NONE" ELSE raw
    /\ led3' = IF raw = "OFF" /\ key_enable THEN led_ctrl_set_off(led3) ELSE led3
    /\ ci1302_uart2_voice_config_sync(key_enable', wake_word')
    /\ UNCHANGED <<enabled, state, pairVars>>

\* A position sampled three times in a row, other than the one acted upon last.
\* Switched off, the chip sends no end of session: the light goes off here.
check_offline_voice_keys(raw) ==
    /\ raw # s_stable /\ s_stable' = raw
    /\ key_enable' = (raw # "OFF")
    /\ wake_word' = IF raw = "OFF" THEN "NONE" ELSE raw
    /\ IF raw = "OFF" /\ key_enable
       THEN enabled' = FALSE /\ led3' = led_ctrl_set_off(led3)
       ELSE UNCHANGED <<enabled, led3>>
    /\ ci1302_uart2_voice_config_sync(key_enable', wake_word')
    /\ UNCHANGED <<state, pairVars>>

\* A frame of the chip while the switch is off closes the session.
FrameWhileOff ==
    /\ ~key_enable
    /\ IF enabled \/ state # "DISABLED"
       THEN enabled' = FALSE /\ led3' = led_ctrl_set_off(led3)
       ELSE UNCHANGED <<enabled, led3>>
    /\ state' = "DISABLED"

\* Only the wake word of the switch opens a session.
WakeUp(frame) ==
    /\ key_enable /\ state = "DISABLED"
    /\ IF frame = wake_word
       THEN state' = "WAKE_WORD_DETECTED" /\ enabled' = TRUE /\ led3' = led_voice_wakeup(led3)
       ELSE UNCHANGED <<state, enabled, led3>>

\* offline_voice_dataHandle, and offline_voice_wake_off for the end of a session.
InSession(frame) ==
    /\ key_enable /\ state # "DISABLED"
    /\ IF frame = "END"
       THEN state' = "DISABLED" /\ enabled' = FALSE /\ led3' = led_voice_close_flash(led3)
       ELSE /\ state' = "ACTIVE"
            /\ led3' = IF frame \in WakeWords THEN led_voice_wakeup(led3)
                       ELSE led_voice_command_confirm(led3)
            /\ UNCHANGED enabled

offline_voice_Handle(frame) ==
    /\ FrameWhileOff \/ WakeUp(frame) \/ InSession(frame)
    /\ UNCHANGED <<s_stable, key_enable, wake_word, shadow, chip, pairVars>>

--------------------------------------------------------------------------------
(* Pairing and the connection.                                              *)

\* mutant: cancelling pairing leaves its LED task running.
PairKeyKeepsTask ==
    /\ ble_pair_flag' = ~ble_pair_flag
    /\ ble_pair_time' = IF ble_pair_flag THEN 0 ELSE 3000
    /\ adv' = ~ble_pair_flag
    /\ led3' = IF ble_pair_flag THEN led3 ELSE led_bt_pairing(led3, FALSE)
    /\ UNCHANGED <<voiceVars, ble_connect>>

\* control_timer10ms: the pairing key held for two seconds, once to start and
\* once more to cancel.
PairKey ==
    /\ ble_pair_flag' = ~ble_pair_flag
    /\ ble_pair_time' = IF ble_pair_flag THEN 0 ELSE 3000
    /\ adv' = ~ble_pair_flag
    /\ led3' = IF ble_pair_flag THEN led_bt_pairing_stop(led3) ELSE led_bt_pairing(led3, FALSE)
    /\ UNCHANGED <<voiceVars, ble_connect>>

\* gap_manager_callback, CONNECTED: the stack ends advertising with the connection.
Connected ==
    /\ adv /\ ~ble_connect
    /\ ble_connect' = TRUE /\ adv' = FALSE
    /\ led3' = IF ble_pair_flag /\ ble_pair_time > 0 THEN led_bt_pairing(led3, TRUE) ELSE led3
    /\ UNCHANGED <<voiceVars, ble_pair_flag, ble_pair_time>>

\* The time a pairing begins with, and keeps.
PairTimeFull == ble_pair_time = 3000

\* gap_manager_callback, DISCONNECTED.
Disconnected ==
    /\ ble_connect
    /\ ble_connect' = FALSE
    /\ IF ~PairTimeFull
       THEN /\ adv' = TRUE
            /\ led3' = IF ble_pair_flag /\ ble_pair_time > 0
                       THEN led_bt_pairing(led3, FALSE) ELSE led3
       ELSE UNCHANGED <<adv, led3>>
    /\ UNCHANGED <<voiceVars, ble_pair_flag, ble_pair_time>>

Next ==
    \/ LedTick
    \/ \E raw \in Positions : check_offline_voice_keys(raw)
    \/ \E frame \in Frames : offline_voice_Handle(frame)
    \/ PairKey
    \/ Connected
    \/ Disconnected

\* The 10 ms timer of the main loop expires again and again.
Fairness == WF_vars(LedTick)

Spec == Init /\ [][Next]_vars /\ Fairness

--------------------------------------------------------------------------------
(* Safety.                                                                  *)

\* No pin of LED 3 is lit but that of its task: the next task, and the end of
\* this one, put out the colour of the task and no other, so a pin left lit by
\* a replaced task would stay lit (app_led_ctrl.c:192, 238, 271).
LitIsOwned == led3.lit \subseteq {led3.color}

\* The light of a voice session is seen only in a session with the switch on:
\* the chip sends no end of session when it is switched off (x_control.c:56),
\* and the light of a command turns back on by a callback three seconds later.
VoiceLightInSession ==
    led3.mode = "PERMANENT" \/ led3.color = "GREEN" => key_enable /\ state # "DISABLED"

\* The application is told of a session (enabled, 3.3.3) only while there is one.
EnabledInSession == enabled => key_enable /\ state # "DISABLED"

\* The callback that ends pairing and advertising waits only while the dock is
\* pairing, and with the priority that keeps voice indications from replacing
\* it: one left over would stop the advertising of a later disconnect.
PairTaskWhilePairing ==
    /\ led3.callback = "PAIR_TIMEOUT" => ble_pair_flag
    /\ led3.mode # "OFF" => (led3.callback = "PAIR_TIMEOUT" <=> led3.priority = HIGH)

\* The chip listens for the wake word of the switch, and for none when it is off,
\* although the configuration is sent only when it differs from the last one.
ChipFollowsSwitch == chip = IF key_enable THEN wake_word ELSE "OFF"

\* Advertising started by a disconnect goes on until the application connects or
\* pairing is used: no other step, in particular no callback, ends it.
AdvertisingKept == [][adv /\ ~adv' => ble_connect' \/ ble_pair_flag]_vars

--------------------------------------------------------------------------------
(* Liveness.                                                                *)

\* With no more requests every timed indication ends: LED 3 is dark in the end,
\* or shows an open session.
IndicationEnds == <>[](led3.mode \in {"OFF", "PERMANENT"})
================================================================================
