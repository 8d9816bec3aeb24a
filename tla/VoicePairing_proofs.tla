--------------------------- MODULE VoicePairing_proofs -------------------------
(***************************************************************************)
(* The safety of LED 3, the voice session and pairing for all timeouts and *)
(* intervals: each indication has its lemma, about what it does to LightAt, *)
(* the invariant as a predicate of the LED, of whether there is a session  *)
(* and of whether the dock is pairing.                                     *)
(***************************************************************************)
EXTENDS VoicePairing, LedTasks_proofs

USE LedTimeAssumption

--------------------------------------------------------------------------------
(* The inductive invariant.                                                 *)

InSessionNow == key_enable /\ state # "DISABLED"

\* Every light is voice's or pairing's: pairing's has its callback and its
\* priority, a command's is green and comes back blue, and both of voice's that
\* outlast their cause, the steady and the green one, need a session.
LightAt(l, session, pairing) ==
    /\ WellFormed(l)
    /\ l.priority # CRITICAL
    /\ l.mode # "OFF" => (l.callback = "PAIR_TIMEOUT" <=> l.priority = HIGH)
    /\ l.callback = "PAIR_TIMEOUT" => pairing
    /\ l.color = "GREEN" <=> l.callback = "RESTORE_BLUE"
    /\ l.mode = "PERMANENT" => l.priority = NORMAL
    /\ l.mode = "PERMANENT" \/ l.color = "GREEN" => session

\* The chip has the configuration of the shadow, and that is the switch's.
ConfigAt(en, word, sh, c) ==
    /\ sh.en = en /\ sh \in [en : BOOLEAN, ww : WakeWords \cup {"NONE"}]
    /\ en => word \in WakeWords /\ sh.ww = word
    /\ c = IF en THEN word ELSE "OFF"

IInv ==
    /\ TypeOK
    /\ LightAt(led3, InSessionNow, ble_pair_flag)
    /\ enabled => InSessionNow
    /\ ConfigAt(key_enable, wake_word, shadow, chip)

--------------------------------------------------------------------------------
(* The indications.                                                         *)

\* What LED 3 is lit with.
LEMMA Palette ==
    /\ "BLUE" \in Colors /\ "GREEN" \in Colors
    /\ "NONE" \in Callbacks /\ "RESTORE_BLUE" \in Callbacks /\ "PAIR_TIMEOUT" \in Callbacks
BY DEF Colors, Callbacks

LEMMA Priorities ==
    /\ NORMAL \in {NORMAL, HIGH, CRITICAL} /\ HIGH \in {NORMAL, HIGH, CRITICAL}
    /\ NORMAL # HIGH /\ NORMAL # CRITICAL /\ HIGH # CRITICAL
BY DEF NORMAL, HIGH, CRITICAL

\* A light that is not pairing's has the lowest priority.
LEMMA NotBusy ==
    ASSUME NEW l, NEW session \in BOOLEAN, NEW pairing \in BOOLEAN, LightAt(l, session, pairing)
    PROVE  /\ ~Busy(l, HIGH)
           /\ Busy(l, NORMAL) => l.priority = HIGH
           /\ l.priority > NORMAL <=> l.priority = HIGH
BY DEF LightAt, WellFormed, Led, Busy, NORMAL, HIGH, CRITICAL

\* An LED without a task needs neither session nor pairing.
LEMMA NoLight ==
    ASSUME NEW l, WellFormed(l), l.mode = "OFF", NEW session \in BOOLEAN, NEW pairing \in BOOLEAN
    PROVE  LightAt(l, session, pairing)
BY Priorities DEF LightAt, WellFormed

LEMMA OffLight ==
    ASSUME NEW l, WellFormed(l), NEW session \in BOOLEAN, NEW pairing \in BOOLEAN
    PROVE  LightAt(led_ctrl_set_off(l), session, pairing)
BY SetOff, NoLight

\* In a session its light may be turned on, by the wake word or again after a command.
LEMMA WakeLight ==
    ASSUME NEW l, NEW pairing \in BOOLEAN, LightAt(l, TRUE, pairing)
    PROVE  LightAt(led_voice_wakeup(l), TRUE, pairing)
<1> DEFINE m == led_ctrl_set_on(l, "BLUE", 0, NORMAL, "NONE")
<1>1. CASE l.priority > NORMAL
    BY <1>1 DEF led_voice_wakeup
<1>2. CASE ~(l.priority > NORMAL)
    <2>1. WellFormed(l) /\ ~Busy(l, NORMAL) /\ 0 \in Nat
        BY <1>2 DEF LightAt, Busy
    <2>2. /\ WellFormed(m) /\ m.mode = "PERMANENT" /\ m.color = "BLUE"
          /\ m.priority = NORMAL /\ m.callback = "NONE"
        <3>1. TaskIs(m, IF 0 = 0 THEN "PERMANENT" ELSE "ON", "BLUE", NORMAL, "NONE")
            BY <2>1, OnIs, Palette, Priorities, Zenon
        <3> QED BY <3>1, Zenon DEF TaskIs
    <2>3. led_voice_wakeup(l) = m
        BY <1>2 DEF led_voice_wakeup
    <2> HIDE DEF m
    <2> QED BY <2>2, <2>3, Priorities DEF LightAt
<1> QED BY <1>1, <1>2

\* The same light again after a command.
LEMMA RestoreLight ==
    ASSUME NEW l, NEW pairing \in BOOLEAN, LightAt(l, TRUE, pairing)
    PROVE  LightAt(led_voice_restore_blue(l), TRUE, pairing)
BY WakeLight DEF led_voice_wakeup, led_voice_restore_blue

LEMMA ConfirmLight ==
    ASSUME NEW l, NEW pairing \in BOOLEAN, LightAt(l, TRUE, pairing)
    PROVE  LightAt(led_voice_command_confirm(l), TRUE, pairing)
<1> DEFINE m == led_ctrl_set_on(l, "GREEN", GREEN_TIMEOUT, NORMAL, "RESTORE_BLUE")
<1>1. CASE l.priority > NORMAL
    BY <1>1 DEF led_voice_command_confirm
<1>2. CASE ~(l.priority > NORMAL)
    <2>1. WellFormed(l) /\ ~Busy(l, NORMAL) /\ GREEN_TIMEOUT \in Nat /\ GREEN_TIMEOUT # 0
        BY <1>2 DEF LightAt, Busy
    <2>2. /\ WellFormed(m) /\ m.mode = "ON" /\ m.color = "GREEN"
          /\ m.priority = NORMAL /\ m.callback = "RESTORE_BLUE"
        <3>1. TaskIs(m, IF GREEN_TIMEOUT = 0 THEN "PERMANENT" ELSE "ON", "GREEN", NORMAL,
                     "RESTORE_BLUE")
            BY <2>1, OnIs, Palette, Priorities, Zenon
        <3> QED BY <2>1, <3>1, Zenon DEF TaskIs
    <2>3. led_voice_command_confirm(l) = m
        BY <1>2 DEF led_voice_command_confirm
    <2> HIDE DEF m
    <2> QED BY <2>2, <2>3, Priorities DEF LightAt
<1> QED BY <1>1, <1>2

\* The closing flash takes every light of the session away; only pairing's stays.
LEMMA CloseLight ==
    ASSUME NEW l, NEW session \in BOOLEAN, NEW pairing \in BOOLEAN, LightAt(l, session, pairing), NEW new \in BOOLEAN
    PROVE  LightAt(led_voice_close_flash(l), new, pairing)
<1> DEFINE m == led_ctrl_set_flash(l, "BLUE", FAST, 2, CLOSE_TIMEOUT, NORMAL, "NONE")
<1>1. WellFormed(l) /\ FAST \in Nat /\ 2 \in Nat /\ CLOSE_TIMEOUT \in Nat
    BY DEF LightAt
<1>2. /\ Busy(l, NORMAL) => m = l
      /\ ~Busy(l, NORMAL) => /\ WellFormed(m)
                             /\ m.mode = "FLASH" /\ m.color = "BLUE"
                             /\ m.priority = NORMAL /\ m.callback = "NONE"
    <2>1. ASSUME Busy(l, NORMAL) PROVE m = l
        BY <2>1 DEF led_ctrl_set_flash
    <2>2. ASSUME ~Busy(l, NORMAL)
          PROVE  /\ WellFormed(m)
                 /\ m.mode = "FLASH" /\ m.color = "BLUE"
                 /\ m.priority = NORMAL /\ m.callback = "NONE"
        <3>1. "BLUE" \in Colors /\ "NONE" \in Callbacks /\ NORMAL \in {NORMAL, HIGH, CRITICAL}
            BY Palette, Priorities
        <3>2. TaskIs(m, "FLASH", "BLUE", NORMAL, "NONE")
            BY <1>1, <2>2, <3>1, SetFlash, Zenon
        <3> QED BY <3>2, Zenon DEF TaskIs
    <2> QED BY <2>1, <2>2
<1> HIDE DEF m
<1>3. ASSUME Busy(l, NORMAL) PROVE LightAt(m, new, pairing)
    <2>1. m = l /\ l.priority = HIGH /\ l.mode # "OFF"
        BY <1>2, <1>3, NotBusy DEF Busy
    <2> QED BY <2>1, Priorities DEF LightAt
<1>4. ASSUME ~Busy(l, NORMAL) PROVE LightAt(m, new, pairing)
    BY <1>2, <1>4, Priorities DEF LightAt
<1>5. LightAt(m, new, pairing)
    BY <1>3, <1>4
<1> QED BY <1>5 DEF m, led_voice_close_flash

\* Pairing takes over from voice.
LEMMA PairLight ==
    ASSUME NEW l, NEW session \in BOOLEAN, NEW pairing \in BOOLEAN, LightAt(l, session, pairing), NEW connected \in BOOLEAN
    PROVE  LightAt(led_bt_pairing(l, connected), session, TRUE)
<1> DEFINE m == led_bt_pairing(l, connected)
<1>1. /\ WellFormed(l) /\ ~Busy(l, HIGH) /\ 0 \in Nat
      /\ SLOW \in Nat /\ PAIR_TIMEOUT \in Nat /\ PAIR_TIMEOUT # 0
    BY NotBusy DEF LightAt
<1>2. /\ WellFormed(m) /\ m.mode \in {"ON", "FLASH"} /\ m.color = "BLUE"
      /\ m.priority = HIGH /\ m.callback = "PAIR_TIMEOUT"
    <2>1. CASE connected
        <3> DEFINE o == led_ctrl_set_on(l, "BLUE", PAIR_TIMEOUT, HIGH, "PAIR_TIMEOUT")
        <3>1. TaskIs(o, IF PAIR_TIMEOUT = 0 THEN "PERMANENT" ELSE "ON", "BLUE", HIGH,
                     "PAIR_TIMEOUT")
            BY <1>1, OnIs, Palette, Priorities, Zenon
        <3>2. m = o
            BY <2>1 DEF led_bt_pairing
        <3> HIDE DEF o, m
        <3> QED BY <1>1, <3>1, <3>2 DEF TaskIs
    <2>2. CASE ~connected
        <3> DEFINE f == led_ctrl_set_flash(l, "BLUE", SLOW, 0, PAIR_TIMEOUT, HIGH, "PAIR_TIMEOUT")
        <3>1. /\ WellFormed(f) /\ f.mode = "FLASH" /\ f.color = "BLUE"
              /\ f.priority = HIGH /\ f.callback = "PAIR_TIMEOUT"
            <4>1. 0 \in Nat /\ TaskIs(f, "FLASH", "BLUE", HIGH, "PAIR_TIMEOUT")
                BY <1>1, SetFlash, Palette, Priorities, Zenon
            <4> QED BY <4>1, Zenon DEF TaskIs
        <3>2. m = f
            BY <2>2 DEF led_bt_pairing
        <3> HIDE DEF f, m
        <3> QED BY <3>1, <3>2
    <2> QED BY <2>1, <2>2
<1> HIDE DEF m
<1>3. LightAt(m, session, TRUE)
    BY <1>2, Priorities DEF LightAt
<1> QED BY <1>3 DEF m

\* Ended, pairing leaves LED 3 dark or to an open session.
LEMMA StopLight ==
    ASSUME NEW l, NEW session \in BOOLEAN, NEW pairing \in BOOLEAN, LightAt(l, session, pairing),
           enabled => session
    PROVE  LightAt(led_bt_pairing_stop(l), session, FALSE)
<1>1. LightAt(led_ctrl_set_off(l), session, FALSE)
    BY OffLight DEF LightAt
<1>2. CASE enabled
    <2>1. session = TRUE
        BY <1>2
    <2> QED BY <1>1, <1>2, <2>1, WakeLight DEF led_bt_pairing_stop
<1>3. CASE ~enabled
    BY <1>1, <1>3 DEF led_bt_pairing_stop
<1> QED BY <1>2, <1>3

\* A tick ends the task, with its callback, or leaves it what it was.
LEMMA TickLight ==
    ASSUME NEW l, NEW session \in BOOLEAN, NEW pairing \in BOOLEAN, LightAt(l, session, pairing)
    PROVE  LET m == IF Called(l) = "RESTORE_BLUE" THEN led_voice_restore_blue(Elapse(l)) ELSE Elapse(l)
           IN  /\ Called(l) = "PAIR_TIMEOUT" => LightAt(m, session, FALSE)
               /\ Called(l) # "PAIR_TIMEOUT" => LightAt(m, session, pairing)
<1> DEFINE next == Elapse(l)
<1>1. WellFormed(l)
    BY DEF LightAt
<1>2. /\ WellFormed(next)
      /\ Over(l) => next.mode = "OFF"
      /\ ~Over(l) => SameTask(l, next)
    BY <1>1, Elapsed
<1> HIDE DEF next
<1>3. CASE Over(l)
    <2>1. \A p \in BOOLEAN : LightAt(next, session, p)
        BY <1>2, <1>3, NoLight
    <2>2. Called(l) = l.callback /\ l.mode # "OFF"
        BY <1>3 DEF Called, Over
    <2>3. CASE Called(l) = "RESTORE_BLUE"
        <3>1. session = TRUE
            BY <2>2, <2>3 DEF LightAt
        <3>2. LightAt(led_voice_restore_blue(next), session, pairing)
            BY <2>1, <3>1, RestoreLight
        <3> QED BY <2>3, <3>2 DEF next
    <2>4. CASE Called(l) # "RESTORE_BLUE"
        <3>1. LightAt(next, session, FALSE) /\ LightAt(next, session, pairing)
            BY <2>1
        <3> QED BY <2>4, <3>1 DEF next
    <2> QED BY <2>3, <2>4
<1>4. CASE ~Over(l)
    <2>1. Called(l) = "NONE"
        BY <1>4 DEF Called
    <2>2. LightAt(next, session, pairing)
        BY <1>2, <1>4 DEF LightAt, SameTask
    <2> QED BY <2>1, <2>2 DEF next
<1> QED BY <1>3, <1>4

--------------------------------------------------------------------------------
(* The configuration of the chip.                                           *)

\* Sent or not, the configuration is the one asked for.
LEMMA SyncConfig ==
    ASSUME IInv, NEW en \in BOOLEAN, NEW ww \in WakeWords \cup {"NONE"}, en => ww \in WakeWords,
           ci1302_uart2_voice_config_sync(en, ww)
    PROVE  ConfigAt(en, ww, shadow', chip')
<1>1. ConfigAt(key_enable, wake_word, shadow, chip)
    BY DEF IInv
<1>2. CASE shadow.en = en /\ (~en \/ shadow.ww = ww)
    <2>1. shadow' = shadow /\ chip' = chip
        BY <1>2 DEF ci1302_uart2_voice_config_sync
    <2> QED BY <1>1, <1>2, <2>1 DEF ConfigAt
<1>3. CASE ~(shadow.en = en /\ (~en \/ shadow.ww = ww))
    <2>1. shadow' = [en |-> en, ww |-> ww] /\ chip' = IF en THEN ww ELSE "OFF"
        BY <1>3 DEF ci1302_uart2_voice_config_sync
    <2> QED BY <2>1 DEF ConfigAt
<1> QED BY <1>2, <1>3

--------------------------------------------------------------------------------
(* The steps.                                                               *)

LEMMA InitIInv == Init => IInv
<1> SUFFICES ASSUME Init PROVE IInv
    OBVIOUS
<1>1. TypeOK
    BY DarkWellFormed DEF Init, TypeOK, Positions, WellFormed
<1>2. InSessionNow = FALSE /\ ble_pair_flag = FALSE /\ Dark.mode = "OFF"
    BY DEF Init, InSessionNow, Dark
<1>3. LightAt(led3, InSessionNow, ble_pair_flag)
    BY <1>2, DarkWellFormed, NoLight DEF Init
<1>4. ConfigAt(key_enable, wake_word, shadow, chip)
    BY DEF Init, ConfigAt
<1> QED BY <1>1, <1>3, <1>4 DEF IInv, Init

\* What a step may rely on, and what it must leave.
LEMMA Facts ==
    ASSUME IInv
    PROVE  /\ InSessionNow \in BOOLEAN /\ ble_pair_flag \in BOOLEAN
           /\ LightAt(led3, InSessionNow, ble_pair_flag) /\ WellFormed(led3)
           /\ enabled => InSessionNow
BY DEF IInv, TypeOK, InSessionNow, LightAt

LEMMA TickSafe == ASSUME IInv, LedTick PROVE IInv'
<1> DEFINE m == IF Called(led3) = "RESTORE_BLUE" THEN led_voice_restore_blue(Elapse(led3)) ELSE Elapse(led3)
<1>1. /\ Called(led3) = "PAIR_TIMEOUT" => LightAt(m, InSessionNow, FALSE)
      /\ Called(led3) # "PAIR_TIMEOUT" => LightAt(m, InSessionNow, ble_pair_flag)
    BY Facts, TickLight
<1>2. led3' = m /\ UNCHANGED voiceVars /\ InSessionNow' = InSessionNow
    BY DEF LedTick, voiceVars, InSessionNow
<1> HIDE DEF m
<1>3. LightAt(led3', InSessionNow', ble_pair_flag')
    BY <1>1, <1>2 DEF LedTick
<1>4. /\ ble_pair_flag' \in BOOLEAN /\ ble_pair_time' \in {0, 3000}
      /\ adv' \in BOOLEAN /\ ble_connect' \in BOOLEAN
    <2>1. ble_pair_time' \in {0, 3000} /\ ble_connect' \in BOOLEAN
        BY DEF IInv, TypeOK, LedTick
    <2>2. ble_pair_flag \in BOOLEAN /\ adv \in BOOLEAN
        BY DEF IInv, TypeOK
    <2>3. ble_pair_flag' = FALSE \/ ble_pair_flag' = ble_pair_flag
        BY DEF LedTick
    <2>4. adv' = FALSE \/ adv' = adv
        BY DEF LedTick
    <2>5. ble_pair_flag' \in BOOLEAN /\ adv' \in BOOLEAN
        BY <2>2, <2>3, <2>4
    <2> QED BY <2>1, <2>5
<1>5. led3' \in Led
    BY <1>3 DEF LightAt, WellFormed
<1>6. TypeOK'
    BY <1>2, <1>4, <1>5 DEF IInv, TypeOK, voiceVars
<1> QED BY <1>2, <1>3, <1>6 DEF IInv, voiceVars

LEMMA SwitchSafe ==
    ASSUME IInv, NEW raw \in Positions, check_offline_voice_keys(raw)
    PROVE  IInv'
<1>1. /\ key_enable' \in BOOLEAN /\ wake_word' \in WakeWords \cup {"NONE"}
      /\ key_enable' => wake_word' \in WakeWords
      /\ key_enable' <=> raw # "OFF"
    BY DEF check_offline_voice_keys, Positions, WakeWords
<1>2. ConfigAt(key_enable', wake_word', shadow', chip')
    BY <1>1, SyncConfig DEF check_offline_voice_keys
<1>3. InSessionNow' \in BOOLEAN /\ ble_pair_flag' = ble_pair_flag /\ state' = state
    BY DEF InSessionNow, check_offline_voice_keys, pairVars
<1>4. /\ LightAt(led3', InSessionNow', ble_pair_flag')
      /\ enabled' => InSessionNow'
      /\ enabled' \in BOOLEAN
    <2>1. CASE raw = "OFF" /\ key_enable
        <3>1. enabled' = FALSE /\ led3' = led_ctrl_set_off(led3)
            BY <2>1 DEF check_offline_voice_keys
        <3> QED BY <1>3, <3>1, Facts, OffLight
    <2>2. CASE ~(raw = "OFF" /\ key_enable)
        <3>1. enabled' = enabled /\ led3' = led3
            BY <2>2 DEF check_offline_voice_keys
        <3>2. InSessionNow' = InSessionNow \/ InSessionNow = FALSE
            BY <1>1, <1>3, <2>2 DEF InSessionNow, IInv, TypeOK
        <3>3. LightAt(led3, InSessionNow', ble_pair_flag) /\ (enabled => InSessionNow')
            BY <1>3, <3>2, Facts DEF LightAt
        <3> QED BY <1>3, <3>1, <3>3 DEF IInv, TypeOK
    <2> QED BY <2>1, <2>2
<1>5. TypeOK'
    BY <1>1, <1>2, <1>4 DEF IInv, TypeOK, ConfigAt, LightAt, WellFormed, Positions,
                            check_offline_voice_keys, pairVars
<1> QED BY <1>2, <1>4, <1>5 DEF IInv

\* The frames of the chip change the session and its light only.
LEMMA FrameSafe ==
    ASSUME IInv, NEW frame \in Frames, offline_voice_Handle(frame)
    PROVE  IInv'
<1>1. /\ UNCHANGED <<s_stable, key_enable, wake_word, shadow, chip>>
      /\ ble_pair_flag' = ble_pair_flag /\ ble_pair_time' = ble_pair_time
      /\ adv' = adv /\ ble_connect' = ble_connect
    BY DEF offline_voice_Handle, pairVars
<1>2. InSessionNow' \in BOOLEAN
    BY DEF InSessionNow
<1>3. /\ LightAt(led3', InSessionNow', ble_pair_flag')
      /\ enabled' \in BOOLEAN /\ (enabled' => InSessionNow')
      /\ state' \in {"DISABLED", "WAKE_WORD_DETECTED", "ACTIVE"}
    <2>1. CASE FrameWhileOff
        <3>1. InSessionNow = FALSE /\ state' = "DISABLED"
            BY <2>1 DEF FrameWhileOff, InSessionNow
        <3>2. CASE enabled \/ state # "DISABLED"
            <4>1. enabled' = FALSE /\ led3' = led_ctrl_set_off(led3)
                BY <2>1, <3>2 DEF FrameWhileOff
            <4> QED BY <1>1, <1>2, <3>1, <4>1, Facts, OffLight
        <3>3. CASE ~(enabled \/ state # "DISABLED")
            <4>1. enabled' = FALSE /\ led3' = led3
                <5>1. enabled' = enabled /\ led3' = led3 /\ ~enabled
                    BY <2>1, <3>3 DEF FrameWhileOff
                <5>2. enabled \in BOOLEAN
                    BY DEF IInv, TypeOK
                <5> QED BY <5>1, <5>2
            <4>2. InSessionNow' = FALSE
                BY <1>1, <2>1 DEF FrameWhileOff, InSessionNow
            <4>3. LightAt(led3, FALSE, ble_pair_flag)
                BY <3>1, Facts
            <4> QED BY <1>1, <3>1, <4>1, <4>2, <4>3
        <3> QED BY <3>2, <3>3
    <2>2. CASE WakeUp(frame)
        <3>1. CASE frame = wake_word
            <4>1. /\ state' = "WAKE_WORD_DETECTED" /\ enabled' = TRUE
                  /\ led3' = led_voice_wakeup(led3)
                BY <2>2, <3>1 DEF WakeUp
            <4>2. InSessionNow' = TRUE
                BY <1>1, <2>2, <4>1 DEF WakeUp, InSessionNow
            <4>3. LightAt(led3, TRUE, ble_pair_flag)
                BY Facts DEF LightAt
            <4> QED BY <1>1, <4>1, <4>2, <4>3, Facts, WakeLight
        <3>2. CASE frame # wake_word
            <4>1. UNCHANGED <<state, enabled, led3>>
                BY <2>2, <3>2 DEF WakeUp
            <4>2. InSessionNow' = InSessionNow
                BY <1>1, <4>1 DEF InSessionNow
            <4> QED BY <1>1, <4>1, <4>2, Facts DEF IInv, TypeOK
        <3> QED BY <3>1, <3>2
    <2>3. CASE InSession(frame)
        <3>1. InSessionNow = TRUE
            BY <2>3 DEF InSession, InSessionNow
        <3>2. CASE frame = "END"
            <4>1. /\ state' = "DISABLED" /\ enabled' = FALSE
                  /\ led3' = led_voice_close_flash(led3)
                BY <2>3, <3>2 DEF InSession
            <4> QED BY <1>1, <1>2, <4>1, Facts, CloseLight
        <3>3. CASE frame # "END"
            <4>1. /\ state' = "ACTIVE" /\ enabled' = enabled
                  /\ led3' \in {led_voice_wakeup(led3), led_voice_command_confirm(led3)}
                BY <2>3, <3>3 DEF InSession
            <4>2. InSessionNow' = TRUE
                BY <1>1, <2>3, <4>1 DEF InSession, InSessionNow
            <4>3. LightAt(led3, TRUE, ble_pair_flag)
                BY <3>1, Facts
            <4>4. LightAt(led3', TRUE, ble_pair_flag)
                BY <4>1, <4>3, Facts, WakeLight, ConfirmLight
            <4>5. enabled' \in BOOLEAN
                BY <4>1 DEF IInv, TypeOK
            <4> QED BY <1>1, <4>1, <4>2, <4>4, <4>5
        <3> QED BY <3>2, <3>3
    <2> QED BY <2>1, <2>2, <2>3 DEF offline_voice_Handle
<1>4. led3' \in Led
    BY <1>3 DEF LightAt, WellFormed
<1>5. TypeOK'
    BY <1>1, <1>3, <1>4 DEF IInv, TypeOK
<1> QED BY <1>1, <1>3, <1>5 DEF IInv

\* The steps of pairing leave voice alone.
LEMMA PairFrame ==
    ASSUME IInv, UNCHANGED voiceVars, LightAt(led3', InSessionNow, ble_pair_flag'),
           ble_pair_flag' \in BOOLEAN, ble_pair_time' \in {0, 3000},
           adv' \in BOOLEAN, ble_connect' \in BOOLEAN
    PROVE  IInv'
<1>1. InSessionNow' = InSessionNow
    BY DEF InSessionNow, voiceVars
<1>2. led3' \in Led
    BY DEF LightAt, WellFormed
<1>3. TypeOK'
    BY <1>2 DEF IInv, TypeOK, voiceVars
<1> QED BY <1>1, <1>3 DEF IInv, voiceVars

LEMMA PairKeySafe == ASSUME IInv, PairKey PROVE IInv'
<1>1. /\ ble_pair_flag' = ~ble_pair_flag /\ adv' = ~ble_pair_flag
      /\ UNCHANGED voiceVars /\ ble_connect' = ble_connect
    BY DEF PairKey
<1>2. ble_pair_flag' \in BOOLEAN /\ adv' \in BOOLEAN
    BY <1>1, Facts
<1>3. ble_pair_time' \in {0, 3000}
    BY DEF PairKey
<1>4. ble_connect' \in BOOLEAN
    BY <1>1 DEF IInv, TypeOK
<1>5. CASE ble_pair_flag
    <2>1. ble_pair_flag' = FALSE /\ led3' = led_bt_pairing_stop(led3)
        BY <1>5, Facts DEF PairKey
    <2>2. LightAt(led3', InSessionNow, ble_pair_flag')
        BY <2>1, Facts, StopLight
    <2> QED BY <1>1, <1>2, <1>3, <1>4, <2>2, PairFrame
<1>6. CASE ~ble_pair_flag
    <2>1. ble_pair_flag' = TRUE /\ led3' = led_bt_pairing(led3, FALSE)
        BY <1>6, Facts DEF PairKey
    <2>2. LightAt(led3', InSessionNow, ble_pair_flag')
        BY <2>1, Facts, PairLight
    <2> QED BY <1>1, <1>2, <1>3, <1>4, <2>2, PairFrame
<1> QED BY <1>5, <1>6

\* Connecting and disconnecting turn on pairing's light only while pairing.
LEMMA LinkSafe ==
    ASSUME IInv, NEW c \in BOOLEAN, UNCHANGED <<voiceVars, ble_pair_flag, ble_pair_time>>,
           led3' = led3 \/ (ble_pair_flag /\ led3' = led_bt_pairing(led3, c)),
           adv' \in BOOLEAN, ble_connect' \in BOOLEAN
    PROVE  IInv'
<1>1. UNCHANGED voiceVars /\ ble_pair_flag' = ble_pair_flag
    OBVIOUS
<1>2. LightAt(led3', InSessionNow, ble_pair_flag')
    <2>1. CASE led3' = led3
        BY <1>1, <2>1, Facts
    <2>2. CASE ble_pair_flag /\ led3' = led_bt_pairing(led3, c)
        <3>1. ble_pair_flag = TRUE
            BY <2>2, Facts
        <3> QED BY <1>1, <2>2, <3>1, Facts, PairLight
    <2> QED BY <2>1, <2>2
<1>3. ble_pair_time' \in {0, 3000}
    BY DEF IInv, TypeOK
<1>4. ble_pair_flag' \in BOOLEAN
    BY <1>1, Facts
<1> QED BY <1>1, <1>2, <1>3, <1>4, PairFrame

LEMMA ConnectedSafe == ASSUME IInv, Connected PROVE IInv'
<1>1. /\ adv' = FALSE /\ ble_connect' = TRUE
      /\ UNCHANGED <<voiceVars, ble_pair_flag, ble_pair_time>>
    BY DEF Connected
<1>2. led3' = led3 \/ (ble_pair_flag /\ led3' = led_bt_pairing(led3, TRUE))
    BY DEF Connected
<1>3. adv' \in BOOLEAN /\ ble_connect' \in BOOLEAN
    BY <1>1
<1> QED BY <1>1, <1>2, <1>3, LinkSafe

LEMMA DisconnectedCases ==
    ASSUME Disconnected
    PROVE  \/ adv' = adv /\ led3' = led3
           \/ adv' = TRUE /\ led3' = led3
           \/ adv' = TRUE /\ ble_pair_flag /\ led3' = led_bt_pairing(led3, FALSE)
<1>1. CASE PairTimeFull
    BY <1>1 DEF Disconnected
<1>2. CASE ~PairTimeFull
    BY <1>2 DEF Disconnected
<1> QED BY <1>1, <1>2

LEMMA DisconnectedSafe == ASSUME IInv, Disconnected PROVE IInv'
<1>1. /\ ble_connect' = FALSE
      /\ UNCHANGED <<voiceVars, ble_pair_flag, ble_pair_time>>
    BY DEF Disconnected
<1>2. led3' = led3 \/ (ble_pair_flag /\ led3' = led_bt_pairing(led3, FALSE))
    BY DisconnectedCases, Zenon
<1>3. adv' = TRUE \/ adv' = adv
    BY DisconnectedCases, Zenon
<1>4. adv \in BOOLEAN
    BY DEF IInv, TypeOK
<1>5. adv' \in BOOLEAN /\ ble_connect' \in BOOLEAN
    BY <1>1, <1>3, <1>4
<1> QED BY <1>1, <1>2, <1>5, LinkSafe

LEMMA StutterSafe == ASSUME IInv, UNCHANGED vars PROVE IInv'
BY DEF IInv, TypeOK, LightAt, InSessionNow, ConfigAt, WellFormed, vars, voiceVars, pairVars

\* Advertising ends with a connection or by pairing, when the callback fires too.
LEMMA AdvertisingStep ==
    ASSUME IInv, Next, adv, ~adv'
    PROVE  ble_connect' \/ ble_pair_flag
<1>1. CASE LedTick
    <2>1. Called(led3) = "PAIR_TIMEOUT"
        BY <1>1 DEF LedTick
    <2>2. led3.callback = "PAIR_TIMEOUT"
        BY <2>1 DEF Called
    <2> QED BY <2>2, Facts DEF LightAt
<1>2. CASE PairKey
    BY <1>2, Facts DEF PairKey
<1>3. CASE Connected
    BY <1>3 DEF Connected
<1>4. CASE Disconnected
    <2>1. adv' = TRUE \/ adv' = adv
        BY <1>4, DisconnectedCases, Zenon
    <2> QED BY <2>1
<1>5. CASE \E raw \in Positions : check_offline_voice_keys(raw)
    BY <1>5 DEF check_offline_voice_keys, pairVars
<1>6. CASE \E frame \in Frames : offline_voice_Handle(frame)
    BY <1>6 DEF offline_voice_Handle, pairVars
<1> QED BY <1>1, <1>2, <1>3, <1>4, <1>5, <1>6 DEF Next

--------------------------------------------------------------------------------
(* The theorems.                                                            *)

\* The invariant holds whatever the timeouts (app_led_ctrl.c, x_control.c:56).
THEOREM Invariance == Spec => []IInv
<1>1. Init => IInv
    BY InitIInv
<1>2. IInv /\ [Next]_vars => IInv'
    BY TickSafe, SwitchSafe, FrameSafe, PairKeySafe, ConnectedSafe, DisconnectedSafe, StutterSafe DEF Next
<1> QED BY <1>1, <1>2, PTL DEF Spec

\* LED 3, voice and pairing stay within their types (led_ctrl_t, g_offline_voice).
THEOREM TypeCorrect == Spec => []TypeOK
<1>1. IInv => TypeOK
    BY DEF IInv
<1> QED BY <1>1, Invariance, PTL

\* No pin of LED 3 is lit but its task's (app_led_ctrl.c:192, 238, 271), and what
\* is lit for a session is lit in one (x_control.c:56, app_led_ctrl.c:697).
THEOREM LightCorrect == Spec => [](LitIsOwned /\ VoiceLightInSession)
<1>1. IInv => LitIsOwned /\ VoiceLightInSession
    BY DEF IInv, LightAt, WellFormed, InSessionNow, LitIsOwned, VoiceLightInSession
<1> QED BY <1>1, Invariance, PTL

\* The application is told of a session only while there is one (offline_voice.c).
THEOREM SessionCorrect == Spec => []EnabledInSession
<1>1. IInv => EnabledInSession
    BY DEF IInv, InSessionNow, EnabledInSession
<1> QED BY <1>1, Invariance, PTL

\* The callback that ends pairing waits only while the dock pairs, and with the
\* priority that keeps voice from replacing it (app_led_ctrl.c:651).
THEOREM PairTaskCorrect == Spec => []PairTaskWhilePairing
<1>1. IInv => PairTaskWhilePairing
    BY DEF IInv, LightAt, PairTaskWhilePairing
<1> QED BY <1>1, Invariance, PTL

\* The voice chip has the configuration of the switch, although it is sent only
\* when it differs from the last one (ci1302_uart2_voice_config_sync).
THEOREM ChipCorrect == Spec => []ChipFollowsSwitch
<1>1. IInv => ChipFollowsSwitch
    BY DEF IInv, ConfigAt, ChipFollowsSwitch
<1> QED BY <1>1, Invariance, PTL

\* No callback left over from pairing ends the advertising of a disconnect.
THEOREM AdvertisingCorrect == Spec => AdvertisingKept
<1>1. IInv /\ [Next]_vars => [adv /\ ~adv' => ble_connect' \/ ble_pair_flag]_vars
    BY AdvertisingStep
<1> QED BY <1>1, Invariance, PTL DEF Spec, AdvertisingKept
================================================================================
