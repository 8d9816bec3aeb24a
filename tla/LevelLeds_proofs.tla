---------------------------- MODULE LevelLeds_proofs ---------------------------
(***************************************************************************)
(* The safety of LEDs 0 to 2 for all timeouts and intervals: each          *)
(* indication has its lemma, about what it does to LedsAt, the invariant as *)
(* a predicate of the LEDs, the level and the last charge status.          *)
(***************************************************************************)
EXTENDS LevelLeds, LedTasks_proofs

USE LedTimeAssumption

--------------------------------------------------------------------------------
(* The inductive invariant.                                                 *)

\* A red task, lit or not, leaves no blue task beside it: the red pin may be
\* written dark past its task, so RedNotBlue alone is not inductive.
LedsAt(leds, level, last) ==
    /\ leds \in [LevelLed -> Led]
    /\ \A i \in LevelLed : WellFormed(leds[i])
    /\ leds[0].color = "RED" => \A i \in LevelLed : leds[i].color # "BLUE"
    /\ \A i \in LevelLed : leds[i].mode = "ON" /\ leds[i].color = "BLUE" => level = i + 1
    /\ leds[1].color = "GREEN" => last = "NORMAL"

\* The poll passes over a fault that was shown: then the dock did not charge.
IInv ==
    /\ TypeOK
    /\ LedsAt(led, AntiSnore_intensity, last_charge_status)
    /\ last_charge_status = "NORMAL" => ~chargeAbnormal_flag

--------------------------------------------------------------------------------
(* The indications.                                                         *)

\* The LEDs named by number.
LEMMA ZeroOneTwo == 0 \in LevelLed /\ 1 \in LevelLed /\ 2 \in LevelLed
BY DEF LevelLed

\* A tick ends tasks and changes none.
LEMMA TickAt ==
    ASSUME NEW leds, NEW level, NEW last, LedsAt(leds, level, last)
    PROVE  LedsAt([i \in LevelLed |-> Elapse(leds[i])], level, last)
<1> DEFINE next == [i \in LevelLed |-> Elapse(leds[i])]
<1>1. \A i \in LevelLed :
          /\ next[i] = Elapse(leds[i])
          /\ WellFormed(next[i])
          /\ (next[i].mode = "OFF" /\ next[i].color = "NONE") \/ SameTask(leds[i], next[i])
    BY Elapsed DEF LedsAt, WellFormed
<1>2. next \in [LevelLed -> Led]
    BY <1>1 DEF WellFormed
<1> HIDE DEF next
<1>3. LedsAt(next, level, last)
    BY <1>1, <1>2 DEF LedsAt, SameTask, LevelLed
<1> QED BY <1>3 DEF next

\* Whatever the LEDs show, the other levels' go off and this level's is in force.
LEMMA LevelAt ==
    ASSUME NEW leds, NEW level, NEW last, LedsAt(leds, level, last), NEW new \in 0..3
    PROVE  LedsAt(led_snore_level_set(leds, new), new, last)
<1> DEFINE next == led_snore_level_set(leds, new)
<1>1. ASSUME NEW i \in LevelLed
      PROVE  /\ WellFormed(next[i])
             /\ i # new - 1 => next[i].color = "NONE" /\ next[i].mode = "OFF"
             /\ next[i].color = "BLUE" \/ next[i].color = leds[i].color \/ next[i].color = "NONE"
    <2>1. WellFormed(leds[i]) /\ "BLUE" \in Colors /\ "NONE" \in Callbacks
        BY DEF LedsAt, Colors, Callbacks
    <2>2. CASE i # new - 1
        <3>1. next[i] = led_ctrl_set_off(leds[i])
            BY <2>2 DEF led_snore_level_set
        <3> QED BY <2>1, <2>2, <3>1, SetOff DEF WellFormed
    <2>3. CASE i = new - 1
        <3>1. next[i] = led_ctrl_set_on(leds[i], "BLUE", LEVEL_TIMEOUT, NORMAL, "NONE")
            BY <2>3 DEF led_snore_level_set
        <3> QED BY <2>1, <2>3, <3>1, SetOn
    <2> QED BY <2>2, <2>3
<1>2. next \in [LevelLed -> Led]
    BY <1>1 DEF led_snore_level_set, WellFormed
<1> HIDE DEF next
<1>3. \A i \in LevelLed : next[i].mode = "ON" => new = i + 1
    BY <1>1 DEF LevelLed
<1>4. next[0].color = "RED" => \A i \in LevelLed : next[i].color # "BLUE"
    BY <1>1, <1>3 DEF LevelLed
<1>5. next[1].color = "GREEN" => last = "NORMAL"
    BY <1>1 DEF LedsAt, LevelLed
<1>6. LedsAt(next, new, last)
    BY <1>1, <1>2, <1>3, <1>4, <1>5 DEF LedsAt
<1> QED BY <1>6 DEF next

\* Nothing has a higher priority than the flash: all LEDs show it.
LEMMA FlashAt ==
    ASSUME NEW leds, NEW level, NEW last, LedsAt(leds, level, last), NEW new
    PROVE  LedsAt(led_snore_disabled_flash(leds), new, last)
<1> DEFINE next == led_snore_disabled_flash(leds)
<1>1. ASSUME NEW i \in LevelLed
      PROVE  WellFormed(next[i]) /\ next[i].mode = "FLASH" /\ next[i].color = "BLUE"
    <2>1. WellFormed(leds[i]) /\ "BLUE" \in Colors /\ "NONE" \in Callbacks
        BY DEF LedsAt, Colors, Callbacks
    <2>2. ~Busy(leds[i], CRITICAL)
        BY <2>1 DEF WellFormed, Led, Busy, NORMAL, HIGH, CRITICAL
    <2> DEFINE m == led_ctrl_set_flash(leds[i], "BLUE", FAST, 2, FLASH_TIMEOUT, CRITICAL, "NONE")
    <2>3. next[i] = m
        BY DEF led_snore_disabled_flash
    <2>4. FAST \in Nat /\ FLASH_TIMEOUT \in Nat /\ 2 \in Nat
        OBVIOUS
    <2>5. CRITICAL \in {NORMAL, HIGH, CRITICAL}
        OBVIOUS
    <2>6. WellFormed(m) /\ m.mode = "FLASH" /\ m.color = "BLUE"
        <3>1. TaskIs(m, "FLASH", "BLUE", CRITICAL, "NONE")
            BY <2>1, <2>2, <2>4, <2>5, SetFlash, Zenon
        <3> QED BY <3>1, Zenon DEF TaskIs
    <2> HIDE DEF m, next
    <2> QED BY <2>3, <2>6
<1>2. next \in [LevelLed -> Led]
    BY <1>1 DEF led_snore_disabled_flash, WellFormed
<1> HIDE DEF next
<1>3. LedsAt(next, new, last)
    BY <1>1, <1>2, ZeroOneTwo DEF LedsAt
<1> QED BY <1>3 DEF next

\* One LED changed: what it must be for the LEDs to stay right.
LEMMA OneLed ==
    ASSUME NEW leds, NEW level, NEW last, LedsAt(leds, level, last),
           NEW i \in LevelLed, NEW m, WellFormed(m), m.color # "BLUE",
           m.color = "RED" => \A j \in LevelLed \ {i} : leds[j].color # "BLUE",
           NEW new, leds[1].color = "GREEN" /\ i # 1 => new = "NORMAL",
           i = 1 /\ m.color = "GREEN" => new = "NORMAL"
    PROVE  LedsAt([leds EXCEPT ![i] = m], level, new)
<1> DEFINE next == [leds EXCEPT ![i] = m]
<1>1. leds \in [LevelLed -> Led] /\ m \in Led
    BY DEF LedsAt, WellFormed
<1>2. next \in [LevelLed -> Led] /\ \A j \in LevelLed : next[j] = IF j = i THEN m ELSE leds[j]
    BY <1>1
<1> HIDE DEF next
<1>3. \A j \in LevelLed : WellFormed(next[j])
    BY <1>2 DEF LedsAt
<1>4. next[0].color = "RED" => \A j \in LevelLed : next[j].color # "BLUE"
    BY <1>2, ZeroOneTwo DEF LedsAt
<1>5. \A j \in LevelLed : next[j].mode = "ON" /\ next[j].color = "BLUE" => level = j + 1
    BY <1>2 DEF LedsAt
<1>6. next[1].color = "GREEN" => new = "NORMAL"
    BY <1>2, ZeroOneTwo
<1>7. LedsAt(next, level, new)
    BY <1>2, <1>3, <1>4, <1>5, <1>6 DEF LedsAt
<1> QED BY <1>7 DEF next

\* The dock charges: LED 1 is green unless it flashes.
LEMMA NormalAt ==
    ASSUME NEW leds, NEW level, NEW last, LedsAt(leds, level, last)
    PROVE  LedsAt(led_charge_normal(leds), level, "NORMAL")
<1> DEFINE m == led_ctrl_set_on(leds[1], "GREEN", GREEN_TIMEOUT, NORMAL, "NONE")
<1>1. WellFormed(leds[1]) /\ "GREEN" \in Colors /\ "NONE" \in Callbacks
    BY ZeroOneTwo DEF LedsAt, Colors, Callbacks
<1>2. WellFormed(m) /\ (m = leds[1] \/ m.color = "GREEN")
    BY <1>1, SetOn
<1>3. led_charge_normal(leds) = [leds EXCEPT ![1] = m]
    BY DEF led_charge_normal
<1> HIDE DEF m
<1>4. CASE m = leds[1]
    <2>1. led_charge_normal(leds) = leds
        BY <1>3, <1>4 DEF LedsAt
    <2> QED BY <2>1 DEF LedsAt
<1>5. CASE m.color = "GREEN"
    <2>1. m.color # "RED" /\ m.color # "BLUE"
        BY <1>5
    <2>2. LedsAt([leds EXCEPT ![1] = m], level, "NORMAL")
        BY <1>2, <2>1, OneLed, ZeroOneTwo, SMTT(60)
    <2> QED BY <1>3, <2>2
<1> QED BY <1>2, <1>4, <1>5

\* The dock charges no more: nothing green is left.
LEMMA StopAt ==
    ASSUME NEW leds, NEW level, NEW last, LedsAt(leds, level, last), NEW new
    PROVE  LedsAt(led_charge_stop(leds), level, new)
<1> DEFINE m == IF leds[1].color = "GREEN" /\ leds[1].mode # "OFF"
                THEN led_ctrl_set_off(leds[1]) ELSE leds[1]
<1>1. WellFormed(leds[1])
    BY ZeroOneTwo DEF LedsAt
<1>2. led_charge_stop(leds) = [leds EXCEPT ![1] = m]
    BY DEF led_charge_stop
<1>3. CASE leds[1].color = "GREEN"
    <2>1. WellFormed(m) /\ m.color = "NONE"
        BY <1>1, <1>3, SetOff DEF WellFormed
    <2> HIDE DEF m
    <2>2. m.color # "RED" /\ m.color # "BLUE" /\ m.color # "GREEN"
        BY <2>1
    <2>3. LedsAt([leds EXCEPT ![1] = m], level, new)
        BY <2>1, <2>2, OneLed, ZeroOneTwo, SMTT(60)
    <2> QED BY <1>2, <2>3
<1>4. CASE leds[1].color # "GREEN"
    <2>1. led_charge_stop(leds) = leds
        BY <1>2, <1>4 DEF LedsAt
    <2> QED BY <1>4, <2>1 DEF LedsAt
<1> QED BY <1>3, <1>4

\* Without green the charge status does not matter.
LEMMA NoGreenAt ==
    ASSUME NEW leds, NEW level, NEW last, LedsAt(leds, level, last), last # "NORMAL", NEW new
    PROVE  LedsAt(leds, level, new)
BY DEF LedsAt

\* Clearing leaves nothing blue, and no other task changed.
LEMMA ClearAt ==
    ASSUME NEW leds, NEW level, NEW last, LedsAt(leds, level, last)
    PROVE  LET next == led_ctrl_clear_all_snore_leds(leds) IN
           /\ LedsAt(next, level, last)
           /\ \A i \in LevelLed : next[i].color # "BLUE"
<1> DEFINE next == led_ctrl_clear_all_snore_leds(leds)
<1>1. ASSUME NEW i \in LevelLed
      PROVE  WellFormed(next[i]) /\ next[i].color # "BLUE" /\ next[i].color \in {leds[i].color, "NONE"}
    <2>1. WellFormed(leds[i])
        BY DEF LedsAt
    <2>2. CASE leds[i].color # "BLUE"
        BY <2>1, <2>2 DEF led_ctrl_clear_all_snore_leds
    <2>3. CASE leds[i].color = "BLUE"
        <3> DEFINE off == led_ctrl_set_off(leds[i])
        <3>1. next[i] = [off EXCEPT !.timeout = leds[i].timeout]
            BY <2>3 DEF led_ctrl_clear_all_snore_leds
        <3>2. WellFormed(off) /\ off.mode = "OFF" /\ leds[i].timeout \in Nat
            BY <2>1, SetOff DEF WellFormed, Led
        <3> HIDE DEF off, next
        <3> QED BY <3>1, <3>2 DEF WellFormed, Led
    <2> QED BY <2>2, <2>3
<1>2. next \in [LevelLed -> Led]
    BY <1>1 DEF led_ctrl_clear_all_snore_leds, WellFormed
<1> HIDE DEF next
<1>3. LedsAt(next, level, last)
    BY <1>1, <1>2, ZeroOneTwo DEF LedsAt
<1> QED BY <1>1, <1>3 DEF next

\* A fault: the red task has no other beside it.
LEMMA ErrorAt ==
    ASSUME NEW leds, NEW level, NEW last, LedsAt(leds, level, last)
    PROVE  LedsAt(led_charge_error(leds), level, last)
<1> DEFINE next == led_ctrl_clear_all_snore_leds(leds)
           m == led_ctrl_set_on(next[0], "RED", RED_TIMEOUT, CRITICAL, "NONE")
<1>1. LedsAt(next, level, last) /\ \A i \in LevelLed : next[i].color # "BLUE"
    BY ClearAt
<1>2. led_charge_error(leds) = [next EXCEPT ![0] = m]
    BY DEF led_charge_error
<1> HIDE DEF next
<1>3. WellFormed(next[0]) /\ "RED" \in Colors /\ "NONE" \in Callbacks
    BY <1>1, ZeroOneTwo DEF LedsAt, Colors, Callbacks
<1>4. ~Busy(next[0], CRITICAL)
    BY <1>3 DEF WellFormed, Led, Busy, NORMAL, HIGH, CRITICAL
<1>5. WellFormed(m) /\ m.color = "RED"
    <2>1. RED_TIMEOUT \in Nat /\ CRITICAL \in {NORMAL, HIGH, CRITICAL}
        OBVIOUS
    <2>2. TaskIs(m, IF RED_TIMEOUT = 0 THEN "PERMANENT" ELSE "ON", "RED", CRITICAL, "NONE")
        BY <1>3, <1>4, <2>1, OnIs, Zenon
    <2> QED BY <2>2, Zenon DEF TaskIs
<1> HIDE DEF m
<1>6. m.color # "BLUE" /\ m.color # "GREEN" /\ 0 # 1
    BY <1>5
<1>7. next[1].color = "GREEN" => last = "NORMAL"
    BY <1>1 DEF LedsAt
<1>8. LedsAt([next EXCEPT ![0] = m], level, last)
    BY <1>1, <1>5, <1>6, <1>7, OneLed, ZeroOneTwo, SMTT(60)
<1> QED BY <1>2, <1>8

\* The red pin written past its task.
LEMMA PinAt ==
    ASSUME NEW leds, NEW level, NEW last, LedsAt(leds, level, last)
    PROVE  LedsAt(RedPinDark(leds), level, last)
<1> DEFINE next == RedPinDark(leds)
           dark == [leds[0] EXCEPT !.lit = @ \ {"RED"}]
<1>1. leds[0] \in Led /\ WellFormed(leds[0]) /\ leds \in [LevelLed -> Led]
    BY ZeroOneTwo DEF LedsAt
<1>2. WellFormed(dark) /\ SameTask(leds[0], dark)
    BY <1>1 DEF WellFormed, SameTask, Led
<1>3. next = [leds EXCEPT ![0] = dark]
    BY DEF RedPinDark
<1> HIDE DEF dark, next
<1>4. next \in [LevelLed -> Led]
    BY <1>1, <1>2, <1>3 DEF WellFormed
<1>5. \A i \in LevelLed : WellFormed(next[i]) /\ SameTask(leds[i], next[i])
    BY <1>1, <1>2, <1>3 DEF LedsAt, SameTask
<1>6. LedsAt(next, level, last)
    BY <1>4, <1>5, ZeroOneTwo DEF LedsAt, SameTask
<1> QED BY <1>6 DEF next

--------------------------------------------------------------------------------
(* The steps.                                                               *)

LEMMA InitIInv == Init => IInv
<1> SUFFICES ASSUME Init PROVE IInv
    OBVIOUS
<1>1. TypeOK
    BY DarkWellFormed DEF Init, TypeOK, ChargeStatus, WellFormed
<1>2. LedsAt(led, AntiSnore_intensity, last_charge_status)
    <2>1. \A i \in LevelLed : led[i] = Dark
        BY DEF Init
    <2>2. Dark.color = "NONE" /\ Dark.mode = "OFF"
        BY DEF Dark
    <2> QED BY <1>1, <2>1, <2>2, DarkWellFormed, ZeroOneTwo DEF LedsAt, TypeOK
<1> QED BY <1>1, <1>2 DEF IInv, Init

\* A poll that finds a new fault.
LEMMA AbnormalSafe ==
    ASSUME IInv, ShowAbnormal
    PROVE  LedsAt(led', AntiSnore_intensity, charge)
<1>1. LedsAt(led, AntiSnore_intensity, last_charge_status)
    BY DEF IInv
<1>2. CASE last_charge_status = "NORMAL"
    <2>1. LedsAt(led_charge_stop(led), AntiSnore_intensity, charge)
        BY <1>1, StopAt
    <2> QED BY <1>2, <2>1, ErrorAt DEF ShowAbnormal
<1>3. CASE last_charge_status # "NORMAL"
    <2>1. LedsAt(led, AntiSnore_intensity, charge)
        BY <1>1, <1>3, NoGreenAt
    <2> QED BY <1>3, <2>1, ErrorAt DEF ShowAbnormal
<1> QED BY <1>2, <1>3

\* A poll that finds the dock charging.
LEMMA NormalSafe ==
    ASSUME IInv, ShowNormal
    PROVE  LedsAt(led', AntiSnore_intensity, charge)
<1>1. /\ LedsAt(led, AntiSnore_intensity, last_charge_status)
      /\ charge = "NORMAL" /\ last_charge_status \in ChargeStatus
    BY DEF IInv, TypeOK, ShowNormal
<1>2. CASE last_charge_status = "NORMAL"
    BY <1>1, <1>2 DEF ShowNormal
<1>3. CASE last_charge_status = "NONE"
    <2>1. led' = led_charge_normal(led)
        BY <1>3 DEF ShowNormal
    <2> QED BY <1>1, <2>1, NormalAt
<1>4. CASE last_charge_status = "ABNORMAL"
    <2> DEFINE pin == RedPinDark(led)
               off == led_ctrl_set_off(pin[0])
    <2>1. LedsAt(pin, AntiSnore_intensity, last_charge_status)
        BY <1>1, PinAt
    <2>2. led' = led_charge_normal([pin EXCEPT ![0] = off])
        BY <1>4 DEF ShowNormal
    <2> HIDE DEF pin
    <2>3. WellFormed(off) /\ off.color = "NONE"
        <3>1. WellFormed(pin[0])
            BY <2>1, ZeroOneTwo DEF LedsAt
        <3> QED BY <3>1, SetOff DEF WellFormed
    <2> HIDE DEF off
    <2>4. /\ off.color # "BLUE" /\ off.color # "RED" /\ 0 # 1
          /\ pin[1].color = "GREEN" => last_charge_status = "NORMAL"
        BY <2>1, <2>3 DEF LedsAt
    <2>5. LedsAt([pin EXCEPT ![0] = off], AntiSnore_intensity, last_charge_status)
        BY <2>1, <2>3, <2>4, OneLed, ZeroOneTwo, SMTT(60)
    <2> QED BY <1>1, <2>2, <2>5, NormalAt
<1> QED BY <1>1, <1>2, <1>3, <1>4 DEF ChargeStatus

\* A poll that finds the station empty.
LEMMA NoneSafe ==
    ASSUME IInv, ShowNone
    PROVE  LedsAt(led', AntiSnore_intensity, charge)
<1> DEFINE stopped == IF last_charge_status = "NORMAL" THEN led_charge_stop(led) ELSE led
<1>1. LedsAt(led, AntiSnore_intensity, last_charge_status)
    BY DEF IInv
<1>2. LedsAt(stopped, AntiSnore_intensity, charge)
    BY <1>1, StopAt, NoGreenAt
<1>3. led' = IF chargeAbnormal_flag THEN RedPinDark(stopped) ELSE stopped
    BY DEF ShowNone
<1> HIDE DEF stopped
<1> QED BY <1>2, <1>3, PinAt

\* A fault shown already: the dock did not charge at the poll before.
LEMMA KeepSafe ==
    ASSUME IInv, KeepAbnormal
    PROVE  LedsAt(led', AntiSnore_intensity, charge)
<1>1. LedsAt(led, AntiSnore_intensity, last_charge_status) /\ last_charge_status # "NORMAL"
    BY DEF IInv, KeepAbnormal
<1> QED BY <1>1, NoGreenAt DEF KeepAbnormal

LEMMA PollSafe ==
    ASSUME IInv, control_timer1000ms
    PROVE  IInv'
<1>1. LedsAt(led', AntiSnore_intensity, charge)
    BY AbnormalSafe, NormalSafe, NoneSafe, KeepSafe DEF control_timer1000ms
<1>2. /\ last_charge_status' = charge /\ charge' = charge
      /\ AntiSnore_intensity' = AntiSnore_intensity
    BY DEF control_timer1000ms
<1>3. chargeAbnormal_flag' \in BOOLEAN /\ (charge = "NORMAL" => ~chargeAbnormal_flag')
    BY DEF IInv, TypeOK, control_timer1000ms, ShowAbnormal, ShowNormal, ShowNone, KeepAbnormal
<1>4. LedsAt(led', AntiSnore_intensity', last_charge_status')
    BY <1>1, <1>2
<1>5. TypeOK'
    BY <1>2, <1>3, <1>4 DEF IInv, TypeOK, LedsAt
<1> QED BY <1>2, <1>3, <1>4, <1>5 DEF IInv, LedsAt

\* The steps that set a level keep the rest.
LEMMA LevelSafe ==
    ASSUME IInv, KeyShort \/ KeyHeld \/ \E n \in 0..3 : BleSetSnore(n)
    PROVE  IInv'
<1>1. LedsAt(led, AntiSnore_intensity, last_charge_status) /\ AntiSnore_intensity \in 0..3
    BY DEF IInv, TypeOK
<1>2. /\ last_charge_status' = last_charge_status /\ charge' = charge
      /\ chargeAbnormal_flag' = FALSE \/ chargeAbnormal_flag' = chargeAbnormal_flag
    BY DEF KeyShort, KeyHeld, BleSetSnore
<1>3. AntiSnore_intensity' \in 0..3
    <2>1. CASE KeyShort
        BY <1>1, <2>1 DEF KeyShort
    <2>2. CASE KeyHeld
        BY <2>2 DEF KeyHeld
    <2>3. CASE \E n \in 0..3 : BleSetSnore(n)
        BY <2>3 DEF BleSetSnore
    <2> QED BY <2>1, <2>2, <2>3
<1>4. LedsAt(led', AntiSnore_intensity', last_charge_status)
    <2>1. CASE KeyHeld
        BY <1>1, <2>1, FlashAt DEF KeyHeld
    <2>2. CASE KeyShort \/ \E n \in 0..3 : BleSetSnore(n)
        <3>1. led' = led_snore_level_set(led, AntiSnore_intensity')
            BY <2>2 DEF KeyShort, BleSetSnore
        <3> QED BY <1>1, <1>3, <3>1, LevelAt
    <2> QED BY <2>1, <2>2
<1>5. TypeOK'
    BY <1>2, <1>3, <1>4 DEF IInv, TypeOK, LedsAt
<1>6. LedsAt(led', AntiSnore_intensity', last_charge_status')
    BY <1>2, <1>4
<1> QED BY <1>2, <1>5, <1>6 DEF IInv

\* Nothing else touches level or charge status.
LEMMA OtherSafe ==
    ASSUME IInv, LedTick \/ ChargeChange \/ UNCHANGED vars
    PROVE  IInv'
<1>1. /\ AntiSnore_intensity' = AntiSnore_intensity
      /\ chargeAbnormal_flag' = chargeAbnormal_flag
      /\ last_charge_status' = last_charge_status
    BY DEF LedTick, ChargeChange, vars
<1>2. LedsAt(led', AntiSnore_intensity, last_charge_status)
    <2>1. LedsAt(led, AntiSnore_intensity, last_charge_status)
        BY DEF IInv
    <2>2. CASE LedTick
        BY <2>1, <2>2, TickAt DEF LedTick
    <2>3. CASE ChargeChange \/ UNCHANGED vars
        BY <2>1, <2>3 DEF ChargeChange, vars
    <2> QED BY <2>2, <2>3
<1>3. charge' \in ChargeStatus
    BY DEF IInv, TypeOK, LedTick, ChargeChange, vars
<1>4. LedsAt(led', AntiSnore_intensity', last_charge_status')
    BY <1>1, <1>2
<1>5. TypeOK'
    BY <1>1, <1>3, <1>4 DEF IInv, TypeOK, LedsAt
<1> QED BY <1>1, <1>4, <1>5 DEF IInv

--------------------------------------------------------------------------------
(* The theorems.                                                            *)

\* The invariant holds whatever the timeouts (app_led_ctrl.c, x_control.c:174).
THEOREM Invariance == Spec => []IInv
<1>1. Init => IInv
    BY InitIInv
<1>2. IInv /\ [Next]_vars => IInv'
    BY PollSafe, LevelSafe, OtherSafe DEF Next
<1> QED BY <1>1, <1>2, PTL DEF Spec

\* Level and LEDs stay within their types (led_ctrl_t, AntiSnore_intensity).
THEOREM TypeCorrect == Spec => []TypeOK
<1>1. IInv => TypeOK
    BY DEF IInv
<1> QED BY <1>1, Invariance, PTL

\* No pin is lit but its task's, although the red pin is written past its task
\* (x_control.c:196 and 213).
THEOREM LitCorrect == Spec => []LitIsOwned
<1>1. IInv => LitIsOwned
    BY DEF IInv, LedsAt, WellFormed, LitIsOwned
<1> QED BY <1>1, Invariance, PTL

\* Red is never lit beside blue (app_led_ctrl.c:583-590, 385-407).
THEOREM LightsCorrect == Spec => []RedNotBlue
<1>1. IInv => RedNotBlue
    <2> SUFFICES ASSUME IInv, "RED" \in led[0].lit, NEW i \in LevelLed
                 PROVE  "BLUE" \notin led[i].lit
        BY DEF RedNotBlue
    <2>1. \A j \in LevelLed : led[j].lit \subseteq {led[j].color}
        BY DEF IInv, LedsAt, WellFormed
    <2>2. led[0].color = "RED"
        BY <2>1, ZeroOneTwo
    <2>3. led[i].color # "BLUE"
        BY <2>2 DEF IInv, LedsAt
    <2> QED BY <2>1, <2>3
<1> QED BY <1>1, Invariance, PTL

\* A steady blue LED is the level's in force (app_led_ctrl.c:385).
THEOREM LevelCorrect == Spec => []LevelIsShown
<1>1. IInv => LevelIsShown
    BY DEF IInv, LedsAt, LevelIsShown
<1> QED BY <1>1, Invariance, PTL

\* LED 1 is green only while the dock was found charging (x_control.c:183, 207).
THEOREM ChargeCorrect == Spec => []GreenOnlyCharging
<1>1. IInv => GreenOnlyCharging
    BY DEF IInv, LedsAt, GreenOnlyCharging
<1> QED BY <1>1, Invariance, PTL
================================================================================
