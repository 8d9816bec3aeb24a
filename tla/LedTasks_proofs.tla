---------------------------- MODULE LedTasks_proofs ----------------------------
(***************************************************************************)
(* What the operators of LedTasks do to one LED, for every LED that is     *)
(* well formed.  The proofs about the LEDs of the dock rest on these.      *)
(***************************************************************************)
EXTENDS LedTasks, TLAPS

\* No pin is lit but that of the task's colour, a task has a colour, and an LED
\* without a task has neither colour, priority nor callback.
WellFormed(l) ==
    /\ l \in Led
    /\ l.lit \subseteq {l.color}
    /\ l.mode = "OFF" => l.color = "NONE" /\ l.priority = NORMAL /\ l.callback = "NONE"
    /\ l.mode # "OFF" => l.color # "NONE"

\* What a task is to the other functions: everything but its timing and its pins.
SameTask(l, m) ==
    /\ m.mode = l.mode /\ m.color = l.color
    /\ m.priority = l.priority /\ m.callback = l.callback

\* Every LED is well formed after boot.
LEMMA DarkWellFormed == WellFormed(Dark)
BY DEF WellFormed, Dark, Led, Colors, Callbacks, NORMAL

\* Switched off, nothing of the task is left.
LEMMA SetOff ==
    ASSUME NEW l, WellFormed(l)
    PROVE  WellFormed(led_ctrl_set_off(l)) /\ led_ctrl_set_off(l).mode = "OFF"
BY DEF WellFormed, led_ctrl_set_off, Led, Colors, Callbacks, NORMAL

\* The LED m does this task.
TaskIs(m, mode, c, p, b) ==
    WellFormed(m) /\ m.mode = mode /\ m.color = c /\ m.priority = p /\ m.callback = b

\* A steady light takes over, ...
LEMMA OnIs ==
    ASSUME NEW l, WellFormed(l), NEW c \in Colors, NEW t \in Nat,
           NEW p \in {NORMAL, HIGH, CRITICAL}, NEW b \in Callbacks, ~Busy(l, p)
    PROVE  TaskIs(led_ctrl_set_on(l, c, t, p, b), IF t = 0 THEN "PERMANENT" ELSE "ON", c, p, b)
<1> DEFINE mode == IF t = 0 THEN "PERMANENT" ELSE "ON"
           lit == (l.lit \ {l.color}) \cup {c}
           m == [l EXCEPT !.mode = mode, !.color = c, !.timeout = t, !.priority = p,
                          !.callback = b, !.lit = lit]
<1>1. led_ctrl_set_on(l, c, t, p, b) = m
    BY DEF led_ctrl_set_on
<1>2. l \in Led /\ l.lit \subseteq {l.color} /\ c # "NONE"
    BY DEF WellFormed, Colors
<1>3. mode \in {"PERMANENT", "ON"} /\ lit \in SUBSET Colors /\ lit \subseteq {c}
    BY <1>2 DEF Led
<1> HIDE DEF mode, lit
<1>4. /\ m \in Led /\ m.mode = mode /\ m.color = c /\ m.priority = p /\ m.callback = b
      /\ m.lit = lit
    BY <1>2, <1>3 DEF Led
<1>5. mode # "OFF"
    BY DEF mode
<1> HIDE DEF m
<1>6. TaskIs(m, mode, c, p, b)
    BY <1>2, <1>3, <1>4, <1>5 DEF TaskIs, WellFormed
<1> QED BY <1>1, <1>6, Zenon DEF mode

\* ... or is refused by a task of a higher priority.
LEMMA SetOn ==
    ASSUME NEW l, WellFormed(l), NEW c \in Colors, NEW t \in Nat,
           NEW p \in {NORMAL, HIGH, CRITICAL}, NEW b \in Callbacks
    PROVE  LET m == led_ctrl_set_on(l, c, t, p, b) IN
           /\ WellFormed(m)
           /\ Busy(l, p) => m = l
           /\ ~Busy(l, p) =>
                 /\ m.mode = IF t = 0 THEN "PERMANENT" ELSE "ON"
                 /\ m.color = c /\ m.priority = p /\ m.callback = b
<1>1. CASE Busy(l, p)
    BY <1>1 DEF led_ctrl_set_on
<1>2. CASE ~Busy(l, p)
    <2> DEFINE mode == IF t = 0 THEN "PERMANENT" ELSE "ON"
               m == led_ctrl_set_on(l, c, t, p, b)
    <2>1. TaskIs(m, mode, c, p, b)
        BY <1>2, OnIs, Zenon
    <2> HIDE DEF m, mode
    <2>2. WellFormed(m) /\ m.mode = mode /\ m.color = c /\ m.priority = p /\ m.callback = b
        BY <2>1, Zenon DEF TaskIs
    <2> QED BY <1>2, <2>2, Zenon DEF m, mode
<1> QED BY <1>1, <1>2

\* So does a flash.
LEMMA SetFlash ==
    ASSUME NEW l, WellFormed(l), NEW c \in Colors, NEW i \in Nat, NEW n \in Nat, NEW t \in Nat,
           NEW p \in {NORMAL, HIGH, CRITICAL}, NEW b \in Callbacks, ~Busy(l, p)
    PROVE  TaskIs(led_ctrl_set_flash(l, c, i, n, t, p, b), "FLASH", c, p, b)
<1> DEFINE m == led_ctrl_set_flash(l, c, i, n, t, p, b)
<1>1. 2 * n \in Nat /\ c # "NONE"
    BY DEF Colors
<1>2. m \in Led
    BY <1>1 DEF WellFormed, led_ctrl_set_flash, Led
<1>3. /\ m.mode = "FLASH" /\ m.lit = {} /\ m.color = c
      /\ m.priority = p /\ m.callback = b
    BY DEF WellFormed, led_ctrl_set_flash, Led
<1> QED BY <1>1, <1>2, <1>3 DEF WellFormed, TaskIs

\* A tick of the flash changes only the timing and the pin.
LEMMA BlinkSame ==
    ASSUME NEW l, WellFormed(l)
    PROVE  WellFormed(Blink(l)) /\ SameTask(l, Blink(l)) /\ Blink(l).timeout = l.timeout
<1>1. CASE l.mode # "FLASH"
    BY <1>1 DEF Blink, SameTask
<1>2. CASE l.mode = "FLASH" /\ ~Toggles(l)
    BY <1>2 DEF Blink, SameTask, WellFormed, Led
<1>3. CASE l.mode = "FLASH" /\ Toggles(l)
    <2>1. l.blinks \in Nat
        BY DEF WellFormed, Led
    <2>2. (IF l.blinks > 0 THEN l.blinks - 1 ELSE 0) \in Nat
        BY <2>1
    <2> QED BY <1>3, <2>2 DEF Blink, SameTask, WellFormed, Led
<1> QED BY <1>1, <1>2, <1>3

\* A tick ends the task or leaves it what it was.
LEMMA Elapsed ==
    ASSUME NEW l, WellFormed(l)
    PROVE  /\ WellFormed(Elapse(l))
           /\ Over(l) => Elapse(l).mode = "OFF"
           /\ ~Over(l) => SameTask(l, Elapse(l))
<1>1. CASE l.mode = "OFF"
    BY <1>1 DEF Elapse, Over, SameTask
<1>2. CASE l.mode # "OFF" /\ Over(l)
    BY <1>2, BlinkSame, SetOff DEF Elapse
<1>3. CASE l.mode # "OFF" /\ ~Over(l)
    <2> DEFINE b == Blink(l)
               n == IF b.timeout > 0 THEN b.timeout - 1 ELSE 0
    <2>1. WellFormed(b) /\ SameTask(l, b)
        BY BlinkSame
    <2>2. b.timeout \in Nat
        BY <2>1 DEF WellFormed, Led
    <2>3. n \in Nat
        BY <2>2
    <2>4. Elapse(l) = [b EXCEPT !.timeout = n]
        BY <1>3 DEF Elapse
    <2> HIDE DEF b, n
    <2> QED BY <1>3, <2>1, <2>3, <2>4 DEF WellFormed, SameTask, Led
<1> QED BY <1>1, <1>2, <1>3
================================================================================
