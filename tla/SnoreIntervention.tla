--------------------------- MODULE SnoreIntervention ---------------------------
(***************************************************************************)
(* x_snoreintervention.c with the handlers that reach into it: snore       *)
(* pulses are counted over a detection window; a window with enough of     *)
(* them raises the head of the bed by one timed segment, at most SI_SEG_MAX *)
(* times in an intervention cycle.  While a segment runs, lift pulses are  *)
(* fed to the transmit queue whenever it is empty; at its end the queue is *)
(* cleared and a release is queued.  The application, the keys and the     *)
(* voice commands change level, mode and queue at any time in between.     *)
(*                                                                         *)
(* Everything runs in the main loop (the snore pulse interrupt only counts *)
(* up), so a handler is one action.  The functions of the source are       *)
(* operators from the record `st` to the record they leave behind, and a   *)
(* handler composes them in the order of its calls.                        *)
(***************************************************************************)
EXTENDS MfpRequests, Integers

CONSTANTS
    WINDOW,         \* ticks of the detection window, by mode
    CYCLE,          \* ticks of the intervention cycle, by mode
    TICKS_PER_SEC,  \* timer ticks in a second: 100
    RUN_PERIOD,     \* timer ticks between two runs of SnoringIntervention_run: 10
    MAX_TIMER,      \* bound on the tick counter; the code's is 32 bits wide
    TmrValues,      \* the lift times the application sets, in seconds
    Bursts,         \* how many snore pulses the model counts in one step
    MAX_SNORES,     \* bound on the pulses of one window
    Boxes,          \* may the main box attached support soft start?
    VoiceCommands,  \* the voice commands spoken
    REPEAT          \* transmissions of a request, by key

Modes == {"PROD", "TEST"}

\* Keys on the wire; LIFT is the pulse of this component, RELEASE the key 0, the
\* others what the voice commands and the application ask for.
Keys == {"NONE", "LIFT", "RELEASE", "STOP", "ALL_UP", "MEMORY", "MOVE", "FLAT",
         "MASSAGE", "APP"}

\* The voice commands, told apart by what they do: STOP is 0x23, ALL_UP 0x24,
\* MEMORY the preset positions 0x25, 0x27, 0x28 and 0x34, MOVE the held keys
\* 0x29 .. 0x2C and 0x35 .. 0x38, MASSAGE those of massage and light 0x2D .. 0x32.
Voice == {"STOP", "ALL_UP", "MEMORY", "MOVE", "FLAT_26", "FLAT_33", "MASSAGE"}

ASSUME VoiceAssumption == VoiceCommands \subseteq Voice

ASSUME SnoreAssumption ==
    /\ WINDOW \in [Modes -> Nat \ {0}]
    /\ CYCLE \in [Modes -> Nat \ {0}]
    /\ TICKS_PER_SEC \in Nat \ {0}
    /\ RUN_PERIOD \in Nat \ {0}
    /\ MAX_TIMER \in Nat
    /\ TmrValues \subseteq Nat
    /\ Bursts \subseteq Nat
    /\ MAX_SNORES \in Nat
    /\ Boxes \subseteq BOOLEAN
    /\ REPEAT \in [Keys -> Nat \ {0}]

\* In test mode a cycle is no longer than a detection window (60 s both).
ASSUME TestCycleAssumption == CYCLE["TEST"] <= WINDOW["TEST"]

SI_SEG_MAX == 3
SNORE_NORMAL_SEG_SEC == 3

VARIABLES
    timer,          \* g_sysparam_st.timer
    lag,            \* ticks since the last run of SnoringIntervention_run
    intensity,      \* AntiSnore_intensity: 0 is off
    tmr,            \* snoreIntervention_tmr
    run_mode,
    soft,           \* the last main box frame was of a soft start length
    st,             \* the rest of snoreIntervention_t, and the transmit queue
    wire            \* the key of the last frame on UART1

vars == <<timer, lag, intensity, tmr, run_mode, soft, st, wire>>

RequestType == [key : Keys, left : Nat]

\* `snores` is snoreNub - oldsnoreNub, the pulses counted since the window
\* opened; it means nothing, and is kept at 0, while no window is open.
State == [lift_stage : 0 .. SI_SEG_MAX,     first_lift_tick : Nat,
          lift_seg_end_tick : Nat,          is_intervening : BOOLEAN,
          timer_s : Nat,                    snores : Nat,
          trigTimer : Nat,                  trig : BOOLEAN,
          triggered_flag : BOOLEAN,         last_AntiSnore_intensity : 0 .. 3,
          queue : Seq(RequestType)]

TypeOK ==
    /\ timer \in Nat /\ lag \in Nat
    /\ intensity \in 0 .. 3
    /\ tmr \in Nat
    /\ run_mode \in Modes
    /\ soft \in BOOLEAN
    /\ st \in State
    /\ wire \in Keys

--------------------------------------------------------------------------------
(* Thresholds and times.                                                    *)

\* snore_period_threshold for the levels 1, 2 and 3.
snore_period_threshold(mode, level) ==
    IF mode = "TEST" THEN <<7, 6, 5>>[level] ELSE <<20, 14, 7>>[level]

\* snore_refresh_trig_timer: no window while the function is off.
snore_trig_timer(mode, level) == IF level = 0 THEN 0 ELSE WINDOW[mode]

\* Ticks of one lift segment: a third of the configured time, at least a second,
\* or three seconds for a main box without soft start.
SegTicks ==
    TICKS_PER_SEC * (IF ~soft THEN SNORE_NORMAL_SEG_SEC
                     ELSE IF tmr \div 3 = 0 THEN 1 ELSE tmr \div 3)

--------------------------------------------------------------------------------
(* The functions of x_snoreintervention.c.                                  *)

Send(s, key) == [s EXCEPT !.queue = Enqueue(@, Request(key, REPEAT[key]))]

\* mutant: the end of a segment leaves the queued lift pulses in front.
StopKeepsQueue(s) == Send([s EXCEPT !.lift_seg_end_tick = 0], "RELEASE")

\* mutant: the end of a segment clears the queue and releases nothing.
StopWithoutRelease(s) == [s EXCEPT !.lift_seg_end_tick = 0, !.queue = <<>>]

snore_lift_stop_and_release(s) ==
    Send([s EXCEPT !.lift_seg_end_tick = 0, !.queue = <<>>], "RELEASE")

\* A segment that is still running is stopped and released first.
snore_lift_start(s) ==
    LET stopped == IF s.lift_seg_end_tick # 0 THEN snore_lift_stop_and_release(s) ELSE s
    IN  Send([stopped EXCEPT !.lift_seg_end_tick = timer + SegTicks], "LIFT")

\* The segment ends with its time; until then an empty queue is fed a pulse.
snore_lift_process_tick(s) ==
    IF s.lift_seg_end_tick = 0 THEN s
    ELSE IF timer >= s.lift_seg_end_tick THEN snore_lift_stop_and_release(s)
    ELSE IF s.queue = <<>> THEN Send(s, "LIFT")
    ELSE s

SnoringInterventFlatTimerClear(s) == [s EXCEPT !.first_lift_tick = 0]

\* mutant: the end of the cycle leaves the status flag of the intervention.
CycleKeepsStatus(s) ==
    IF s.first_lift_tick = 0 \/ timer - s.first_lift_tick < CYCLE[run_mode] THEN s
    ELSE SnoringInterventFlatTimerClear([s EXCEPT !.lift_stage = 0])

\* mutant: the delay of the old name SNORE_FLAT_DELAY_TICKS, production in either mode.
CycleOfProduction(s) ==
    IF s.first_lift_tick = 0 \/ timer - s.first_lift_tick < CYCLE["PROD"] THEN s
    ELSE SnoringInterventFlatTimerClear([s EXCEPT !.lift_stage = 0,
                                                  !.is_intervening = FALSE])

\* The end of the cycle: the segments may be used again.
snore_try_cycle_reset_tick(s) ==
    IF s.first_lift_tick = 0 \/ timer - s.first_lift_tick < CYCLE[run_mode] THEN s
    ELSE SnoringInterventFlatTimerClear([s EXCEPT !.lift_stage = 0,
                                                  !.is_intervening = FALSE])

SnoringInterventDetectionReset(s) ==
    [s EXCEPT !.trig = FALSE, !.triggered_flag = FALSE, !.timer_s = 0, !.snores = 0,
              !.is_intervening = (s.first_lift_tick # 0)]

\* The cycle's start is kept, the lifts made in it are forgotten.
SnoringInterventStateClear(s) ==
    LET stopped == IF s.lift_seg_end_tick # 0 THEN snore_lift_stop_and_release(s) ELSE s
    IN  [SnoringInterventDetectionReset(stopped) EXCEPT !.is_intervening = FALSE,
                                                        !.lift_stage = 0]

\* Opens a detection window when none is open, and closes one that is over: the
\* pulses counted in it decide (determine_intervention).
simulate_detection_period(s) ==
    LET w == IF s.timer_s = 0 /\ s.trigTimer > 0
             THEN [s EXCEPT !.timer_s = timer, !.snores = 0] ELSE s
    IN  IF w.timer_s = 0 \/ timer - w.timer_s <= w.trigTimer THEN w
        ELSE [w EXCEPT !.timer_s = 0, !.snores = 0, !.trig = TRUE,
                       !.triggered_flag =
                           (w.snores >= snore_period_threshold(run_mode, intensity))]

\* A new level restarts the detection with its own threshold.
ApplyIntensity(s) ==
    IF intensity = s.last_AntiSnore_intensity THEN s
    ELSE SnoringInterventDetectionReset(
             [s EXCEPT !.trigTimer = snore_trig_timer(run_mode, intensity),
                       !.last_AntiSnore_intensity = intensity])

\* mutant: the cycle's limit on segments is not looked at.
LiftWithoutLimit(s) ==
    IF ~s.trig THEN s
    ELSE IF ~s.triggered_flag THEN [s EXCEPT !.trig = FALSE]
    ELSE [snore_lift_start(s) EXCEPT
             !.trig = FALSE,
             !.lift_stage = s.lift_stage + 1,
             !.first_lift_tick = IF s.lift_stage = 0 THEN timer ELSE @,
             !.is_intervening = TRUE]

\* The decision of a closed window is used up: a lift, if the cycle has one left.
LiftIfTriggered(s) ==
    IF ~s.trig THEN s
    ELSE IF ~s.triggered_flag \/ s.lift_stage >= SI_SEG_MAX THEN [s EXCEPT !.trig = FALSE]
    ELSE [snore_lift_start(s) EXCEPT
             !.trig = FALSE,
             !.lift_stage = s.lift_stage + 1,
             !.first_lift_tick = IF s.lift_stage = 0 THEN timer ELSE @,
             !.is_intervening = TRUE]

--------------------------------------------------------------------------------
(* The handlers.                                                            *)

\* Boot: SnoringInterventionInit, after the level and the times came from flash.
Init ==
    /\ timer = 0 /\ lag = 0
    /\ intensity \in 0 .. 3
    /\ tmr \in TmrValues \ {0}
    /\ run_mode = "PROD"
    /\ soft = FALSE
    /\ st = [lift_stage |-> 0, first_lift_tick |-> 0, lift_seg_end_tick |-> 0,
             is_intervening |-> FALSE, timer_s |-> 0, snores |-> 0,
             trigTimer |-> snore_trig_timer("PROD", intensity), trig |-> FALSE,
             triggered_flag |-> FALSE, last_AntiSnore_intensity |-> intensity,
             queue |-> <<>>]
    /\ wire = "NONE"

\* ls_10ms_timer_cb; the 100 ms timer of the same loop never falls behind it by
\* more than its period.
Tick10ms ==
    /\ timer < MAX_TIMER /\ lag < RUN_PERIOD
    /\ timer' = timer + 1 /\ lag' = lag + 1
    /\ UNCHANGED <<intensity, tmr, run_mode, soft, st, wire>>

\* mutant: a level of 0 returns before the cycle and the segment are looked at.
RunEnableFirst ==
    /\ lag > 0 /\ lag' = 0
    /\ st' = IF intensity = 0 THEN st
             ELSE LiftIfTriggered(simulate_detection_period(ApplyIntensity(
                      snore_lift_process_tick(snore_try_cycle_reset_tick(st)))))
    /\ UNCHANGED <<timer, intensity, tmr, run_mode, soft, wire>>

\* Every 100 ms.  The cycle and the running segment are served even when the
\* function is off; the detection is not.
SnoringIntervention_run ==
    /\ lag > 0 /\ lag' = 0
    /\ LET served == snore_lift_process_tick(snore_try_cycle_reset_tick(st))
       IN  st' = IF intensity = 0 THEN served
                 ELSE LiftIfTriggered(simulate_detection_period(ApplyIntensity(served)))
    /\ UNCHANGED <<timer, intensity, tmr, run_mode, soft, wire>>

\* io_exti_callback: `n` snore pulses; those outside a window do not matter.
SnorePulse(n) ==
    /\ st.timer_s # 0 /\ st.snores + n <= MAX_SNORES
    /\ st' = [st EXCEPT !.snores = @ + n]
    /\ UNCHANGED <<timer, lag, intensity, tmr, run_mode, soft, wire>>

\* x_uart1_dateReceiveHandle on a valid frame: uart1_cmdHandle notes the length,
\* from which the soft start capability is read, then mfp_tx_task answers.
MainboxFrame(s) ==
    /\ soft' = s
    /\ wire' = IF HasFrame(st.queue) THEN Head(st.queue).key ELSE wire
    /\ st' = [st EXCEPT !.queue = Transmit(@)]
    /\ UNCHANGED <<timer, lag, intensity, tmr, run_mode>>

\* ble_snore_segment_handle, 11 B7: level and times from the application.
BleSetSnore(level, t) ==
    /\ intensity' = level /\ tmr' = t
    /\ st' = IF level = 0 THEN SnoringInterventStateClear(st) ELSE st
    /\ UNCHANGED <<timer, lag, run_mode, soft, wire>>

\* mutant: the switch forgets the detection window and the lift in progress.
ModeKeepsDetection(mode) ==
    /\ mode # run_mode
    /\ run_mode' = mode
    /\ st' = [SnoringInterventFlatTimerClear(st)
                 EXCEPT !.trigTimer = snore_trig_timer(mode, intensity)]
    /\ UNCHANGED <<timer, lag, intensity, tmr, soft, wire>>

\* 13 B7: the mode in force already is kept without further effect.
snore_run_mode_set(mode) ==
    /\ mode # run_mode
    /\ run_mode' = mode
    /\ st' = [SnoringInterventFlatTimerClear(SnoringInterventStateClear(st))
                 EXCEPT !.trigTimer = snore_trig_timer(mode, intensity)]
    /\ UNCHANGED <<timer, lag, intensity, tmr, soft, wire>>

\* ble_app_key_dispatch: a key of the application, sent three times.
ble_app_key_dispatch ==
    /\ st' = Send(st, "APP")
    /\ UNCHANGED <<timer, lag, intensity, tmr, run_mode, soft, wire>>

\* control_timer10ms: the snore key held for five seconds, and released early.
KeyOff ==
    /\ intensity' = 0
    /\ UNCHANGED <<timer, lag, tmr, run_mode, soft, st, wire>>

KeyNextLevel ==
    /\ intensity' = IF intensity < 3 THEN intensity + 1 ELSE 1
    /\ UNCHANGED <<timer, lag, tmr, run_mode, soft, st, wire>>

\* The bed position commands of snore_intervention_cancel_on_voice_position:
\* 0x25 .. 0x2C and 0x33 .. 0x38, of which 0x26 and 0x33 lay the bed flat.
FlatCommands == {"FLAT_26", "FLAT_33"}
PositionCommands == {"MEMORY", "MOVE"} \cup FlatCommands

\* The key a command sends; STOP and 0x26 clear the queue before.
VoiceKey(cmd) == IF cmd \in FlatCommands THEN "FLAT" ELSE cmd
ClearingCommands == {"STOP", "FLAT_26"}

\* One voice command of an active session.  The massage and light commands are
\* sent only in some states of the main box; when not, nothing changes here.
offline_voice_dataHandle(cmd) ==
    LET cancelled == IF cmd \in FlatCommands
                     THEN SnoringInterventFlatTimerClear(SnoringInterventStateClear(st))
                     ELSE IF cmd \in PositionCommands THEN SnoringInterventStateClear(st)
                     ELSE st
        cleared   == IF cmd \in ClearingCommands
                     THEN [cancelled EXCEPT !.queue = <<>>] ELSE cancelled
    IN  /\ st' = Send(cleared, VoiceKey(cmd))
        /\ UNCHANGED <<timer, lag, intensity, tmr, run_mode, soft, wire>>

\* What comes from outside the dock.
UserRequest ==
    \/ \E level \in 0 .. 3, t \in TmrValues : BleSetSnore(level, t)
    \/ \E mode \in Modes : snore_run_mode_set(mode)
    \/ ble_app_key_dispatch
    \/ KeyOff
    \/ KeyNextLevel
    \/ \E cmd \in VoiceCommands : offline_voice_dataHandle(cmd)

Next ==
    \/ Tick10ms
    \/ SnoringIntervention_run
    \/ \E n \in Bursts : SnorePulse(n)
    \/ \E s \in Boxes : MainboxFrame(s)
    \/ UserRequest

\* The timers of the main loop expire and the main box polls again and again.
Fairness ==
    /\ WF_vars(Tick10ms)
    /\ WF_vars(SnoringIntervention_run)
    /\ WF_vars(\E s \in Boxes : MainboxFrame(s))

Spec == Init /\ [][Next]_vars /\ Fairness

--------------------------------------------------------------------------------
(* Safety.                                                                  *)

\* The last run of SnoringIntervention_run.
LastRun == timer - lag

\* No lift pulse waits in the queue once its segment is over, whichever of the
\* paths that end a segment was taken (x_snoreintervention.c:147-152): a pulse
\* left behind would raise the bed with nothing timing it.
NoStrayLift == st.lift_seg_end_tick = 0 => ~Holds(st.queue, "LIFT")

\* A segment is over at the first run after its time, also when the function was
\* switched off meanwhile: the motor is never driven longer than configured.
SegmentBounded == st.lift_seg_end_tick # 0 => LastRun < st.lift_seg_end_tick

\* Segments count against a cycle that is running, and the status that the
\* application is shown (is_intervening) comes with its remaining time: without
\* a cycle start nothing would ever give the segments back or end the status.
\* No cycle counts more than its segments (SI_SEG_MAX).
CycleStarted ==
    /\ st.lift_stage <= SI_SEG_MAX
    /\ st.lift_stage > 0 \/ st.is_intervening => st.first_lift_tick # 0

\* A cycle ends at the first run after its time, in either mode and also when
\* the function was switched off meanwhile.
CycleBounded ==
    st.first_lift_tick # 0 =>
        /\ st.first_lift_tick <= LastRun
        /\ LastRun - st.first_lift_tick < CYCLE[run_mode]

\* A detection window is measured with the length of the mode in force: a mode
\* change leaves no window of the other mode running (x_snoreintervention.c:85).
WindowOfMode ==
    /\ st.trigTimer \in {0, WINDOW[run_mode]}
    /\ st.timer_s # 0 => st.trigTimer # 0 /\ st.timer_s <= LastRun

\* In test mode the cycle is over before the next window can close, so only the
\* first segment of a cycle is ever lifted and each lift starts a new cycle
\* (x_snoreintervention.c:9-10 and .h:11-12: the window is not shorter).
TestSingleStage == run_mode = "TEST" => st.lift_stage <= 1

--------------------------------------------------------------------------------
(* Liveness.                                                                *)

\* The longest segment the application can configure.
MaxSegTicks ==
    TICKS_PER_SEC * (CHOOSE m \in {SNORE_NORMAL_SEG_SEC, 1} \cup {t \div 3 : t \in TmrValues} :
                        \A t \in TmrValues : m >= 3 /\ m >= t \div 3)

\* A lift pulse that went out is followed by another key, in the end the release:
\* the main box is not left driving the motor.  (Stated while the bounded timer
\* still has room for the segment to end in.)
LiftReleased ==
    (wire = "LIFT" /\ timer + MaxSegTicks + RUN_PERIOD <= MAX_TIMER) ~> (wire # "LIFT")

--------------------------------------------------------------------------------
(* What the documents say and the code does not do.                         *)

\* x_snoreintervention.h:24 and the protocol, 3.6: a mode switch refreshes
\* trigTimer with the new window, so a dock that is on keeps detecting.
DetectionAlive ==
    [][lag > 0 /\ lag' = 0 /\ intensity # 0 => st'.trigTimer = WINDOW[run_mode]]_vars
================================================================================
