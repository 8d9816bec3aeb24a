----------------------- MODULE SnoreIntervention_proofs -----------------------
(***************************************************************************)
(* The safety of the snore intervention for every length of window, cycle  *)
(* and segment, every queue size and every set of requests.                *)
(*                                                                         *)
(* The functions of the source are operators from record to record, so     *)
(* each has its lemma: what it does to SafeAt, the invariant as a predicate *)
(* of the record, the time of the last run and the mode.  A handler's      *)
(* lemma chains those of the functions it calls.                           *)
(***************************************************************************)
EXTENDS SnoreIntervention, TLAPS

USE SnoreAssumption, MaxItemsAssumption

--------------------------------------------------------------------------------
(* The inductive invariant.                                                 *)

\* The running segment of the record `s`, when the last run was at `now`.
SegmentAt(s, now) ==
    /\ s.lift_seg_end_tick = 0 => ~Holds(s.queue, "LIFT")
    /\ s.lift_seg_end_tick # 0 => now < s.lift_seg_end_tick

\* Its cycle, in the mode `m`.
CycleAt(s, now, m) ==
    /\ s.lift_stage > 0 \/ s.is_intervening => s.first_lift_tick # 0
    /\ s.first_lift_tick # 0 => s.first_lift_tick <= now /\ now - s.first_lift_tick < CYCLE[m]
    /\ m = "TEST" => s.lift_stage <= 1

\* Its detection window.  A window opens after the lift that starts the cycle:
\* the bound on the segments of the test mode rests on this.
DetectAt(s, now, m) ==
    /\ s.trigTimer \in {0, WINDOW[m]}
    /\ s.timer_s # 0 => s.trigTimer # 0 /\ s.timer_s <= now
    /\ s.first_lift_tick # 0 /\ s.timer_s # 0 => s.first_lift_tick <= s.timer_s

\* What every function leaves true.
SafeAt(s, now, m) ==
    s \in State /\ SegmentAt(s, now) /\ CycleAt(s, now, m) /\ DetectAt(s, now, m)

IInv ==
    /\ TypeOK
    /\ lag <= timer
    /\ st.trig = FALSE
    /\ SafeAt(st, LastRun, run_mode)

--------------------------------------------------------------------------------
(* The queue.                                                               *)

\* A request that is no lift pulse brings no lift pulse in.
LEMMA EnqueueType ==
    ASSUME NEW q \in Seq(RequestType), NEW k \in Keys
    PROVE  /\ Enqueue(q, Request(k, REPEAT[k])) \in Seq(RequestType)
           /\ k # "LIFT" /\ ~Holds(q, "LIFT")
                 => ~Holds(Enqueue(q, Request(k, REPEAT[k])), "LIFT")
<1> DEFINE r == Request(k, REPEAT[k])
<1>1. r \in RequestType /\ r.key = k
    BY DEF Request, RequestType
<1>2. CASE Len(q) < MAX_ITEMS
    <2>1. Enqueue(q, r) = Append(q, r)
        BY <1>2 DEF Enqueue
    <2>2. Append(q, r) \in Seq(RequestType)
        BY <1>1
    <2>3. ASSUME k # "LIFT", ~Holds(q, "LIFT"), NEW i \in DOMAIN Append(q, r)
          PROVE  Append(q, r)[i].key # "LIFT"
        <3> HIDE DEF r
        <3>1. CASE i = Len(q) + 1
            BY <1>1, <2>3, <3>1
        <3>2. CASE i # Len(q) + 1
            <4>1. i \in DOMAIN q /\ Append(q, r)[i] = q[i]
                BY <1>1, <2>3, <3>2
            <4> QED BY <2>3, <4>1 DEF Holds
        <3> QED BY <3>1, <3>2
    <2> QED BY <2>1, <2>2, <2>3 DEF Holds
<1>3. CASE ~(Len(q) < MAX_ITEMS)
    BY <1>3 DEF Enqueue
<1> QED BY <1>2, <1>3

\* One transmission less is still a request for the same key.
LEMMA OneLess ==
    ASSUME NEW e \in RequestType, e.left > 0
    PROVE  /\ [e EXCEPT !.left = @ - 1] \in RequestType
           /\ [e EXCEPT !.left = @ - 1].key = e.key
<1>1. e.left - 1 \in Nat
    BY DEF RequestType
<1> QED BY <1>1 DEF RequestType

\* A transmission brings none in either.
LEMMA TransmitType ==
    ASSUME NEW q \in Seq(RequestType)
    PROVE  /\ Transmit(q) \in Seq(RequestType)
           /\ Holds(Transmit(q), "LIFT") => Holds(q, "LIFT")
           /\ HasFrame(q) => Head(q).key \in Keys
<1>1. CASE ~HasFrame(q)
    BY <1>1 DEF Transmit
<1>2. CASE HasFrame(q)
    <2>1. q # <<>> /\ Head(q).left > 0 /\ Head(q) = q[1] /\ q[1] \in RequestType
          /\ 1 \in DOMAIN q
        BY <1>2 DEF HasFrame
    <2>2. CASE Head(q).left = 1
        <3>1. Transmit(q) = Tail(q) /\ Tail(q) \in Seq(RequestType)
            BY <1>2, <2>1, <2>2 DEF Transmit
        <3>2. ASSUME NEW i \in DOMAIN Tail(q)
              PROVE  Tail(q)[i] = q[i + 1] /\ i + 1 \in DOMAIN q
            BY <2>1
        <3> QED BY <2>1, <3>1, <3>2 DEF Holds, RequestType
    <2>3. CASE Head(q).left # 1
        <3> DEFINE r == [q[1] EXCEPT !.left = @ - 1]
        <3>1. r \in RequestType /\ r.key = q[1].key
            BY <2>1, OneLess
        <3>2. Transmit(q) = [q EXCEPT ![1] = r]
            BY <1>2, <2>1, <2>3 DEF Transmit
        <3> HIDE DEF r
        <3>3. /\ Transmit(q) \in Seq(RequestType)
              /\ DOMAIN Transmit(q) = DOMAIN q
              /\ \A i \in DOMAIN q : Transmit(q)[i].key = q[i].key
            BY <2>1, <3>1, <3>2
        <3> QED BY <2>1, <3>3 DEF Holds, RequestType
    <2> QED BY <2>2, <2>3
<1> QED BY <1>1, <1>2 DEF HasFrame

--------------------------------------------------------------------------------
(* The functions of the segment: they keep the cycle and the detection.     *)

Kept(s, t) ==
    /\ t.lift_stage = s.lift_stage /\ t.first_lift_tick = s.first_lift_tick
    /\ t.is_intervening = s.is_intervening
    /\ t.timer_s = s.timer_s /\ t.trigTimer = s.trigTimer
    /\ t.trig = s.trig /\ t.triggered_flag = s.triggered_flag

LEMMA KeptSafe ==
    ASSUME NEW s \in State, NEW t \in State, Kept(s, t), NEW now, NEW m
    PROVE  /\ CycleAt(s, now, m) => CycleAt(t, now, m)
           /\ DetectAt(s, now, m) => DetectAt(t, now, m)
BY DEF Kept, CycleAt, DetectAt

LEMMA SendKeeps ==
    ASSUME NEW s \in State, NEW k \in Keys
    PROVE  /\ Send(s, k) \in State
           /\ Kept(s, Send(s, k))
           /\ Send(s, k).lift_seg_end_tick = s.lift_seg_end_tick
           /\ k # "LIFT" /\ ~Holds(s.queue, "LIFT") => ~Holds(Send(s, k).queue, "LIFT")
<1>1. s.queue \in Seq(RequestType)
    BY DEF State
<1> DEFINE q == Enqueue(s.queue, Request(k, REPEAT[k]))
<1>2. /\ q \in Seq(RequestType)
      /\ k # "LIFT" /\ ~Holds(s.queue, "LIFT") => ~Holds(q, "LIFT")
    BY <1>1, EnqueueType
<1>3. Send(s, k) = [s EXCEPT !.queue = q]
    BY DEF Send
<1> HIDE DEF q
<1>4. Send(s, k).queue = q
    BY <1>3 DEF State
<1> QED BY <1>2, <1>3, <1>4 DEF State, Kept

LEMMA StopKeeps ==
    ASSUME NEW s \in State
    PROVE  /\ snore_lift_stop_and_release(s) \in State
           /\ Kept(s, snore_lift_stop_and_release(s))
           /\ snore_lift_stop_and_release(s).lift_seg_end_tick = 0
           /\ ~Holds(snore_lift_stop_and_release(s).queue, "LIFT")
<1> DEFINE t == [s EXCEPT !.lift_seg_end_tick = 0, !.queue = <<>>]
<1>1. t \in State /\ Kept(s, t) /\ t.lift_seg_end_tick = 0 /\ t.queue = <<>>
    <2>1. <<>> \in Seq(RequestType)
        OBVIOUS
    <2> HIDE DEF RequestType
    <2>2. t \in State
        BY <2>1 DEF State
    <2>3. Kept(s, t) /\ t.lift_seg_end_tick = 0 /\ t.queue = <<>>
        BY DEF State, Kept
    <2> QED BY <2>2, <2>3
<1>2. snore_lift_stop_and_release(s) = Send(t, "RELEASE")
    BY DEF snore_lift_stop_and_release
<1> HIDE DEF t
<1>3. ~Holds(t.queue, "LIFT") /\ "RELEASE" \in Keys
    BY <1>1 DEF Holds, Keys
<1>4. /\ Send(t, "RELEASE") \in State
      /\ Kept(t, Send(t, "RELEASE"))
      /\ Send(t, "RELEASE").lift_seg_end_tick = 0
      /\ ~Holds(Send(t, "RELEASE").queue, "LIFT")
    BY <1>1, <1>3, SendKeeps
<1> QED BY <1>1, <1>2, <1>4 DEF Kept

LEMMA SegTicksPositive ==
    ASSUME TypeOK
    PROVE  SegTicks \in Nat \ {0}
<1>1. tmr \div 3 \in Nat
    BY DEF TypeOK
<1> DEFINE n == IF ~soft THEN SNORE_NORMAL_SEG_SEC ELSE IF tmr \div 3 = 0 THEN 1 ELSE tmr \div 3
<1>2. n \in Nat \ {0}
    BY <1>1 DEF SNORE_NORMAL_SEG_SEC
<1>3. SegTicks = TICKS_PER_SEC * n
    BY DEF SegTicks
<1> HIDE DEF n
<1>4. TICKS_PER_SEC * n \in Nat /\ TICKS_PER_SEC * n # 0
    BY <1>2, SMT
<1> QED BY <1>3, <1>4

LEMMA StartKeeps ==
    ASSUME TypeOK, NEW s \in State
    PROVE  /\ snore_lift_start(s) \in State
           /\ Kept(s, snore_lift_start(s))
           /\ snore_lift_start(s).lift_seg_end_tick > timer
<1> DEFINE a == IF s.lift_seg_end_tick # 0 THEN snore_lift_stop_and_release(s) ELSE s
           b == [a EXCEPT !.lift_seg_end_tick = timer + SegTicks]
<1>1. a \in State /\ Kept(s, a)
    BY StopKeeps DEF Kept
<1>2. timer + SegTicks \in Nat /\ timer + SegTicks > timer
    BY SegTicksPositive DEF TypeOK
<1>3. snore_lift_start(s) = Send(b, "LIFT")
    BY DEF snore_lift_start
<1> HIDE DEF a
<1>4. b \in State /\ Kept(a, b) /\ b.lift_seg_end_tick = timer + SegTicks
    BY <1>1, <1>2 DEF State, Kept
<1> HIDE DEF b
<1>5. /\ Send(b, "LIFT") \in State
      /\ Kept(b, Send(b, "LIFT"))
      /\ Send(b, "LIFT").lift_seg_end_tick = timer + SegTicks
    BY <1>4, SendKeeps DEF Keys
<1> QED BY <1>1, <1>2, <1>3, <1>4, <1>5 DEF Kept

\* After the tick of the segment, a segment still running has time left.
LEMMA ProcessTick ==
    ASSUME TypeOK, NEW s \in State, s.lift_seg_end_tick = 0 => ~Holds(s.queue, "LIFT")
    PROVE  /\ snore_lift_process_tick(s) \in State
           /\ Kept(s, snore_lift_process_tick(s))
           /\ SegmentAt(snore_lift_process_tick(s), timer)
<1>1. CASE s.lift_seg_end_tick = 0
    BY <1>1 DEF snore_lift_process_tick, SegmentAt, Kept
<1>2. CASE s.lift_seg_end_tick # 0 /\ timer >= s.lift_seg_end_tick
    <2>1. snore_lift_process_tick(s) = snore_lift_stop_and_release(s)
        BY <1>2 DEF snore_lift_process_tick
    <2> QED BY <2>1, StopKeeps DEF SegmentAt
<1>3. CASE s.lift_seg_end_tick # 0 /\ ~(timer >= s.lift_seg_end_tick)
    <2>1. timer \in Nat /\ s.lift_seg_end_tick \in Nat
        BY DEF TypeOK, State
    <2>2. timer < s.lift_seg_end_tick
        BY <1>3, <2>1
    <2>3. CASE s.queue = <<>>
        <3>1. snore_lift_process_tick(s) = Send(s, "LIFT")
            BY <1>3, <2>3 DEF snore_lift_process_tick
        <3>2. "LIFT" \in Keys
            BY DEF Keys
        <3> QED BY <1>3, <2>2, <3>1, <3>2, SendKeeps DEF SegmentAt
    <2>4. CASE s.queue # <<>>
        <3>1. snore_lift_process_tick(s) = s
            BY <1>3, <2>4 DEF snore_lift_process_tick
        <3> QED BY <1>3, <2>2, <3>1 DEF SegmentAt, Kept
    <2> QED BY <2>3, <2>4
<1> QED BY <1>1, <1>2, <1>3

--------------------------------------------------------------------------------
(* The functions of the cycle and of the detection.                         *)

\* After the tick of the cycle, a cycle still running has time left.
LEMMA CycleTick ==
    ASSUME TypeOK, NEW s \in State, NEW last \in Nat, last <= timer,
           CycleAt(s, last, run_mode), DetectAt(s, last, run_mode)
    PROVE  LET t == snore_try_cycle_reset_tick(s) IN
           /\ t \in State
           /\ t.queue = s.queue /\ t.lift_seg_end_tick = s.lift_seg_end_tick
           /\ t.trig = s.trig
           /\ CycleAt(t, timer, run_mode) /\ DetectAt(t, timer, run_mode)
<1> DEFINE t == snore_try_cycle_reset_tick(s)
<1>1. /\ timer \in Nat /\ run_mode \in Modes /\ CYCLE[run_mode] \in Nat \ {0}
      /\ s.first_lift_tick \in Nat /\ s.timer_s \in Nat
    BY DEF TypeOK, State
<1>2. CASE s.first_lift_tick = 0 \/ timer - s.first_lift_tick < CYCLE[run_mode]
    <2>1. t = s
        BY <1>2 DEF snore_try_cycle_reset_tick
    <2> QED BY <1>1, <1>2, <2>1 DEF CycleAt, DetectAt
<1>3. CASE ~(s.first_lift_tick = 0 \/ timer - s.first_lift_tick < CYCLE[run_mode])
    <2> DEFINE e == [s EXCEPT !.lift_stage = 0]
               a == [e EXCEPT !.is_intervening = FALSE]
               b == [a EXCEPT !.first_lift_tick = 0]
    <2>1. t = b
        BY <1>3 DEF snore_try_cycle_reset_tick, SnoringInterventFlatTimerClear
    <2> HIDE DEF t
    <2>2. a \in State
        <3>1. 0 \in 0 .. SI_SEG_MAX
            BY DEF SI_SEG_MAX
        <3>2. e \in State
            BY <3>1 DEF State
        <3> HIDE DEF e
        <3> QED BY <3>2 DEF State
    <2>3. b \in State
        <3> HIDE DEF a
        <3> QED BY <2>2 DEF State
    <2>4. /\ b.queue = s.queue /\ b.lift_seg_end_tick = s.lift_seg_end_tick
          /\ b.trig = s.trig /\ b.timer_s = s.timer_s /\ b.trigTimer = s.trigTimer
          /\ b.lift_stage = 0 /\ b.is_intervening = FALSE /\ b.first_lift_tick = 0
        BY DEF State
    <2> HIDE DEF b
    <2> QED BY <1>1, <2>1, <2>3, <2>4 DEF CycleAt, DetectAt, t
<1> QED BY <1>2, <1>3

LEMMA DetectionReset ==
    ASSUME NEW s \in State
    PROVE  LET t == SnoringInterventDetectionReset(s) IN
           /\ t \in State
           /\ t.queue = s.queue /\ t.lift_seg_end_tick = s.lift_seg_end_tick
           /\ t.lift_stage = s.lift_stage /\ t.first_lift_tick = s.first_lift_tick
           /\ t.is_intervening = (s.first_lift_tick # 0)
           /\ t.timer_s = 0 /\ t.trigTimer = s.trigTimer /\ t.trig = FALSE
BY DEF SnoringInterventDetectionReset, State

LEMMA StateClear ==
    ASSUME NEW s \in State, s.lift_seg_end_tick = 0 => ~Holds(s.queue, "LIFT")
    PROVE  LET t == SnoringInterventStateClear(s) IN
           /\ t \in State
           /\ ~Holds(t.queue, "LIFT") /\ t.lift_seg_end_tick = 0
           /\ t.lift_stage = 0 /\ t.first_lift_tick = s.first_lift_tick
           /\ t.is_intervening = FALSE
           /\ t.timer_s = 0 /\ t.trigTimer = s.trigTimer /\ t.trig = FALSE
<1> DEFINE a == IF s.lift_seg_end_tick # 0 THEN snore_lift_stop_and_release(s) ELSE s
           b == SnoringInterventDetectionReset(a)
           c == [b EXCEPT !.is_intervening = FALSE]
           t == [c EXCEPT !.lift_stage = 0]
<1>1. /\ a \in State /\ Kept(s, a) /\ a.lift_seg_end_tick = 0
      /\ ~Holds(a.queue, "LIFT")
    BY StopKeeps DEF Kept
<1> HIDE DEF a
<1>2. /\ b \in State
      /\ b.queue = a.queue /\ b.lift_seg_end_tick = 0
      /\ b.first_lift_tick = s.first_lift_tick
      /\ b.timer_s = 0 /\ b.trigTimer = s.trigTimer /\ b.trig = FALSE
    BY <1>1, DetectionReset DEF Kept
<1> HIDE DEF b
<1>3. /\ t \in State
      /\ t.queue = b.queue /\ t.lift_seg_end_tick = b.lift_seg_end_tick
      /\ t.lift_stage = 0 /\ t.first_lift_tick = b.first_lift_tick
      /\ t.is_intervening = FALSE
      /\ t.timer_s = b.timer_s /\ t.trigTimer = b.trigTimer /\ t.trig = b.trig
    <2>1. 0 \in 0 .. SI_SEG_MAX
        BY DEF SI_SEG_MAX
    <2>2. c \in State
        BY <1>2 DEF State
    <2>3. t \in State
        <3> HIDE DEF c
        <3> QED BY <2>1, <2>2 DEF State
    <2>4. /\ t.queue = b.queue /\ t.lift_seg_end_tick = b.lift_seg_end_tick
          /\ t.lift_stage = 0 /\ t.first_lift_tick = b.first_lift_tick
          /\ t.is_intervening = FALSE
          /\ t.timer_s = b.timer_s /\ t.trigTimer = b.trigTimer /\ t.trig = b.trig
        BY <1>2 DEF State
    <2> QED BY <2>3, <2>4
<1>4. SnoringInterventStateClear(s) = t
    BY DEF SnoringInterventStateClear, a, b
<1> HIDE DEF t
<1> QED BY <1>1, <1>2, <1>3, <1>4

\* Clearing is safe at any time between two runs, whatever becomes of the cycle.
LEMMA StateClearSafe ==
    ASSUME NEW s, NEW now, NEW m, SafeAt(s, now, m)
    PROVE  /\ SafeAt(SnoringInterventStateClear(s), now, m)
           /\ SnoringInterventStateClear(s).trig = FALSE
<1>1. s \in State /\ (s.lift_seg_end_tick = 0 => ~Holds(s.queue, "LIFT"))
    BY DEF SafeAt, SegmentAt
<1> DEFINE t == SnoringInterventStateClear(s)
<1>2. /\ t \in State
      /\ ~Holds(t.queue, "LIFT") /\ t.lift_seg_end_tick = 0
      /\ t.lift_stage = 0 /\ t.first_lift_tick = s.first_lift_tick
      /\ t.is_intervening = FALSE
      /\ t.timer_s = 0 /\ t.trigTimer = s.trigTimer /\ t.trig = FALSE
    BY <1>1, StateClear
<1> HIDE DEF t
<1>3. SafeAt(t, now, m)
    BY <1>2 DEF SafeAt, SegmentAt, CycleAt, DetectAt
<1> QED BY <1>2, <1>3 DEF t

\* Giving the cycle up, once its lifts are forgotten; in another mode as well,
\* with that mode's window.
LEMMA FlatClearSafe ==
    ASSUME NEW s \in State, NEW now, NEW m \in Modes, NEW n \in Nat, n \in {0, WINDOW[m]},
           ~Holds(s.queue, "LIFT"), s.lift_seg_end_tick = 0,
           s.lift_stage = 0, s.is_intervening = FALSE, s.timer_s = 0, s.trig = FALSE
    PROVE  LET t == [SnoringInterventFlatTimerClear(s) EXCEPT !.trigTimer = n] IN
           SafeAt(t, now, m) /\ t.trig = FALSE
<1> DEFINE a == [s EXCEPT !.first_lift_tick = 0]
           t == [a EXCEPT !.trigTimer = n]
<1>1. a \in State
    BY DEF State
<1>2. t \in State
    BY <1>1 DEF State
<1>3. /\ t.queue = s.queue /\ t.lift_seg_end_tick = 0
      /\ t.lift_stage = 0 /\ t.first_lift_tick = 0 /\ t.is_intervening = FALSE
      /\ t.timer_s = 0 /\ t.trigTimer = n /\ t.trig = FALSE
    BY DEF State
<1>4. t = [SnoringInterventFlatTimerClear(s) EXCEPT !.trigTimer = n]
    BY DEF SnoringInterventFlatTimerClear
<1> HIDE DEF t
<1> QED BY <1>2, <1>3, <1>4 DEF SafeAt, SegmentAt, CycleAt, DetectAt

LEMMA ApplyIntensitySafe ==
    ASSUME TypeOK, NEW s, SafeAt(s, timer, run_mode), s.trig = FALSE
    PROVE  SafeAt(ApplyIntensity(s), timer, run_mode) /\ ApplyIntensity(s).trig = FALSE
<1>1. CASE intensity = s.last_AntiSnore_intensity
    BY <1>1 DEF ApplyIntensity
<1>2. CASE intensity # s.last_AntiSnore_intensity
    <2> DEFINE n == snore_trig_timer(run_mode, intensity)
               a == [s EXCEPT !.trigTimer = n]
               b == [a EXCEPT !.last_AntiSnore_intensity = intensity]
               t == SnoringInterventDetectionReset(b)
    <2>1. n \in Nat /\ n \in {0, WINDOW[run_mode]}
        BY DEF TypeOK, snore_trig_timer
    <2> HIDE DEF n
    <2>2. a \in State
        BY <2>1 DEF SafeAt, State
    <2>3. b \in State
        <3> HIDE DEF a
        <3> QED BY <2>2 DEF State, TypeOK
    <2>4. /\ b.queue = s.queue /\ b.lift_seg_end_tick = s.lift_seg_end_tick
          /\ b.lift_stage = s.lift_stage /\ b.first_lift_tick = s.first_lift_tick
          /\ b.trigTimer = n
        BY DEF SafeAt, State
    <2>5. t = ApplyIntensity(s)
        BY <1>2 DEF ApplyIntensity, n
    <2> HIDE DEF b
    <2>6. /\ t \in State
          /\ t.queue = b.queue /\ t.lift_seg_end_tick = b.lift_seg_end_tick
          /\ t.lift_stage = b.lift_stage /\ t.first_lift_tick = b.first_lift_tick
          /\ t.is_intervening = (b.first_lift_tick # 0)
          /\ t.timer_s = 0 /\ t.trigTimer = b.trigTimer /\ t.trig = FALSE
        BY <2>3, DetectionReset
    <2> HIDE DEF t
    <2>7. SegmentAt(t, timer)
        BY <2>4, <2>6 DEF SafeAt, SegmentAt
    <2>8. CycleAt(t, timer, run_mode)
        BY <2>4, <2>6 DEF SafeAt, CycleAt
    <2>9. DetectAt(t, timer, run_mode)
        BY <2>1, <2>4, <2>6 DEF DetectAt
    <2> QED BY <2>5, <2>6, <2>7, <2>8, <2>9 DEF SafeAt
<1> QED BY <1>1, <1>2

\* A window that closes leaves none open, and in test mode finds the cycle of the
\* lift before it over.
LEMMA DetectionSafe ==
    ASSUME TypeOK, NEW s, SafeAt(s, timer, run_mode), s.trig = FALSE
    PROVE  LET t == simulate_detection_period(s) IN
           /\ SafeAt(t, timer, run_mode)
           /\ t.trig => t.timer_s = 0 /\ (run_mode = "TEST" => t.lift_stage = 0)
<1>1. /\ timer \in Nat /\ run_mode \in Modes
      /\ WINDOW[run_mode] \in Nat \ {0} /\ CYCLE[run_mode] \in Nat \ {0}
      /\ s \in State
    BY DEF TypeOK, SafeAt
<1> DEFINE a == [s EXCEPT !.timer_s = timer]
           o == [a EXCEPT !.snores = 0]
           w == IF s.timer_s = 0 /\ s.trigTimer > 0 THEN o ELSE s
<1>2. SafeAt(w, timer, run_mode) /\ w.trig = FALSE
    <2>1. CASE s.timer_s = 0 /\ s.trigTimer > 0
        <3>1. a \in State
            BY <1>1 DEF State
        <3>2. o \in State
            <4> HIDE DEF a
            <4> QED BY <3>1 DEF State
        <3>3. /\ o.queue = s.queue /\ o.lift_seg_end_tick = s.lift_seg_end_tick
              /\ o.lift_stage = s.lift_stage /\ o.first_lift_tick = s.first_lift_tick
              /\ o.is_intervening = s.is_intervening
              /\ o.timer_s = timer /\ o.trigTimer = s.trigTimer /\ o.trig = s.trig
            BY <1>1 DEF State
        <3> HIDE DEF o
        <3>4. SegmentAt(o, timer)
            BY <3>3 DEF SafeAt, SegmentAt
        <3>5. CycleAt(o, timer, run_mode)
            BY <3>3 DEF SafeAt, CycleAt
        <3>6. DetectAt(o, timer, run_mode)
            <4>1. s.trigTimer # 0 /\ s.trigTimer \in {0, WINDOW[run_mode]}
                BY <1>1, <2>1 DEF SafeAt, DetectAt, State
            <4>2. s.first_lift_tick # 0 => s.first_lift_tick <= timer
                BY DEF SafeAt, CycleAt
            <4> QED BY <1>1, <3>3, <4>1, <4>2 DEF DetectAt
        <3>7. w = o
            BY <2>1
        <3> QED BY <3>2, <3>3, <3>4, <3>5, <3>6, <3>7 DEF SafeAt
    <2>2. CASE ~(s.timer_s = 0 /\ s.trigTimer > 0)
        <3>1. w = s
            BY <2>2
        <3> HIDE DEF w
        <3> QED BY <3>1
    <2> QED BY <2>1, <2>2
<1> DEFINE d == w.snores >= snore_period_threshold(run_mode, intensity)
           c == [w EXCEPT !.timer_s = 0, !.snores = 0, !.trig = TRUE, !.triggered_flag = d]
<1>3. simulate_detection_period(s) =
          IF w.timer_s = 0 \/ timer - w.timer_s <= w.trigTimer THEN w ELSE c
    BY DEF simulate_detection_period
<1> HIDE DEF w, d
<1>4. w \in State
    BY <1>2 DEF SafeAt
<1>5. CASE w.timer_s = 0 \/ timer - w.timer_s <= w.trigTimer
    BY <1>2, <1>3, <1>5
<1>6. CASE ~(w.timer_s = 0 \/ timer - w.timer_s <= w.trigTimer)
    <2> DEFINE c1 == [w EXCEPT !.timer_s = 0]
               c2 == [c1 EXCEPT !.snores = 0]
               c3 == [c2 EXCEPT !.trig = TRUE]
               c4 == [c3 EXCEPT !.triggered_flag = d]
    <2>1. c = c4
        OBVIOUS
    <2>2. c1 \in State
        BY <1>4 DEF State
    <2>3. c2 \in State
        <3> HIDE DEF c1
        <3> QED BY <2>2 DEF State
    <2>4. c3 \in State
        <3> HIDE DEF c2
        <3> QED BY <2>3 DEF State
    <2>5. c4 \in State
        <3>1. d \in BOOLEAN
            BY DEF d
        <3> HIDE DEF c3
        <3> QED BY <2>4, <3>1 DEF State
    <2>6. /\ c4.queue = w.queue /\ c4.lift_seg_end_tick = w.lift_seg_end_tick
          /\ c4.lift_stage = w.lift_stage /\ c4.first_lift_tick = w.first_lift_tick
          /\ c4.is_intervening = w.is_intervening
          /\ c4.timer_s = 0 /\ c4.trigTimer = w.trigTimer
        BY <1>4 DEF State
    <2> HIDE DEF c4
    <2>7. SafeAt(c4, timer, run_mode)
        BY <1>2, <2>5, <2>6 DEF SafeAt, SegmentAt, CycleAt, DetectAt
    <2>8. run_mode = "TEST" => w.lift_stage = 0
        <3> SUFFICES ASSUME run_mode = "TEST", w.lift_stage # 0 PROVE FALSE
            OBVIOUS
        <3>1. /\ w.first_lift_tick # 0
              /\ timer - w.first_lift_tick < CYCLE["TEST"]
              /\ w.first_lift_tick \in Nat /\ w.timer_s \in Nat
            BY <1>2, <1>4 DEF SafeAt, CycleAt, State, SI_SEG_MAX
        <3>2. /\ w.trigTimer = WINDOW["TEST"]
              /\ w.first_lift_tick <= w.timer_s
            BY <1>2, <1>6, <3>1 DEF SafeAt, DetectAt
        <3>3. timer - w.timer_s > WINDOW["TEST"]
            BY <1>1, <1>6, <3>1, <3>2
        <3>4. CYCLE["TEST"] \in Nat /\ WINDOW["TEST"] \in Nat
            BY <1>1
        <3> QED BY <1>1, <3>1, <3>2, <3>3, <3>4, TestCycleAssumption
    <2>9. simulate_detection_period(s) = c4
        BY <1>3, <1>6, <2>1
    <2> QED BY <2>6, <2>7, <2>8, <2>9
<1> QED BY <1>5, <1>6

\* A lift starts the cycle if none was running, and counts against it.
LEMMA LiftSafe ==
    ASSUME TypeOK, timer > 0, NEW s, SafeAt(s, timer, run_mode),
           s.trig => s.timer_s = 0 /\ (run_mode = "TEST" => s.lift_stage = 0)
    PROVE  SafeAt(LiftIfTriggered(s), timer, run_mode) /\ LiftIfTriggered(s).trig = FALSE
<1>1. /\ timer \in Nat /\ run_mode \in Modes /\ CYCLE[run_mode] \in Nat \ {0}
      /\ s \in State /\ s.lift_stage \in 0 .. SI_SEG_MAX
    BY DEF TypeOK, SafeAt, State
<1>2. CASE ~s.trig
    <2>1. LiftIfTriggered(s) = s /\ s.trig = FALSE
        BY <1>1, <1>2 DEF LiftIfTriggered, State
    <2> QED BY <2>1
<1>3. CASE s.trig /\ (~s.triggered_flag \/ s.lift_stage >= SI_SEG_MAX)
    <2> DEFINE t == [s EXCEPT !.trig = FALSE]
    <2>1. LiftIfTriggered(s) = t
        BY <1>3 DEF LiftIfTriggered
    <2>2. /\ t \in State
          /\ t.queue = s.queue /\ t.lift_seg_end_tick = s.lift_seg_end_tick
          /\ t.lift_stage = s.lift_stage /\ t.first_lift_tick = s.first_lift_tick
          /\ t.is_intervening = s.is_intervening
          /\ t.timer_s = s.timer_s /\ t.trigTimer = s.trigTimer /\ t.trig = FALSE
        BY <1>1 DEF State
    <2> HIDE DEF t
    <2> QED BY <2>1, <2>2 DEF SafeAt, SegmentAt, CycleAt, DetectAt
<1>4. CASE s.trig /\ ~(~s.triggered_flag \/ s.lift_stage >= SI_SEG_MAX)
    <2> DEFINE u == snore_lift_start(s)
               f == IF s.lift_stage = 0 THEN timer ELSE u.first_lift_tick
               t1 == [u EXCEPT !.trig = FALSE]
               t2 == [t1 EXCEPT !.lift_stage = s.lift_stage + 1]
               t3 == [t2 EXCEPT !.first_lift_tick = f]
               t == [t3 EXCEPT !.is_intervening = TRUE]
    <2>1. /\ u \in State /\ Kept(s, u) /\ u.lift_seg_end_tick > timer
        BY <1>1, StartKeeps
    <2>2. LiftIfTriggered(s) = t
        BY <1>4 DEF LiftIfTriggered
    <2> HIDE DEF u
    <2>3. f \in Nat /\ f # 0 /\ f <= timer /\ timer - f < CYCLE[run_mode]
        <3>1. CASE s.lift_stage = 0
            BY <1>1, <3>1
        <3>2. CASE s.lift_stage # 0
            <4>1. s.lift_stage > 0
                BY <1>1, <3>2 DEF SI_SEG_MAX
            <4>2. f = s.first_lift_tick /\ s.first_lift_tick \in Nat
                BY <1>1, <2>1, <3>2 DEF Kept, State
            <4> QED BY <4>1, <4>2 DEF SafeAt, CycleAt
        <3> QED BY <3>1, <3>2
    <2> HIDE DEF f
    <2>4. s.lift_stage + 1 \in 0 .. SI_SEG_MAX
        BY <1>1, <1>4 DEF SI_SEG_MAX
    <2>5. t \in State
        <3>1. t1 \in State
            BY <2>1 DEF State
        <3>2. t2 \in State
            <4> HIDE DEF t1
            <4> QED BY <2>4, <3>1 DEF State
        <3>3. t3 \in State
            <4> HIDE DEF t2
            <4> QED BY <2>3, <3>2 DEF State
        <3> HIDE DEF t3
        <3> QED BY <3>3 DEF State
    <2>6. /\ t.queue = u.queue /\ t.lift_seg_end_tick = u.lift_seg_end_tick
          /\ t.lift_stage = s.lift_stage + 1 /\ t.first_lift_tick = f
          /\ t.is_intervening = TRUE
          /\ t.timer_s = u.timer_s /\ t.trigTimer = u.trigTimer /\ t.trig = FALSE
        BY <2>1 DEF State
    <2> HIDE DEF t
    <2>7. SegmentAt(t, timer)
        BY <1>1, <2>1, <2>6 DEF SegmentAt
    <2>8. CycleAt(t, timer, run_mode)
        BY <1>1, <1>4, <2>3, <2>6 DEF CycleAt, SI_SEG_MAX
    <2>9. DetectAt(t, timer, run_mode)
        BY <1>4, <2>1, <2>6 DEF DetectAt, Kept, SafeAt
    <2> QED BY <2>2, <2>5, <2>6, <2>7, <2>8, <2>9 DEF SafeAt
<1> QED BY <1>2, <1>3, <1>4

--------------------------------------------------------------------------------
(* The handlers.                                                            *)

LEMMA InitIInv == Init => IInv
<1> SUFFICES ASSUME Init PROVE IInv
    OBVIOUS
<1> DEFINE n == snore_trig_timer("PROD", intensity)
<1>1. n \in Nat /\ n \in {0, WINDOW["PROD"]}
    BY DEF Init, snore_trig_timer, Modes
<1> HIDE DEF n
<1>2. <<>> \in Seq(RequestType)
    OBVIOUS
<1>3. st \in State
    <2> HIDE DEF RequestType
    <2> QED BY <1>1, <1>2 DEF Init, State, SI_SEG_MAX, n
<1>4. TypeOK
    BY <1>3 DEF Init, TypeOK, Modes, Keys
<1>5. /\ st.queue = <<>> /\ st.lift_seg_end_tick = 0
      /\ st.lift_stage = 0 /\ st.first_lift_tick = 0 /\ st.is_intervening = FALSE
      /\ st.timer_s = 0 /\ st.trigTimer = n /\ st.trig = FALSE
      /\ run_mode = "PROD" /\ lag = 0 /\ timer = 0
    BY DEF Init, n
<1>6. SafeAt(st, LastRun, run_mode)
    BY <1>1, <1>3, <1>5 DEF SafeAt, SegmentAt, CycleAt, DetectAt, Holds
<1> QED BY <1>4, <1>5, <1>6 DEF IInv

LEMMA RunSafe ==
    ASSUME IInv, SnoringIntervention_run
    PROVE  IInv'
<1>1. /\ TypeOK /\ SafeAt(st, LastRun, run_mode) /\ st.trig = FALSE
      /\ timer \in Nat /\ timer > 0
      /\ LastRun \in Nat /\ LastRun <= timer
    BY DEF IInv, TypeOK, LastRun, SnoringIntervention_run
<1> DEFINE a == snore_try_cycle_reset_tick(st)
           b == snore_lift_process_tick(a)
           c == ApplyIntensity(b)
           d == simulate_detection_period(c)
           e == LiftIfTriggered(d)
<1>2. /\ a \in State
      /\ a.queue = st.queue /\ a.lift_seg_end_tick = st.lift_seg_end_tick
      /\ a.trig = FALSE
      /\ CycleAt(a, timer, run_mode) /\ DetectAt(a, timer, run_mode)
    BY <1>1, CycleTick DEF SafeAt
<1>3. SafeAt(b, timer, run_mode) /\ b.trig = FALSE
    <2>1. a.lift_seg_end_tick = 0 => ~Holds(a.queue, "LIFT")
        BY <1>1, <1>2 DEF SafeAt, SegmentAt
    <2> HIDE DEF a
    <2>2. b \in State /\ Kept(a, b) /\ SegmentAt(b, timer)
        BY <1>1, <1>2, <2>1, ProcessTick
    <2> HIDE DEF b
    <2>3. CycleAt(b, timer, run_mode) /\ DetectAt(b, timer, run_mode)
        BY <1>2, <2>2, KeptSafe
    <2> QED BY <1>2, <2>2, <2>3 DEF SafeAt, Kept
<1>4. SafeAt(e, timer, run_mode) /\ e.trig = FALSE
    <2> HIDE DEF b
    <2>1. SafeAt(c, timer, run_mode) /\ c.trig = FALSE
        BY <1>1, <1>3, ApplyIntensitySafe
    <2> HIDE DEF c
    <2>2. /\ SafeAt(d, timer, run_mode)
          /\ d.trig => d.timer_s = 0 /\ (run_mode = "TEST" => d.lift_stage = 0)
        BY <1>1, <2>1, DetectionSafe
    <2> HIDE DEF d
    <2> QED BY <1>1, <2>2, LiftSafe
<1>5. st' = IF intensity = 0 THEN b ELSE e
    BY DEF SnoringIntervention_run
<1>6. /\ timer' = timer /\ lag' = 0 /\ run_mode' = run_mode
      /\ intensity' = intensity /\ tmr' = tmr /\ soft' = soft /\ wire' = wire
    BY DEF SnoringIntervention_run
<1> HIDE DEF a, b, c, d, e
<1>7. SafeAt(st', timer, run_mode) /\ st'.trig = FALSE
    BY <1>3, <1>4, <1>5
<1>8. LastRun' = timer
    BY <1>1, <1>6 DEF LastRun
<1>9. TypeOK'
    BY <1>1, <1>6, <1>7 DEF TypeOK, SafeAt
<1> QED BY <1>1, <1>6, <1>7, <1>8, <1>9 DEF IInv

\* A record that differs from the current one only in its queue, by a request
\* that is no lift pulse.
LEMMA SendSafe ==
    ASSUME NEW s, NEW now, NEW m, SafeAt(s, now, m), NEW k \in Keys \ {"LIFT"}
    PROVE  SafeAt(Send(s, k), now, m) /\ Send(s, k).trig = s.trig
<1>1. s \in State
    BY DEF SafeAt
<1>2. /\ Send(s, k) \in State
      /\ Kept(s, Send(s, k))
      /\ Send(s, k).lift_seg_end_tick = s.lift_seg_end_tick
      /\ ~Holds(s.queue, "LIFT") => ~Holds(Send(s, k).queue, "LIFT")
    BY <1>1, SendKeeps
<1>3. CycleAt(Send(s, k), now, m) /\ DetectAt(Send(s, k), now, m)
    BY <1>1, <1>2, KeptSafe DEF SafeAt
<1> QED BY <1>2, <1>3 DEF SafeAt, SegmentAt, Kept

LEMMA PulseSafe ==
    ASSUME IInv, NEW n \in Bursts, SnorePulse(n)
    PROVE  IInv'
<1> DEFINE t == [st EXCEPT !.snores = @ + n]
<1>1. st \in State /\ n \in Nat
    BY DEF IInv, TypeOK
<1>2. st.snores + n \in Nat
    BY <1>1 DEF State
<1>3. /\ t \in State
      /\ t.queue = st.queue /\ t.lift_seg_end_tick = st.lift_seg_end_tick
      /\ t.lift_stage = st.lift_stage /\ t.first_lift_tick = st.first_lift_tick
      /\ t.is_intervening = st.is_intervening
      /\ t.timer_s = st.timer_s /\ t.trigTimer = st.trigTimer /\ t.trig = st.trig
    BY <1>1, <1>2 DEF State
<1>4. st' = t
    BY DEF SnorePulse
<1> HIDE DEF t
<1>5. SafeAt(st', LastRun, run_mode)
    BY <1>3, <1>4 DEF IInv, SafeAt, SegmentAt, CycleAt, DetectAt
<1> QED BY <1>3, <1>4, <1>5 DEF IInv, TypeOK, LastRun, SnorePulse

LEMMA FrameSafe ==
    ASSUME IInv, NEW s \in Boxes, MainboxFrame(s)
    PROVE  IInv'
<1> DEFINE q == Transmit(st.queue)
           t == [st EXCEPT !.queue = q]
<1>1. st \in State /\ st.queue \in Seq(RequestType)
    BY DEF IInv, TypeOK, State
<1>2. /\ q \in Seq(RequestType)
      /\ Holds(q, "LIFT") => Holds(st.queue, "LIFT")
      /\ HasFrame(st.queue) => Head(st.queue).key \in Keys
    BY <1>1, TransmitType
<1>3. st' = t
    BY DEF MainboxFrame
<1> HIDE DEF q
<1>4. /\ t \in State
      /\ t.queue = q /\ t.lift_seg_end_tick = st.lift_seg_end_tick
      /\ Kept(st, t)
    BY <1>1, <1>2 DEF State, Kept
<1> HIDE DEF t
<1>5. SafeAt(st', LastRun, run_mode)
    BY <1>1, <1>2, <1>3, <1>4, KeptSafe DEF IInv, SafeAt, SegmentAt
<1>6. wire' \in Keys /\ soft' \in BOOLEAN
    BY <1>2 DEF MainboxFrame, IInv, TypeOK
<1> QED BY <1>3, <1>4, <1>5, <1>6 DEF IInv, TypeOK, LastRun, MainboxFrame, Kept

LEMMA BleSetSafe ==
    ASSUME IInv, NEW level \in 0 .. 3, NEW t \in TmrValues, BleSetSnore(level, t)
    PROVE  IInv'
<1>1. SafeAt(st', LastRun, run_mode) /\ st'.trig = FALSE
    BY StateClearSafe DEF IInv, BleSetSnore
<1> QED BY <1>1 DEF IInv, TypeOK, LastRun, BleSetSnore, SafeAt

LEMMA ModeSafe ==
    ASSUME IInv, NEW mode \in Modes, snore_run_mode_set(mode)
    PROVE  IInv'
<1> DEFINE n == snore_trig_timer(mode, intensity)
           c == SnoringInterventStateClear(st)
<1>1. n \in Nat /\ n \in {0, WINDOW[mode]}
    BY DEF snore_trig_timer
<1>2. st \in State /\ (st.lift_seg_end_tick = 0 => ~Holds(st.queue, "LIFT"))
    BY DEF IInv, SafeAt, SegmentAt
<1>3. /\ c \in State
      /\ ~Holds(c.queue, "LIFT") /\ c.lift_seg_end_tick = 0
      /\ c.lift_stage = 0 /\ c.is_intervening = FALSE
      /\ c.timer_s = 0 /\ c.trig = FALSE
    BY <1>2, StateClear
<1>4. st' = [SnoringInterventFlatTimerClear(c) EXCEPT !.trigTimer = n]
    BY DEF snore_run_mode_set
<1> HIDE DEF n, c
<1>5. SafeAt(st', LastRun, mode) /\ st'.trig = FALSE
    BY <1>1, <1>3, <1>4, FlatClearSafe
<1> QED BY <1>5 DEF IInv, TypeOK, LastRun, snore_run_mode_set, SafeAt

LEMMA AppKeySafe ==
    ASSUME IInv, ble_app_key_dispatch
    PROVE  IInv'
<1>1. SafeAt(st', LastRun, run_mode) /\ st'.trig = FALSE
    BY SendSafe DEF IInv, ble_app_key_dispatch, Keys
<1> QED BY <1>1 DEF IInv, TypeOK, LastRun, ble_app_key_dispatch, SafeAt

LEMMA VoiceSafe ==
    ASSUME IInv, NEW cmd \in VoiceCommands, offline_voice_dataHandle(cmd)
    PROVE  IInv'
<1> DEFINE c == SnoringInterventStateClear(st)
           f == SnoringInterventFlatTimerClear(c)
           a == IF cmd \in FlatCommands THEN f
                ELSE IF cmd \in PositionCommands THEN c ELSE st
           b == [a EXCEPT !.queue = <<>>]
           d == IF cmd \in ClearingCommands THEN b ELSE a
<1>1. SafeAt(st, LastRun, run_mode) /\ st.trig = FALSE /\ run_mode \in Modes /\ st \in State
    BY DEF IInv, TypeOK
<1>2. SafeAt(c, LastRun, run_mode) /\ c.trig = FALSE
    BY <1>1, StateClearSafe
<1>3. SafeAt(f, LastRun, run_mode) /\ f.trig = FALSE
    <2>1. /\ c \in State
          /\ ~Holds(c.queue, "LIFT") /\ c.lift_seg_end_tick = 0
          /\ c.lift_stage = 0 /\ c.is_intervening = FALSE
          /\ c.timer_s = 0 /\ c.trig = FALSE
        BY <1>1, StateClear DEF SafeAt, SegmentAt
    <2>2. c.trigTimer \in Nat /\ c.trigTimer \in {0, WINDOW[run_mode]}
        BY <1>2, <2>1 DEF SafeAt, DetectAt, State
    <2>3. f = [f EXCEPT !.trigTimer = c.trigTimer]
        <3> HIDE DEF c
        <3>1. f \in State /\ f.trigTimer = c.trigTimer
            BY <2>1 DEF SnoringInterventFlatTimerClear, State
        <3> HIDE DEF f
        <3> QED BY <3>1 DEF State
    <2> DEFINE t == [SnoringInterventFlatTimerClear(c) EXCEPT !.trigTimer = c.trigTimer]
    <2>4. t = f
        BY <2>3
    <2> HIDE DEF c
    <2>5. SafeAt(t, LastRun, run_mode) /\ t.trig = FALSE
        BY <1>1, <2>1, <2>2, FlatClearSafe
    <2> HIDE DEF t, f
    <2> QED BY <2>4, <2>5
<1> HIDE DEF c, f
<1>4. SafeAt(a, LastRun, run_mode) /\ a.trig = FALSE
    BY <1>1, <1>2, <1>3
<1> HIDE DEF a
<1>5. SafeAt(b, LastRun, run_mode) /\ b.trig = FALSE
    <2>1. <<>> \in Seq(RequestType)
        OBVIOUS
    <2>2. a \in State
        BY <1>4 DEF SafeAt
    <2>3. b \in State
        <3> HIDE DEF RequestType
        <3> QED BY <2>1, <2>2 DEF State
    <2>4. b.queue = <<>> /\ b.lift_seg_end_tick = a.lift_seg_end_tick /\ Kept(a, b)
        BY <2>2 DEF State, Kept
    <2> HIDE DEF b
    <2>5. ~Holds(b.queue, "LIFT")
        BY <2>4 DEF Holds
    <2> QED BY <1>4, <2>2, <2>3, <2>4, <2>5, KeptSafe DEF SafeAt, SegmentAt, Kept
<1> HIDE DEF b
<1>6. SafeAt(d, LastRun, run_mode) /\ d.trig = FALSE
    BY <1>4, <1>5
<1>7. st' = Send(d, VoiceKey(cmd))
    BY DEF offline_voice_dataHandle, a, b, c, f
<1> HIDE DEF d
<1>8. VoiceKey(cmd) \in Keys \ {"LIFT"}
    BY VoiceAssumption DEF VoiceKey, Keys, FlatCommands, Voice
<1>9. SafeAt(st', LastRun, run_mode) /\ st'.trig = FALSE
    BY <1>6, <1>7, <1>8, SendSafe
<1> QED BY <1>9 DEF IInv, TypeOK, LastRun, offline_voice_dataHandle, SafeAt

\* The steps that leave the record alone.
LEMMA OtherSafe ==
    ASSUME IInv, Tick10ms \/ KeyOff \/ KeyNextLevel \/ UNCHANGED vars
    PROVE  IInv'
<1>1. /\ st' = st /\ run_mode' = run_mode
      /\ LastRun' = LastRun /\ lag' \in Nat /\ timer' \in Nat /\ lag' <= timer'
    BY DEF IInv, TypeOK, LastRun, Tick10ms, KeyOff, KeyNextLevel, vars
<1>2. TypeOK'
    BY <1>1 DEF IInv, TypeOK, Tick10ms, KeyOff, KeyNextLevel, vars
<1> QED BY <1>1, <1>2 DEF IInv

--------------------------------------------------------------------------------
(* The theorems.                                                            *)

\* The invariant of every behaviour.
THEOREM Invariance == Spec => []IInv
<1>1. Init => IInv
    BY InitIInv
<1>2. IInv /\ [Next]_vars => IInv'
    <2> SUFFICES ASSUME IInv, [Next]_vars PROVE IInv'
        OBVIOUS
    <2>1. CASE Tick10ms
        BY <2>1, OtherSafe
    <2>2. CASE SnoringIntervention_run
        BY <2>2, RunSafe
    <2>3. ASSUME NEW n \in Bursts, SnorePulse(n) PROVE IInv'
        BY <2>3, PulseSafe
    <2>4. ASSUME NEW s \in Boxes, MainboxFrame(s) PROVE IInv'
        BY <2>4, FrameSafe
    <2>5. ASSUME NEW level \in 0 .. 3, NEW t \in TmrValues, BleSetSnore(level, t) PROVE IInv'
        BY <2>5, BleSetSafe
    <2>6. ASSUME NEW mode \in Modes, snore_run_mode_set(mode) PROVE IInv'
        BY <2>6, ModeSafe
    <2>7. CASE ble_app_key_dispatch
        BY <2>7, AppKeySafe
    <2>8. CASE KeyOff \/ KeyNextLevel
        BY <2>8, OtherSafe
    <2>9. ASSUME NEW cmd \in VoiceCommands, offline_voice_dataHandle(cmd) PROVE IInv'
        BY <2>9, VoiceSafe
    <2>10. CASE UNCHANGED vars
        BY <2>10, OtherSafe
    <2> QED BY <2>1, <2>2, <2>3, <2>4, <2>5, <2>6, <2>7, <2>8, <2>9, <2>10
            DEF Next, UserRequest
<1> QED BY <1>1, <1>2, PTL DEF Spec

\* For every scale of the times, every queue size and every set of requests: the
\* variables keep their types.
THEOREM TypeCorrect == Spec => []TypeOK
<1>1. IInv => TypeOK
    BY DEF IInv
<1> QED BY <1>1, Invariance, PTL

\* The motor is driven only inside a timed segment: whatever ends one takes the
\* lift pulses out of the queue (x_snoreintervention.c:139-152).
THEOREM LiftTimed == Spec => []NoStrayLift
<1>1. IInv => NoStrayLift
    BY DEF IInv, SafeAt, SegmentAt, NoStrayLift
<1> QED BY <1>1, Invariance, PTL

\* No segment outlives its time (x_snoreintervention.c:186-201), function switched
\* off or not.
THEOREM LiftBounded == Spec => []SegmentBounded
<1>1. IInv => SegmentBounded
    BY DEF IInv, SafeAt, SegmentAt, SegmentBounded
<1> QED BY <1>1, Invariance, PTL

\* Lifts count against a cycle that is running, three at most
\* (x_snoreintervention.c:314-328).
THEOREM CycleCounted == Spec => []CycleStarted
<1>1. IInv => CycleStarted
    BY DEF IInv, TypeOK, State, SafeAt, CycleAt, CycleStarted
<1> QED BY <1>1, Invariance, PTL

\* A cycle ends in time (x_snoreintervention.c:204-219).
THEOREM CycleCorrect == Spec => []CycleBounded
<1>1. IInv => CycleBounded
    BY DEF IInv, SafeAt, CycleAt, CycleBounded
<1> QED BY <1>1, Invariance, PTL

\* No window of the other mode survives a mode change
\* (x_snoreintervention.c:75-93).
THEOREM WindowCorrect == Spec => []WindowOfMode
<1>1. IInv => WindowOfMode
    BY DEF IInv, SafeAt, DetectAt, WindowOfMode
<1> QED BY <1>1, Invariance, PTL

\* Whenever the test cycle is no longer than the test window, a cycle of the test
\* mode has one lift only (x_snoreintervention.c:9-10, x_snoreintervention.h:11-12).
THEOREM TestModeLiftsOnce == Spec => []TestSingleStage
<1>1. IInv => TestSingleStage
    BY DEF IInv, SafeAt, CycleAt, TestSingleStage
<1> QED BY <1>1, Invariance, PTL
================================================================================
