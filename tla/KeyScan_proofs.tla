----------------------------- MODULE KeyScan_proofs ----------------------------
(***************************************************************************)
(* For every length of the long presses and every limit of the counter: a  *)
(* key is recognised exactly when its pin has been steady, a hold acts at  *)
(* most once, and a hold that acted is no press.                           *)
(*                                                                         *)
(* The scan and the tick are separate arguments.  Of the scan, deb_arr is  *)
(* the history of each pin that `steady` counts.  Of the tick, a hold that *)
(* acted has its counter past the point of the act and has set keys_ignore.*)
(***************************************************************************)
EXTENDS KeyScanMC, SequenceTheorems, TLAPS

USE KeyAssumption

--------------------------------------------------------------------------------
(* The inductive invariant.                                                 *)

TypeOK ==
    /\ deb_old_val \in Codes /\ current_key \in Codes /\ last_key \in Codes
    /\ deb_arr \in [1..DEBOUNCE_MAX_COUNT -> Codes]
    /\ key_repeat \in 0..REPEAT_MAX
    /\ keys_ignore \in BOOLEAN
    /\ act \in {"NEXT", "OFF", "PAIR", "NONE"}
    /\ steady \in [Keys -> 1..STEADY]
    /\ done \in 0..2

\* deb_arr holds a key in the place its count says, if it changed at all, and a key
\* that did not is taken for what its pin is.
ScanInv == \A k \in Keys :
    /\ steady[k] = 1 <=> k \in deb_arr[3]
    /\ steady[k] = 2 <=> k \in deb_arr[2] \ deb_arr[3]
    /\ steady[k] = 3 <=> k \in deb_arr[1] \ (deb_arr[2] \cup deb_arr[3])
    /\ steady[k] = STEADY => (k \in current_key <=> k \in deb_old_val)

\* Keys that are down and have acted did so once; the counter is past that point,
\* and their release will not be a press.
HoldInv ==
    /\ last_key = current_key
    /\ last_key # {} /\ done > 0 =>
          /\ done = 1 /\ keys_ignore
          /\ \/ last_key = {"PAIR"} /\ key_repeat >= PAIR_AT
             \/ last_key = {"LEVEL"} /\ key_repeat >= OFF_AT

IInv == TypeOK /\ ScanInv /\ HoldInv

LEMMA StartsWell == MCInit => IInv
<1> SUFFICES ASSUME MCInit PROVE IInv
  OBVIOUS
<1> USE DEF MCInit, Init, STEADY, DEBOUNCE_MAX_COUNT
<1>1. deb_arr[1] = {} /\ deb_arr[2] = {} /\ deb_arr[3] = {}
  OBVIOUS
<1>2. TypeOK
  <2>1. deb_arr \in [1..DEBOUNCE_MAX_COUNT -> Codes] /\ steady \in [Keys -> 1..STEADY]
    BY DEF Codes
  <2>2. key_repeat \in 0..REPEAT_MAX /\ done \in 0..2
    OBVIOUS
  <2>3. keys_ignore \in BOOLEAN
    BY Zenon
  <2>4. act \in {"NEXT", "OFF", "PAIR", "NONE"}
    OBVIOUS
  <2>5. deb_old_val \in Codes /\ current_key \in Codes /\ last_key \in Codes
    BY DEF Codes
  <2> QED
    BY <2>1, <2>2, <2>3, <2>4, <2>5, Zenon DEF TypeOK
<1>3. ScanInv
  BY <1>1 DEF ScanInv
<1>4. HoldInv
  BY DEF HoldInv
<1> QED
  BY <1>2, <1>3, <1>4 DEF IInv

--------------------------------------------------------------------------------
(* The scan.                                                                *)

\* A sequence that loses its first element and gets one at its end has moved by one.
LEMMA Moved ==
    ASSUME NEW S, NEW n \in Nat \ {0}, NEW seq \in [1..n -> S], NEW x \in S
    PROVE  /\ Append(Tail(seq), x) \in [1..n -> S]
           /\ \A i \in 1..n : Append(Tail(seq), x)[i] = IF i < n THEN seq[i + 1] ELSE x
<1>1. seq \in Seq(S) /\ Len(seq) = n
  OBVIOUS
<1>2. seq # <<>>
  BY <1>1, EmptySeq
<1> DEFINE t == Tail(seq)
<1>3. /\ t \in Seq(S) /\ Len(t) = n - 1
      /\ \A i \in 1..(n - 1) : t[i] = seq[i + 1]
  BY <1>1, <1>2, HeadTailProperties
<1> HIDE DEF t
<1> DEFINE u == Append(t, x)
<1>4. /\ u \in Seq(S) /\ Len(u) = n
      /\ \A i \in 1..(n - 1) : u[i] = t[i]
      /\ u[n] = x
  BY <1>3, AppendProperties
<1> HIDE DEF u
<1>5. u \in [1..n -> S]
  BY <1>4, LenProperties
<1>6. \A i \in 1..n : u[i] = IF i < n THEN seq[i + 1] ELSE x
  BY <1>3, <1>4
<1> QED
  BY <1>5, <1>6 DEF u, t

\* A scan forgets the oldest entry of its history and appends the newest.
LEMMA Shifted ==
    ASSUME NEW arr \in [1..DEBOUNCE_MAX_COUNT -> Codes], NEW code \in Codes
    PROVE  /\ Append(Tail(arr), code) \in [1..DEBOUNCE_MAX_COUNT -> Codes]
           /\ Append(Tail(arr), code)[1] = arr[2]
           /\ Append(Tail(arr), code)[2] = arr[3]
           /\ Append(Tail(arr), code)[3] = code
<1> DEFINE n == DEBOUNCE_MAX_COUNT
           u == Append(Tail(arr), code)
<1>1. n \in Nat \ {0}
  BY DEF DEBOUNCE_MAX_COUNT
<1>2. u \in [1..n -> Codes]
  BY <1>1, Moved, Zenon
<1> HIDE DEF n
<1>3. \A i \in 1..n : u[i] = IF i < n THEN arr[i + 1] ELSE code
  <2>1. arr \in [1..n -> Codes]
    BY Zenon DEF n
  <2> QED
    BY <1>1, <2>1, Moved
<1> HIDE DEF u
<1>4. u[1] = arr[2] /\ u[2] = arr[3] /\ u[3] = code
  BY <1>3 DEF n, DEBOUNCE_MAX_COUNT
<1> QED
  BY <1>2, <1>4, Zenon DEF n, u

\* Debouncing key by key: one that changed within the history keeps its status.
LEMMA DebouncedAt ==
    ASSUME NEW down \in Codes, NEW status \in Codes, NEW k \in Keys,
           NEW arr \in [1..DEBOUNCE_MAX_COUNT -> Codes]
    PROVE  k \in Debounced(down, arr, status) <=>
               IF k \in arr[1] \cup arr[2] \cup arr[3] THEN k \in status ELSE k \in down
<1>1. ToSet(arr) = {arr[1], arr[2], arr[3]}
  BY DEF ToSet, DEBOUNCE_MAX_COUNT
<1>2. UNION ToSet(arr) = arr[1] \cup arr[2] \cup arr[3]
  BY <1>1
<1> QED
  BY <1>2 DEF Debounced

\* What one scan does to one key.
LEMMA ScanAt ==
    ASSUME IInv, NEW down \in Codes, on_key_10ms_handle(down), NEW k \in Keys
    PROVE  /\ deb_arr' \in [1..DEBOUNCE_MAX_COUNT -> Codes]
           /\ deb_old_val' = down
           /\ k \in deb_arr'[1] <=> k \in deb_arr[2]
           /\ k \in deb_arr'[2] <=> k \in deb_arr[3]
           /\ k \in deb_arr'[3] <=> (k \in deb_old_val) # (k \in down)
           /\ k \in current_key' <=>
                  IF k \in deb_arr'[1] \cup deb_arr'[2] \cup deb_arr'[3]
                  THEN k \in current_key ELSE k \in down
<1> DEFINE code == SymmetricDifference(deb_old_val, down)
<1>1. code \in Codes /\ (k \in code <=> (k \in deb_old_val) # (k \in down))
  BY DEF SymmetricDifference, Codes, IInv, TypeOK
<1>2. deb_arr' = Append(Tail(deb_arr), code) /\ deb_old_val' = down
      /\ current_key' = Debounced(down, deb_arr', current_key)
  BY DEF on_key_10ms_handle
<1>3. /\ deb_arr' \in [1..DEBOUNCE_MAX_COUNT -> Codes]
      /\ deb_arr'[1] = deb_arr[2] /\ deb_arr'[2] = deb_arr[3] /\ deb_arr'[3] = code
  BY <1>1, <1>2, Shifted DEF IInv, TypeOK
<1>4. k \in current_key' <=>
          IF k \in deb_arr'[1] \cup deb_arr'[2] \cup deb_arr'[3]
          THEN k \in current_key ELSE k \in down
  <2>1. current_key \in Codes
    BY DEF IInv, TypeOK
  <2>2. k \in Debounced(down, deb_arr', current_key) <=>
            IF k \in deb_arr'[1] \cup deb_arr'[2] \cup deb_arr'[3]
            THEN k \in current_key ELSE k \in down
    BY <1>3, <2>1, DebouncedAt, Zenon
  <2> QED
    BY <1>2, <2>2
<1> QED
  BY <1>1, <1>2, <1>3, <1>4

\* The count of one key after a scan.
SteadyStep(k) ==
    steady'[k] = IF (k \in deb_old_val') # (k \in deb_old_val) THEN 1
                 ELSE IF steady[k] < STEADY THEN steady[k] + 1 ELSE STEADY

\* The history keeps saying what the counts say.
LEMMA ScanKeeps ==
    ASSUME IInv, NEW down \in Codes, on_key_10ms_handle(down),
           \A k \in Keys : SteadyStep(k)
    PROVE  ScanInv'
<1> SUFFICES ASSUME NEW k \in Keys
             PROVE  /\ steady'[k] = 1 <=> k \in deb_arr'[3]
                    /\ steady'[k] = 2 <=> k \in deb_arr'[2] \ deb_arr'[3]
                    /\ steady'[k] = 3 <=> k \in deb_arr'[1] \ (deb_arr'[2] \cup deb_arr'[3])
                    /\ steady'[k] = STEADY => (k \in current_key' <=> k \in deb_old_val')
  BY DEF ScanInv
<1>1. /\ deb_old_val' = down
      /\ k \in deb_arr'[1] <=> k \in deb_arr[2]
      /\ k \in deb_arr'[2] <=> k \in deb_arr[3]
      /\ k \in deb_arr'[3] <=> (k \in deb_old_val) # (k \in down)
      /\ k \in current_key' <=>
             IF k \in deb_arr'[1] \cup deb_arr'[2] \cup deb_arr'[3]
             THEN k \in current_key ELSE k \in down
  BY ScanAt
<1>2. /\ steady[k] = 1 <=> k \in deb_arr[3]
      /\ steady[k] = 2 <=> k \in deb_arr[2] \ deb_arr[3]
      /\ steady[k] = 3 <=> k \in deb_arr[1] \ (deb_arr[2] \cup deb_arr[3])
      /\ steady[k] \in 1..4
  BY DEF IInv, ScanInv, TypeOK, STEADY, DEBOUNCE_MAX_COUNT
<1>3. steady'[k] = IF (k \in down) # (k \in deb_old_val) THEN 1
                   ELSE IF steady[k] < 4 THEN steady[k] + 1 ELSE 4
  BY <1>1 DEF SteadyStep, STEADY, DEBOUNCE_MAX_COUNT
<1>4. STEADY = 4
  BY DEF STEADY, DEBOUNCE_MAX_COUNT
<1> QED
  BY <1>1, <1>2, <1>3, <1>4

--------------------------------------------------------------------------------
(* The tick.                                                                *)

\* What was done since the keys that are down changed.
DoneStep ==
    done' = LET before == IF last_key' # last_key THEN 0 ELSE done
            IN  IF act' # "NONE" /\ before < 2 THEN before + 1 ELSE before

\* The four cases of a tick keep the types and the account of a hold.
LEMMA TickKeeps ==
    ASSUME IInv, NEW key \in Codes, control_timer10ms(key), current_key' = key, DoneStep
    PROVE  /\ HoldInv'
           /\ last_key' \in Codes /\ key_repeat' \in 0..REPEAT_MAX /\ keys_ignore' \in BOOLEAN
           /\ act' \in {"NEXT", "OFF", "PAIR", "NONE"} /\ done' \in 0..2
<1>1. /\ last_key \in Codes /\ key_repeat \in 0..REPEAT_MAX /\ keys_ignore \in BOOLEAN
      /\ done \in 0..2 /\ last_key = current_key /\ last_key' = key
  BY DEF IInv, TypeOK, HoldInv, control_timer10ms
<1>2. CASE Press(key)
  <2>1. done' = 0
    BY <1>1, <1>2 DEF Press, DoneStep
  <2> QED
    BY <1>1, <1>2, <2>1 DEF Press, HoldInv
<1>3. CASE Hold(key)
  <2>1. /\ key_repeat' \in 0..REPEAT_MAX /\ key_repeat' >= key_repeat
        /\ key_repeat' = key_repeat => key_repeat = REPEAT_MAX
    BY <1>1, <1>3 DEF Hold, NextRepeat
  <2>2. /\ act' \in {"OFF", "PAIR", "NONE"}
        /\ act' = "PAIR" => key = {"PAIR"} /\ key_repeat' = PAIR_AT
        /\ act' = "OFF" => key = {"LEVEL"} /\ key_repeat' = OFF_AT
    BY <1>3 DEF Hold, LongPress
  <2>3. keys_ignore' = (keys_ignore \/ act' # "NONE") /\ last_key = key /\ key # {}
    BY <1>3 DEF Hold
  <2>4. done' = IF act' # "NONE" /\ done < 2 THEN done + 1 ELSE done
    BY <1>1, <2>3 DEF DoneStep
  <2>5. CASE act' = "NONE"
    <3>1. done' = done /\ keys_ignore' = keys_ignore
      BY <1>1, <2>3, <2>4, <2>5
    <3> QED
      BY <1>1, <2>1, <2>3, <2>5, <3>1 DEF IInv, HoldInv
  <2>6. CASE act' # "NONE"
    <3>1. done = 0
      <4>1. SUFFICES ASSUME done > 0 PROVE FALSE
        BY <1>1
      <4>2. \/ last_key = {"PAIR"} /\ key_repeat >= PAIR_AT
            \/ last_key = {"LEVEL"} /\ key_repeat >= OFF_AT
        BY <2>3, <4>1 DEF IInv, HoldInv
      <4>3. {"PAIR"} # {"LEVEL"}
        OBVIOUS
      <4> QED
        BY <1>1, <2>1, <2>2, <2>3, <2>6, <4>2, <4>3
    <3>2. done' = 1
      BY <2>4, <2>6, <3>1
    <3>3. keys_ignore'
      BY <2>3, <2>6, Zenon
    <3>4. keys_ignore' \in BOOLEAN
      BY <2>3
    <3> QED
      BY <1>1, <2>1, <2>2, <2>3, <2>6, <3>2, <3>3, <3>4 DEF HoldInv
  <2> QED
    BY <2>5, <2>6
<1>4. CASE Release(key)
  BY <1>1, <1>4 DEF Release, HoldInv, DoneStep
<1>5. CASE Other(key)
  <2>1. last_key' # {} => done' = 0
    BY <1>1, <1>5 DEF Other, DoneStep
  <2>2. done' \in 0..2
    BY <1>1, <1>5 DEF Other, DoneStep
  <2>3. HoldInv'
    BY <1>1, <2>1 DEF HoldInv
  <2>4. key_repeat' = 0 /\ keys_ignore' = FALSE /\ act' = "NONE"
    BY <1>5 DEF Other
  <2>5. key_repeat' \in 0..REPEAT_MAX
    BY <2>4
  <2>6. keys_ignore' \in BOOLEAN
    BY <2>4, Zenon
  <2> QED
    BY <1>1, <2>2, <2>3, <2>4, <2>5, <2>6
<1> QED
  BY <1>2, <1>3, <1>4, <1>5 DEF control_timer10ms

--------------------------------------------------------------------------------
(* The theorems.                                                            *)

\* A tick is a scan and what is made of it.
LEMMA StepIs ==
    ASSUME IInv, MCNext
    PROVE  /\ \E down \in Codes :
                  on_key_10ms_handle(down) /\ control_timer10ms(current_key')
           /\ current_key' \in Codes
           /\ \A k \in Keys : SteadyStep(k)
           /\ steady' \in [Keys -> 1..STEADY]
           /\ DoneStep
<1>1. PICK down \in Codes : Tick10ms(down)
  BY DEF MCNext, Next
<1>2. on_key_10ms_handle(down) /\ control_timer10ms(current_key')
  BY <1>1 DEF Tick10ms
<1>3. current_key' = Debounced(down, deb_arr', current_key)
  BY <1>2 DEF on_key_10ms_handle
<1>4. current_key' \in Codes
  BY <1>3 DEF Debounced, Codes, IInv, TypeOK
<1>5. \A k \in Keys : SteadyStep(k)
  BY DEF MCNext, SteadyStep
<1>6. steady' \in [Keys -> 1..STEADY]
  <2>1. \A k \in Keys : steady[k] \in 1..STEADY
    BY DEF IInv, TypeOK
  <2> QED
    BY <2>1 DEF MCNext, STEADY, DEBOUNCE_MAX_COUNT
<1>7. DoneStep
  BY DEF MCNext, DoneStep
<1> QED
  BY <1>2, <1>4, <1>5, <1>6, <1>7

LEMMA StepKeeps == IInv /\ [MCNext]_mcvars => IInv'
<1> SUFFICES ASSUME IInv, [MCNext]_mcvars PROVE IInv'
  OBVIOUS
<1>1. CASE MCNext
  <2>1. PICK down \in Codes : on_key_10ms_handle(down) /\ control_timer10ms(current_key')
    BY <1>1, StepIs
  <2>2. ScanInv'
    BY <1>1, <2>1, StepIs, ScanKeeps
  <2>3. /\ HoldInv'
        /\ last_key' \in Codes /\ key_repeat' \in 0..REPEAT_MAX /\ keys_ignore' \in BOOLEAN
        /\ act' \in {"NEXT", "OFF", "PAIR", "NONE"} /\ done' \in 0..2
    BY <1>1, <2>1, StepIs, TickKeeps
  <2>4. deb_arr' \in [1..DEBOUNCE_MAX_COUNT -> Codes] /\ deb_old_val' \in Codes
    BY <2>1, ScanAt DEF Keys
  <2>5. current_key' \in Codes /\ steady' \in [Keys -> 1..STEADY]
    BY <1>1, StepIs
  <2> QED
    BY <2>2, <2>3, <2>4, <2>5 DEF IInv, TypeOK
<1>2. CASE UNCHANGED mcvars
  BY <1>2 DEF mcvars, vars, scan, IInv, TypeOK, ScanInv, HoldInv
<1> QED
  BY <1>1, <1>2

\* The scan's history and the account of a hold are right in every state (KeyScan).
THEOREM Invariance == MCSpec => []IInv
BY StartsWell, StepKeeps, PTL DEF MCSpec

\* The state of the keys stays within its types: the counter does not pass its limit
\* (x_control.c:87).
THEOREM TypeCorrect == MCSpec => []TypeOK
<1>1. IInv => TypeOK
  BY DEF IInv
<1> QED
  BY <1>1, Invariance, PTL

\* However long keys are held, they pair or switch off once (x_control.c:87-110), for
\* every place of the two long presses below the limit of the counter.
THEOREM HoldActsOnce == MCSpec => []OncePerHold
<1>1. IInv => OncePerHold
  BY DEF IInv, TypeOK, HoldInv, OncePerHold
<1> QED
  BY <1>1, Invariance, PTL

\* A key is taken for down or up when its pin was so in four scans, neither earlier nor
\* later (analog_key_deebounce).
THEOREM DebounceCorrect == MCSpec => DebouncedIsSteady
<1>1. ASSUME IInv, MCNext, NEW k \in Keys
      PROVE  /\ (k \in current_key') # (k \in current_key) => steady'[k] = STEADY
             /\ steady'[k] = STEADY => (k \in current_key' <=> k \in deb_old_val')
  <2>1. PICK down \in Codes : on_key_10ms_handle(down) /\ control_timer10ms(current_key')
    BY <1>1, StepIs
  <2>2. ScanInv' /\ steady' \in [Keys -> 1..STEADY]
    BY <1>1, <2>1, StepIs, ScanKeeps
  <2>3. (k \in current_key') # (k \in current_key) =>
            k \notin deb_arr'[1] \cup deb_arr'[2] \cup deb_arr'[3]
    BY <1>1, <2>1, ScanAt
  <2>4. steady'[k] \in 1..4 /\ STEADY = 4
    BY <2>2 DEF STEADY, DEBOUNCE_MAX_COUNT
  <2> QED
    BY <2>2, <2>3, <2>4 DEF ScanInv
<1>2. IInv /\ [MCNext]_mcvars =>
          [\A k \in Keys :
              /\ (k \in current_key') # (k \in current_key) => steady'[k] = STEADY
              /\ steady'[k] = STEADY => (k \in current_key' <=> k \in deb_old_val')]_mcvars
  BY <1>1
<1> QED
  BY <1>2, Invariance, PTL DEF MCSpec, DebouncedIsSteady

\* A press that sets the next level on release did nothing while it was held
\* (keys_ignore, x_control.c:113).
THEOREM PressIsNoHold == MCSpec => HoldIsNoPress
<1>1. ASSUME IInv, MCNext, act' = "NEXT"
      PROVE  last_key = {"LEVEL"} /\ done = 0
  <2>1. Release(current_key')
    <3>1. control_timer10ms(current_key')
      BY <1>1, StepIs
    <3> QED
      BY <1>1, <3>1 DEF control_timer10ms, Press, Hold, LongPress, Other
  <2>2. last_key = {"LEVEL"} /\ ~keys_ignore
    BY <1>1, <2>1 DEF Release
  <2> QED
    BY <1>1, <2>2 DEF IInv, TypeOK, HoldInv
<1>2. IInv /\ [MCNext]_mcvars => [act' = "NEXT" => last_key = {"LEVEL"} /\ done = 0]_mcvars
  BY <1>1
<1> QED
  BY <1>2, Invariance, PTL DEF MCSpec, HoldIsNoPress
================================================================================
