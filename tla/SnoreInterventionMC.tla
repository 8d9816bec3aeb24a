-------------------------- MODULE SnoreInterventionMC --------------------------
(***************************************************************************)
(* SnoreIntervention on small instances: times scaled down so that their   *)
(* order is kept (lift segment, detection window, test cycle, production   *)
(* cycle of more than three windows), and a bounded number of requests of  *)
(* the user.                                                               *)
(***************************************************************************)
EXTENDS SnoreIntervention

CONSTANT MAX_REQUESTS   \* bound on the user's requests in a behaviour

VARIABLE requests       \* how many there were

MCvars == <<vars, requests>>

MCInit == Init /\ requests = 0

\* A step of the dock, the room or the main box; a request of the user.
Own(A) == A /\ UNCHANGED requests
Asked(A) == A /\ requests < MAX_REQUESTS /\ requests' = requests + 1

MCNext ==
    \/ Own(Tick10ms)
    \/ Own(SnoringIntervention_run)
    \/ \E n \in Bursts : Own(SnorePulse(n))
    \/ \E s \in Boxes : Own(MainboxFrame(s))
    \/ \E level \in 0 .. 3, t \in TmrValues : Asked(BleSetSnore(level, t))
    \/ \E mode \in Modes : Asked(snore_run_mode_set(mode))
    \/ Asked(ble_app_key_dispatch)
    \/ Asked(KeyOff)
    \/ Asked(KeyNextLevel)
    \/ \E cmd \in VoiceCommands : Asked(offline_voice_dataHandle(cmd))

MCSpec == MCInit /\ [][MCNext]_MCvars /\ Fairness

\* Windows and cycles in ticks: the test cycle is one test window long and
\* shorter than the longest segment, the production cycle has room for four
\* production windows.
MCWindow == [PROD |-> 2, TEST |-> 1]
MCCycle == [PROD |-> 13, TEST |-> 1]

\* The repeat counts of the code in order of size: 1 < 2 < 3 < 15 < 30 become 1
\* and 2.
MCRepeat == [k \in Keys |-> IF k \in {"STOP", "FLAT", "MEMORY"} THEN 1 ELSE 2]
================================================================================
