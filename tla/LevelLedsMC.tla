------------------------------ MODULE LevelLedsMC ------------------------------
(***************************************************************************)
(* LevelLeds with a bounded number of requests: of the user at the key, of *)
(* the application, and changes of the charging station.                   *)
(***************************************************************************)
EXTENDS LevelLeds

CONSTANT MAX_REQUESTS   \* bound on the requests in a behaviour

VARIABLE requests       \* how many there were

MCvars == <<vars, requests>>

MCInit == Init /\ requests = 0

Own(A) == A /\ UNCHANGED requests
Asked(A) == A /\ requests < MAX_REQUESTS /\ requests' = requests + 1

MCNext ==
    \/ Own(LedTick)
    \/ Own(control_timer1000ms)
    \/ Asked(KeyShort)
    \/ Asked(KeyHeld)
    \/ \E intensity \in 0..3 : Asked(BleSetSnore(intensity))
    \/ Asked(ChargeChange)

MCSpec == MCInit /\ [][MCNext]_MCvars /\ Fairness
================================================================================
