----------------------------- MODULE VoicePairingMC ----------------------------
(***************************************************************************)
(* VoicePairing with a bounded number of requests: of the user at switch   *)
(* and keys, of the voice chip, and of the application that connects.      *)
(***************************************************************************)
EXTENDS VoicePairing

CONSTANT MAX_REQUESTS   \* bound on the requests in a behaviour

VARIABLE requests       \* how many there were

MCvars == <<vars, requests>>

MCInit == Init /\ requests = 0

Own(A) == A /\ UNCHANGED requests
Asked(A) == A /\ requests < MAX_REQUESTS /\ requests' = requests + 1

MCNext ==
    \/ Own(LedTick)
    \/ \E raw \in Positions : Asked(check_offline_voice_keys(raw))
    \/ \E frame \in Frames : Asked(offline_voice_Handle(frame))
    \/ Asked(PairKey)
    \/ Asked(Connected)
    \/ Asked(Disconnected)

MCSpec == MCInit /\ [][MCNext]_MCvars /\ Fairness
================================================================================
