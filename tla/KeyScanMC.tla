-------------------------------- MODULE KeyScanMC ------------------------------
(***************************************************************************)
(* KeyScan with what its properties look back to: how long each pin has    *)
(* been as it is, and what was done since the keys that are down changed.  *)
(***************************************************************************)
EXTENDS KeyScan, FiniteSets

VARIABLES
    steady,     \* scans in a row with the pin as it is, up to STEADY
    done        \* acts since current_key changed, up to 2

STEADY == DEBOUNCE_MAX_COUNT + 1

mcvars == <<vars, steady, done>>

MCInit == Init /\ steady = [k \in Keys |-> STEADY] /\ done = 0

MCNext ==
    /\ Next
    /\ steady' = [k \in Keys |->
           IF (k \in deb_old_val') # (k \in deb_old_val) THEN 1
           ELSE IF steady[k] < STEADY THEN steady[k] + 1 ELSE STEADY]
    /\ done' = LET before == IF last_key' # last_key THEN 0 ELSE done
               IN  IF act' # "NONE" /\ before < 2 THEN before + 1 ELSE before

MCSpec == MCInit /\ [][MCNext]_mcvars

--------------------------------------------------------------------------------
\* A key is taken for down or up when its pin was so in four scans, neither
\* earlier nor later: contact bounce of 30 ms makes no press, and no press that
\* outlasts it is missed (analog_key_deebounce).
DebouncedIsSteady ==
    [][\A k \in Keys :
        /\ (k \in current_key') # (k \in current_key) => steady'[k] = STEADY
        /\ steady'[k] = STEADY => (k \in current_key' <=> k \in deb_old_val')]_mcvars

\* However long keys stay down, they pair or switch off once (x_control.c:87-110):
\* pairing would toggle back, were the counter to pass its limit.
OncePerHold == last_key # {} => done <= 1

\* A hold that switched off is not also a press, which would set level 1 again
\* on release (keys_ignore, x_control.c:113).
HoldIsNoPress == [][act' = "NEXT" => last_key = {"LEVEL"} /\ done = 0]_mcvars
================================================================================
