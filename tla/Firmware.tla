-------------------------------- MODULE Firmware -------------------------------
(***************************************************************************)
(* What an update promises: the program is one image at any time, and it   *)
(* changes at a start only, to the image that was adopted last.  Adopting  *)
(* an image takes effect at once or not at all; a reset or a loss of power *)
(* at any moment, also in the boot code, changes nothing but that the      *)
(* program does not run until the next start.                              *)
(***************************************************************************)
CONSTANT Images

VARIABLES
    runs,       \* the image that runs, as a set: empty in the boot code
    next,       \* the image that the next start brings, as a set as well
    offered     \* the image the application sends

vars == <<runs, next, offered>>

Init ==
    /\ (\E i \in Images : next = {i}) /\ runs = next
    /\ offered \in Images

Offer ==
    /\ runs # {}
    /\ offered' \in Images
    /\ UNCHANGED <<runs, next>>

Adopt ==
    /\ runs # {}
    /\ next' = {offered}
    /\ UNCHANGED <<runs, offered>>

Stop ==
    /\ runs' = {}
    /\ UNCHANGED <<next, offered>>

Start ==
    /\ runs = {} /\ runs' = next
    /\ UNCHANGED <<next, offered>>

Next == Offer \/ Adopt \/ Stop \/ Start

Spec == Init /\ [][Next]_vars
================================================================================
