------------------------------- MODULE KeptSettings ----------------------------
(***************************************************************************)
(* What the program promises of its settings: a reset brings back those    *)
(* that were kept last.  Only settings that are not kept yet are ever      *)
(* written, and only then a reset at the wrong moment may lose the old     *)
(* ones too.                                                               *)
(***************************************************************************)
EXTENDS SnoreSettings

VARIABLES
    now,    \* settings in force
    kept    \* settings of which a reset makes those in force

vars == <<now, kept>>

Init == kept \in Config /\ now = Normal(kept)

Set == now' \in Config /\ UNCHANGED kept

\* The old ones are given up for those in force.
Drop == now # kept /\ kept' = Zero /\ UNCHANGED now
Keep == kept' = now /\ UNCHANGED now

Reset == now' = Normal(kept) /\ UNCHANGED kept

Next == Set \/ Drop \/ Keep \/ Reset

Spec == Init /\ [][Next]_vars
================================================================================
