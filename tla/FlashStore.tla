-------------------------------- MODULE FlashStore -----------------------------
(***************************************************************************)
(* The settings in flash (x_flash.c): one page, erased and programmed when *)
(* the settings differ from a copy in RAM of what was last written (the    *)
(* "shadow", old_snore_* in the code).  The application and a timer of     *)
(* 5 ms look for a difference, the level key leaves it to the timer.       *)
(* Power may be lost at any moment, also between erasing and programming.  *)
(*                                                                         *)
(* The page holds settings or nothing: the checksum is taken to reject an  *)
(* erased page and one whose program was cut off.                          *)
(***************************************************************************)
EXTENDS SnoreSettings

VARIABLES
    ram,        \* settings in force, in g_sysparam_st
    shadow,     \* old_snore_pwm, old_snore_tmr, old_snore_intensity
    page,       \* the page at FLASH_ADDR: {} or its settings
    pc          \* boot, the main loop, or where in flash_save_snore_cfg_if_changed

vars == <<ram, shadow, page, pc>>

TypeOK ==
    /\ ram \in Config /\ shadow \in Config
    /\ page \in {{}} \cup {{c} : c \in Config}
    /\ pc \in {"BOOT", "LOOP", "COMPARE", "PROGRAM"}

\* What flash_load makes of the page; without a valid one RAM stays zero.
Stored(p) == IF p = {} THEN Zero ELSE CHOOSE c \in Config : p = {c}

\* A reset leaves RAM zero, and any page the last run left.
Init ==
    /\ page \in {{}} \cup {{c} : c \in Config}
    /\ ram = Zero /\ shadow = Zero
    /\ pc = "BOOT"

\* mutant: the shadow is taken after SnoringInterventionInit.
LoadWithLateShadow ==
    /\ pc = "BOOT"
    /\ ram' = Normal(Stored(page)) /\ shadow' = Normal(Stored(page))
    /\ pc' = "LOOP"
    /\ UNCHANGED page

\* main: flash_load, which ends with the shadow, then SnoringInterventionInit.
flash_load ==
    /\ pc = "BOOT"
    /\ ram' = Normal(Stored(page)) /\ shadow' = Stored(page)
    /\ pc' = "LOOP"
    /\ UNCHANGED page

--------------------------------------------------------------------------------
(* Changes of the settings.                                                 *)

\* 11 B7: new settings, then flash_save_snore_cfg_if_changed.
ble_snore_segment_handle(c) ==
    /\ pc = "LOOP"
    /\ ram' = c /\ pc' = "COMPARE"
    /\ UNCHANGED <<shadow, page>>

\* The level key, short: the next level.
KeyNextLevel ==
    /\ pc = "LOOP"
    /\ ram' = [ram EXCEPT !.intensity = IF @ < 3 THEN @ + 1 ELSE 1]
    /\ UNCHANGED <<shadow, page, pc>>

\* The level key, held: off.
KeyOff ==
    /\ pc = "LOOP"
    /\ ram' = [ram EXCEPT !.intensity = 0]
    /\ UNCHANGED <<shadow, page, pc>>

--------------------------------------------------------------------------------
(* Writing them back.                                                       *)

\* The timer of 5 ms.
flash_run ==
    /\ pc = "LOOP"
    /\ pc' = "COMPARE"
    /\ UNCHANGED <<ram, shadow, page>>

Unchanged ==
    /\ pc = "COMPARE" /\ shadow = ram
    /\ pc' = "LOOP"
    /\ UNCHANGED <<ram, shadow, page>>

Erase ==
    /\ pc = "COMPARE" /\ shadow # ram
    /\ page' = {} /\ pc' = "PROGRAM"
    /\ UNCHANGED <<ram, shadow>>

\* mutant: the shadow is not updated.
ProgramKeepsShadow ==
    /\ pc = "PROGRAM"
    /\ page' = {ram} /\ pc' = "LOOP"
    /\ UNCHANGED <<ram, shadow>>

\* flash_save's program, and flash_snore_shadow_update.
Program ==
    /\ pc = "PROGRAM"
    /\ page' = {ram} /\ shadow' = ram /\ pc' = "LOOP"
    /\ UNCHANGED ram

\* Power is lost; a program cut off leaves the page as the erase did.
PowerLoss ==
    /\ ram' = Zero /\ shadow' = Zero /\ pc' = "BOOT"
    /\ UNCHANGED page

Save == Unchanged \/ Erase \/ Program

Next ==
    \/ \E c \in Config : ble_snore_segment_handle(c)
    \/ KeyNextLevel \/ KeyOff
    \/ flash_load \/ flash_run \/ Save
    \/ PowerLoss

\* The timer is started again each time; booting and a save once begun are
\* straight-line code.
Spec ==
    /\ Init /\ [][Next]_vars
    /\ WF_vars(flash_load) /\ WF_vars(flash_run) /\ WF_vars(Save)

--------------------------------------------------------------------------------
\* The settings in force; during the boot those about to be.
Now == IF pc = "BOOT" THEN Normal(Stored(page)) ELSE ram

\* The page and its shadow are a store that a reset reads back: nothing is
\* erased that is in force already, which holds only while the shadow is what
\* the page holds (x_flash.c:73-81), and nothing but the settings in force
\* replaces what was erased.
Kept == INSTANCE KeptSettings WITH now <- Now, kept <- Stored(page)
ImplementsKept == Kept!Spec

\* Settings that nobody changes any more come to be those that the flash gives
\* back, the defaults of a dock that found no valid page among them, once the
\* power stays on.
KeptInTheEnd ==
    <>[](pc # "BOOT") => \A c \in Config : <>[](ram = c) => <>[](Stored(page) = c)
================================================================================
