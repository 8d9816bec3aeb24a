------------------------------ MODULE SnoreSettings ----------------------------
(***************************************************************************)
(* The settings of the snore intervention that outlive a power loss:       *)
(* strength and time of a lift and the level (flash_save_data_st, g.h).    *)
(***************************************************************************)
EXTENDS Naturals

CONSTANTS
    Pwms, Tmrs,         \* bytes the application may send
    SI_PWM, SI_TMR      \* what the firmware takes for a 0

ASSUME SettingsAssumption ==
    /\ 0 \in Pwms /\ SI_PWM \in Pwms
    /\ 0 \in Tmrs /\ SI_TMR \in Tmrs

\* The application is refused a level above 3, and the key stays below it.
Config == [pwm : Pwms, tmr : Tmrs, intensity : 0..3]

\* The variables after a reset, before flash_load.
Zero == [pwm |-> 0, tmr |-> 0, intensity |-> 0]

\* SnoringInterventionInit: a 0 is replaced.
Normal(c) == [c EXCEPT !.pwm = IF @ = 0 THEN SI_PWM ELSE @,
                       !.tmr = IF @ = 0 THEN SI_TMR ELSE @]
================================================================================
